-------------------------- MODULE ShutdownRegistry --------------------------
(***************************************************************************)
(* Stop requests against servers that start and tear down (server.nim).    *)
(* A server's ShutdownRecord (its stop flag and the descriptors that wake  *)
(* its loops) is published in a slot of a lock-free registry.  A signal    *)
(* handler, or the no-argument requestShutdown, fires every slot;          *)
(* requestShutdown(server) fires one record.  Teardown unpublishes the     *)
(* record, waits until nobody is counted as reading it, and frees it.      *)
(*                                                                         *)
(* Requests and owners interleave at every atomic access.  Each server has *)
(* one loop; a server object is started once, and addresses and slots are  *)
(* reused by later servers.  A reader count is modelled as the set of the  *)
(* requests it counts: the code keeps its size and asks only whether it is *)
(* zero.                                                                   *)
(***************************************************************************)
EXTENDS Naturals, FiniteSets

CONSTANTS
    Servers,
    Requests,   \* threads, and signal deliveries, that ask for a stop
    Addrs,      \* addresses the allocator gives to records
    Nil,        \* the null pointer
    All,        \* target of the no-argument requestShutdown
    NumSlots,   \* maxRegisteredServers
    MaxRequests \* bound: stop requests made

ASSUME RegistryAssumption ==
    /\ NumSlots \in Nat \ {0}
    /\ MaxRequests \in Nat
    /\ Nil \notin Addrs \union Servers
    /\ All \notin Servers
    /\ IsFiniteSet(Requests)

Slots == 1..NumSlots
NoSlot == 0    \* shutdownSlot = -1: the registry was full

OwnerState == {"new", "scan", "start", "published", "created", "serving",
               "unwind", "unwindWake", "unwindJoin", "stopping", "retire",
               "unpublish", "await", "dealloc", "release", "gone"}
RequestState == {"idle", "enter", "load", "check", "store", "wake", "leave"}

VARIABLES
    slot,      \* serverRecords
    readers,   \* serverRecordUsers, and overflowUsers under NoSlot
    memory,    \* address -> the server whose record is there, Nil if free
    tags,      \* registrations: the last tag given out
    owner,     \* where each server's owner thread is
    shutdown,  \* Server.shutdown
    record,    \* the owner's own pointer to its record
    index,     \* Server.shutdownSlot
    gen,       \* the record's gen, and Server.shutdownGen
    leaked,    \* the threads were detached, so their resources stay
    flag,      \* the stop flag
    wakeFd,    \* the loop's wakeup descriptor as the record shows it
    loop,      \* the loop thread
    wakeup,    \* the wakeup descriptor reads ready
    request,   \* where each stop request is
    target, at, ptr, \* its target, slot and record pointer
    requests   \* number of requests made

ownerVars   == <<owner, shutdown, record, index, gen, leaked, tags>>
loopVars    == <<loop, wakeup>>
requestVars == <<request, target, at, ptr, requests>>
vars == <<slot, readers, memory, ownerVars, flag, wakeFd, loopVars, requestVars>>

Init ==
    /\ slot = [i \in Slots |-> Nil]
    /\ readers = [i \in Slots \union {NoSlot} |-> {}]
    /\ memory = [a \in Addrs |-> Nil]
    /\ tags = 0
    /\ owner = [s \in Servers |-> "new"]
    /\ shutdown = [s \in Servers |-> Nil]
    /\ record = [s \in Servers |-> Nil]
    /\ index = [s \in Servers |-> 1]  \* zero-initialised: the first slot
    /\ gen = [s \in Servers |-> 0]
    /\ leaked = [s \in Servers |-> FALSE]
    /\ flag = [s \in Servers |-> FALSE]
    /\ wakeFd = [s \in Servers |-> "unset"]
    /\ loop = [s \in Servers |-> "none"]
    /\ wakeup = [s \in Servers |-> FALSE]
    /\ request = [r \in Requests |-> "idle"]
    /\ target = [r \in Requests |-> All]
    /\ at = [r \in Requests |-> NoSlot]
    /\ ptr = [r \in Requests |-> Nil]
    /\ requests = 0

-----------------------------------------------------------------------------
(* The owner of a server: startServer, waitFor, teardownResources.         *)

Goes(s, from, to) ==
    /\ owner[s] = from
    /\ owner' = [owner EXCEPT ![s] = to]

\* newShutdownRecord, at an address the allocator has free.  The application
\* does not ask a Server to stop while it is being assigned.
NewShutdownRecord(s) ==
    /\ Goes(s, "new", "scan")
    /\ \A r \in Requests : request[r] = "idle" \/ target[r] /= s
    /\ \E a \in Addrs :
        /\ memory[a] = Nil
        /\ memory' = [memory EXCEPT ![a] = s]
        /\ shutdown' = [shutdown EXCEPT ![s] = a]
        /\ record' = [record EXCEPT ![s] = a]
    /\ tags' = tags + 1
    /\ gen' = [gen EXCEPT ![s] = tags + 1]
    /\ UNCHANGED <<slot, readers, index, leaked, flag, wakeFd, loopVars, requestVars>>

\* registerServer, one compareExchange: take the slot, or try the next one and
\* give up at the end of a full registry.
RegisterServer(s) ==
    /\ owner[s] = "scan"
    /\ IF slot[index[s]] = Nil
       THEN /\ slot' = [slot EXCEPT ![index[s]] = record[s]]
            /\ owner' = [owner EXCEPT ![s] = "start"]
            /\ UNCHANGED index
       ELSE /\ index' = [index EXCEPT ![s] = IF @ < NumSlots THEN @ + 1 ELSE NoSlot]
            /\ owner' = [owner EXCEPT ![s] = IF index[s] < NumSlots THEN @ ELSE "start"]
            /\ UNCHANGED slot
    /\ UNCHANGED <<readers, memory, shutdown, record, gen, leaked, tags, flag,
                   wakeFd, loopVars, requestVars>>

\* newOutbox, and the store of its wakeup descriptor in the record.
PublishWake(s) ==
    /\ Goes(s, "start", "published")
    /\ wakeFd' = [wakeFd EXCEPT ![s] = "open"]
    /\ UNCHANGED <<slot, readers, memory, shutdown, record, index, gen, leaked,
                   tags, flag, loopVars, requestVars>>

\* createThread of the loop.
CreateLoop(s) ==
    /\ Goes(s, "published", "created")
    /\ loop' = [loop EXCEPT ![s] = "top"]
    /\ UNCHANGED <<slot, readers, memory, shutdown, record, index, gen, leaked,
                   tags, flag, wakeFd, wakeup, requestVars>>

\* startServer returns the Server ...
StartReturns(s) ==
    /\ Goes(s, "created", "serving")
    /\ UNCHANGED <<slot, readers, memory, shutdown, record, index, gen, leaked,
                   tags, flag, wakeFd, loopVars, requestVars>>

\* ... or something past the registration raises (the pool, a socket, a thread,
\* another loop), and the owner fires its own record.
StartFails(s) ==
    /\ owner[s] \in {"start", "published", "created"}
    /\ owner' = [owner EXCEPT ![s] = "unwind"]
    /\ UNCHANGED <<slot, readers, memory, shutdown, record, index, gen, leaked,
                   tags, flag, wakeFd, loopVars, requestVars>>

UnwindStore(s) ==
    /\ Goes(s, "unwind", "unwindWake")
    /\ flag' = [flag EXCEPT ![s] = TRUE]
    /\ UNCHANGED <<slot, readers, memory, shutdown, record, index, gen, leaked,
                   tags, wakeFd, loopVars, requestVars>>

UnwindWake(s) ==
    /\ Goes(s, "unwindWake", "unwindJoin")
    /\ wakeup' = [wakeup EXCEPT ![s] = @ \/ wakeFd[s] = "open"]
    /\ UNCHANGED <<slot, readers, memory, shutdown, record, index, gen, leaked,
                   tags, flag, wakeFd, loop, requestVars>>

\* The unwind joins the loops it started, however long they take.
UnwindJoin(s) ==
    /\ loop[s] \in {"none", "stopped"}
    /\ Goes(s, "unwindJoin", "retire")
    /\ UNCHANGED <<slot, readers, memory, shutdown, record, index, gen, leaked,
                   tags, flag, wakeFd, loopVars, requestVars>>

\* waitFor polls the flag.
WaitFor(s) ==
    /\ flag[s]
    /\ Goes(s, "serving", "stopping")
    /\ UNCHANGED <<slot, readers, memory, shutdown, record, index, gen, leaked,
                   tags, flag, wakeFd, loopVars, requestVars>>

\* Every thread has exited and is joined, or, past the hard timeout, some loop
\* or worker is stuck: all are detached and what they use is leaked.
Join(s) ==
    /\ Goes(s, "stopping", "retire")
    /\ \E stuck \in BOOLEAN :
        /\ loop[s] /= "stopped" => stuck
        /\ leaked' = [leaked EXCEPT ![s] = stuck]
    /\ UNCHANGED <<slot, readers, memory, shutdown, record, index, gen, tags,
                   flag, wakeFd, loopVars, requestVars>>

\* retireShutdownRecord clears the Server's own pointer first.
Retire(s) ==
    /\ Goes(s, "retire", "unpublish")
    /\ shutdown' = [shutdown EXCEPT ![s] = Nil]
    /\ UNCHANGED <<slot, readers, memory, record, index, gen, leaked, tags,
                   flag, wakeFd, loopVars, requestVars>>

\* unregisterServer: the compareExchange that empties the slot.  When it fails
\* there is no wait for readers; a server without a slot only waits.
Unpublish(s) ==
    LET mine == index[s] /= NoSlot /\ slot[index[s]] = record[s]
    IN  /\ Goes(s, "unpublish", IF mine \/ index[s] = NoSlot THEN "await"
                                ELSE "dealloc")
        /\ slot' = IF mine THEN [slot EXCEPT ![index[s]] = Nil] ELSE slot
        /\ UNCHANGED <<readers, memory, shutdown, record, index, gen, leaked,
                       tags, flag, wakeFd, loopVars, requestVars>>

\* Mutant: the record is freed while a request may still be reading it.
AwaitNobody(s) ==
    /\ Goes(s, "await", "dealloc")
    /\ UNCHANGED <<slot, readers, memory, shutdown, record, index, gen, leaked,
                   tags, flag, wakeFd, loopVars, requestVars>>

\* ... and the wait for its readers.
AwaitReaders(s) ==
    /\ readers[index[s]] = {}
    /\ Goes(s, "await", "dealloc")
    /\ UNCHANGED <<slot, readers, memory, shutdown, record, index, gen, leaked,
                   tags, flag, wakeFd, loopVars, requestVars>>

Dealloc(s) ==
    /\ Goes(s, "dealloc", "release")
    /\ memory' = [memory EXCEPT ![record[s]] = Nil]
    /\ UNCHANGED <<slot, readers, shutdown, record, index, gen, leaked, tags,
                   flag, wakeFd, loopVars, requestVars>>

\* freeOutbox closes the descriptor and the stop flag is freed, unless threads
\* that still use them were detached.
Release(s) ==
    /\ Goes(s, "release", "gone")
    /\ wakeFd' = IF leaked[s] THEN wakeFd ELSE [wakeFd EXCEPT ![s] = "closed"]
    /\ UNCHANGED <<slot, readers, memory, shutdown, record, index, gen, leaked,
                   tags, flag, loopVars, requestVars>>

-----------------------------------------------------------------------------
(* The loop thread, as far as a stop goes: run() reads the flag at the top  *)
(* and sleeps in its selector until the descriptor reads ready.             *)

LoopTop(s) ==
    /\ loop[s] = "top"
    /\ loop' = [loop EXCEPT ![s] = IF flag[s] THEN "stopped" ELSE "asleep"]
    /\ UNCHANGED <<slot, readers, memory, ownerVars, flag, wakeFd, wakeup,
                   requestVars>>

LoopWoken(s) ==
    /\ loop[s] = "asleep" /\ wakeup[s]
    /\ loop' = [loop EXCEPT ![s] = "top"]
    /\ wakeup' = [wakeup EXCEPT ![s] = FALSE]
    /\ UNCHANGED <<slot, readers, memory, ownerVars, flag, wakeFd, requestVars>>

-----------------------------------------------------------------------------
(* Stop requests: requestShutdown() and requestShutdown(server).           *)

Moves(r, from, to) ==
    /\ request[r] = from
    /\ request' = [request EXCEPT ![r] = to]

requestSide == <<slot, memory, ownerVars, loop>>

\* A request is made.  startServer has returned the Server it names, or was
\* never called.
Ask(r, t) ==
    /\ requests < MaxRequests
    /\ t /= All => owner[t] \notin {"scan", "start", "published", "created",
                                    "unwind", "unwindWake", "unwindJoin"}
    /\ Moves(r, "idle", "enter")
    /\ target' = [target EXCEPT ![r] = t]
    /\ at' = [at EXCEPT ![r] = IF t = All THEN 1 ELSE index[t]]
    /\ requests' = requests + 1
    /\ UNCHANGED <<requestSide, readers, ptr, flag, wakeFd, wakeup>>

\* fetchAdd of the reader count.
Enter(r) ==
    /\ Moves(r, "enter", "load")
    /\ readers' = [readers EXCEPT ![at[r]] = @ \union {r}]
    /\ UNCHANGED <<requestSide, target, at, ptr, requests, flag, wakeFd, wakeup>>

\* Mutant: a request for a server that got no slot gives up.
LoadSlotOnly(r) ==
    LET p == IF at[r] = NoSlot THEN Nil ELSE slot[at[r]]
    IN  /\ Moves(r, "load", IF p = Nil THEN "leave"
                            ELSE IF target[r] = All THEN "store" ELSE "check")
        /\ ptr' = [ptr EXCEPT ![r] = p]
        /\ UNCHANGED <<requestSide, readers, target, at, requests, flag,
                       wakeFd, wakeup>>

\* The load of the record pointer.  The fan-out, and the overflow path, fire
\* what they find; a request for one server compares the tag first.
Load(r) ==
    LET p == IF at[r] = NoSlot THEN shutdown[target[r]] ELSE slot[at[r]]
    IN  /\ Moves(r, "load", IF p = Nil THEN "leave"
                            ELSE IF target[r] = All \/ at[r] = NoSlot
                            THEN "store" ELSE "check")
        /\ ptr' = [ptr EXCEPT ![r] = p]
        /\ UNCHANGED <<requestSide, readers, target, at, requests, flag,
                       wakeFd, wakeup>>

\* The tag in the record r points at; no server's tag once it is freed.
TagAt(a) == IF memory[a] = Nil THEN 0 ELSE gen[memory[a]]

\* Mutant: the tag is not compared.
CheckNothing(r) ==
    /\ Moves(r, "check", "store")
    /\ UNCHANGED <<requestSide, readers, target, at, ptr, requests, flag,
                   wakeFd, wakeup>>

Check(r) ==
    /\ Moves(r, "check", IF TagAt(ptr[r]) = gen[target[r]] THEN "store"
                         ELSE "leave")
    /\ UNCHANGED <<requestSide, readers, target, at, ptr, requests, flag,
                   wakeFd, wakeup>>

\* fire stores the flag ...
FireStore(r) ==
    /\ Moves(r, "store", "wake")
    /\ flag' = [flag EXCEPT ![memory[ptr[r]]] = TRUE]
    /\ UNCHANGED <<requestSide, readers, target, at, ptr, requests, wakeFd,
                   wakeup>>

\* ... and then writes to the loop's descriptor, if the record has it yet.
FireWake(r) ==
    /\ Moves(r, "wake", "leave")
    /\ wakeup' = [wakeup EXCEPT ![memory[ptr[r]]] =
                        @ \/ wakeFd[memory[ptr[r]]] = "open"]
    /\ UNCHANGED <<requestSide, readers, target, at, ptr, requests, flag, wakeFd>>

\* Mutant: a request for one server is never uncounted.
LeaveCounted(r) ==
    /\ target[r] /= All
    /\ Moves(r, "leave", "idle")
    /\ UNCHANGED <<requestSide, readers, target, at, ptr, requests, flag,
                   wakeFd, wakeup>>

\* fetchSub of the reader count; the fan-out goes on with the next slot.
Leave(r) ==
    /\ Moves(r, "leave", IF target[r] = All /\ at[r] < NumSlots THEN "enter"
                         ELSE "idle")
    /\ readers' = [readers EXCEPT ![at[r]] = @ \ {r}]
    /\ at' = IF target[r] = All /\ at[r] < NumSlots
             THEN [at EXCEPT ![r] = @ + 1] ELSE at
    /\ UNCHANGED <<requestSide, target, ptr, requests, flag, wakeFd, wakeup>>

-----------------------------------------------------------------------------

OwnerStep(s) ==
    \/ NewShutdownRecord(s) \/ RegisterServer(s)
    \/ PublishWake(s) \/ CreateLoop(s) \/ StartReturns(s)
    \/ StartFails(s) \/ UnwindStore(s) \/ UnwindWake(s) \/ UnwindJoin(s)
    \/ WaitFor(s) \/ Join(s)
    \/ Retire(s) \/ Unpublish(s) \/ AwaitReaders(s) \/ Dealloc(s) \/ Release(s)

LoopStep(s) == LoopTop(s) \/ LoopWoken(s)

RequestStep(r) ==
    \/ Enter(r) \/ Load(r) \/ Check(r) \/ FireStore(r) \/ FireWake(r) \/ Leave(r)

Next ==
    \/ \E s \in Servers : OwnerStep(s) \/ LoopStep(s)
    \/ \E r \in Requests : \/ RequestStep(r)
                           \/ \E t \in Servers \union {All} : Ask(r, t)

SafetySpec == Init /\ [][Next]_vars

\* Every thread that can take a step is scheduled.  A start may fail or not.
Fairness ==
    /\ \A s \in Servers : WF_vars(OwnerStep(s)) /\ WF_vars(LoopStep(s))
    /\ \A r \in Requests : WF_vars(RequestStep(r))

Spec == SafetySpec /\ Fairness

-----------------------------------------------------------------------------
(* Properties.                                                             *)

\* Slots, records and descriptors are well formed: registration stays inside
\* the array, and a slot holds an address or nothing.
TypeOK ==
    /\ slot \in [Slots -> Addrs \union {Nil}]
    /\ readers \in [Slots \union {NoSlot} -> SUBSET Requests]
    /\ memory \in [Addrs -> Servers \union {Nil}]
    /\ tags \in Nat
    /\ owner \in [Servers -> OwnerState]
    /\ shutdown \in [Servers -> Addrs \union {Nil}]
    /\ record \in [Servers -> Addrs \union {Nil}]
    /\ index \in [Servers -> Slots \union {NoSlot}]
    /\ gen \in [Servers -> Nat]
    /\ leaked \in [Servers -> BOOLEAN]
    /\ flag \in [Servers -> BOOLEAN]
    /\ wakeFd \in [Servers -> {"unset", "open", "closed"}]
    /\ loop \in [Servers -> {"none", "top", "asleep", "stopped"}]
    /\ wakeup \in [Servers -> BOOLEAN]
    /\ request \in [Requests -> RequestState]
    /\ target \in [Requests -> Servers \union {All}]
    /\ at \in [Requests -> Slots \union {NoSlot}]
    /\ ptr \in [Requests -> Addrs \union {Nil}]
    /\ requests \in Nat

\* A request that is about to read a record, or to write through it.
Holds(r) == request[r] \in {"check", "store", "wake"}

\* No stop request ever reads a freed record, stores to a freed flag or writes
\* to a closed descriptor, whichever teardown it races.
NeverTouchesFreed ==
    \A r \in Requests : Holds(r) =>
        /\ ptr[r] \in Addrs
        /\ memory[ptr[r]] \in Servers
        /\ wakeFd[memory[ptr[r]]] /= "closed"

\* requestShutdown(server) stops that server or none: a record that another
\* server registered in the same slot, or at the same address, is not fired.
StopsOnlyItsServer ==
    \A r \in Requests :
        request[r] \in {"store", "wake"} /\ target[r] /= All =>
            memory[ptr[r]] = target[r]

\* The compareExchange of unregisterServer always finds its own record, so it
\* never skips the wait for readers and never empties another server's slot.
FindsItsRecord ==
    \A s \in Servers :
        owner[s] = "unpublish" /\ index[s] /= NoSlot =>
            slot[index[s]] = record[s]

\* A loop asleep in its selector after the flag was stored has its wakeup
\* pending, or somebody is on the way to write it: a stop that races the
\* start of the loop is not lost (#418).
NoLostStop ==
    \A s \in Servers :
        flag[s] /\ loop[s] = "asleep" =>
            \/ wakeup[s]
            \/ owner[s] = "unwindWake"
            \/ \E r \in Requests : request[r] = "wake" /\ memory[ptr[r]] = s

\* requestShutdown(server) on a server that is serving stops its loop.
StopReaches ==
    \A r \in Requests, s \in Servers :
        request[r] = "enter" /\ target[r] = s /\ owner[s] = "serving"
            ~> loop[s] = "stopped"

\* Teardown finishes: its wait for readers is not held up for ever.
TeardownEnds ==
    \A s \in Servers : owner[s] = "retire" ~> owner[s] = "gone"

=============================================================================
