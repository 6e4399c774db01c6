----------------------- MODULE ShutdownRegistryProofs -----------------------
(***************************************************************************)
(* The safety of the shutdown registry, for any number of servers, stop    *)
(* requests, addresses and slots.                                          *)
(***************************************************************************)
EXTENDS ShutdownRegistry, TLAPS

\* The owner's record is allocated; it is in its slot, if it has one; a request
\* may be using it.
Live == OwnerState \ {"new", "release", "gone"}
Published == Live \ {"scan", "await", "dealloc"}
Usable == Live \ {"scan", "dealloc"}

Counted == {"load", "check", "store", "wake", "leave"}

\* The reader count of a slot counts exactly the requests inside it.
ReadersCounted ==
    \A r \in Requests, i \in Slots \union {NoSlot} :
        r \in readers[i] <=> request[r] \in Counted /\ at[r] = i

\* A record is at one address, its owner's, from its allocation to its free.
RecordsOwned ==
    /\ \A s \in Servers : owner[s] \in Live =>
            record[s] \in Addrs /\ memory[record[s]] = s
    /\ \A a \in Addrs : memory[a] \in Servers =>
            owner[memory[a]] \in Live /\ record[memory[a]] = a

\* A slot holds the record of the server that registered there, and no other.
SlotsOwned ==
    /\ \A i \in Slots : slot[i] # Nil =>
            /\ memory[slot[i]] \in Servers
            /\ index[memory[slot[i]]] = i
            /\ owner[memory[slot[i]]] \in Published
    /\ \A s \in Servers : owner[s] \in Published /\ index[s] # NoSlot =>
            slot[index[s]] = record[s]
    /\ \A s \in Servers : owner[s] \in {"new", "scan"} => index[s] \in Slots

\* A Server's own pointer is its record's, and gone before the record is.
PointerOwned ==
    \A s \in Servers : shutdown[s] # Nil =>
        /\ shutdown[s] = record[s]
        /\ owner[s] \in Live \ {"unpublish", "await", "dealloc"}

\* The fan-out is at a slot; a request for one server, at the one it has.
TargetsPlaced ==
    /\ \A r \in Requests : request[r] # "idle" /\ target[r] = All => at[r] \in Slots
    /\ \A r \in Requests : request[r] # "idle" /\ target[r] # All =>
        /\ owner[target[r]] \notin {"scan", "start", "published", "created",
                                    "unwind", "unwindWake", "unwindJoin"}
        /\ at[r] = index[target[r]]

\* What a request holds is allocated, and belongs to the slot it is counted in.
HeldUsable ==
    \A r \in Requests : Holds(r) =>
        /\ ptr[r] \in Addrs
        /\ memory[ptr[r]] \in Servers
        /\ index[memory[ptr[r]]] = at[r]
        /\ owner[memory[ptr[r]]] \in Usable

\* Every registration has a tag of its own.
TagsDistinct ==
    /\ \A s \in Servers : gen[s] <= tags
    /\ \A s \in Servers : owner[s] = "new" <=> gen[s] = 0
    /\ \A s, t \in Servers : gen[s] = gen[t] /\ gen[s] # 0 => s = t

\* A descriptor is open from before its loop starts until the owner is gone.
DescriptorsOpen ==
    \A s \in Servers :
        /\ wakeFd[s] = "closed" => owner[s] = "gone"
        /\ owner[s] \in {"published", "created", "serving"} => wakeFd[s] = "open"
        /\ loop[s] # "none" => wakeFd[s] # "unset"

IInv ==
    /\ TypeOK
    /\ ReadersCounted /\ RecordsOwned /\ SlotsOwned /\ PointerOwned
    /\ TargetsPlaced /\ HeldUsable /\ TagsDistinct /\ DescriptorsOpen
    /\ StopsOnlyItsServer /\ NoLostStop

\* The empty registry, with no server started, satisfies the invariant.
LEMMA IInvInit == Init => IInv
BY RegistryAssumption, SMTT(8) DEF Init, IInv, TypeOK, ReadersCounted, RecordsOwned, SlotsOwned,
   PointerOwned, TargetsPlaced, HeldUsable, TagsDistinct, DescriptorsOpen,
   StopsOnlyItsServer, NoLostStop, Holds, Counted, Live, Published, Usable,
   OwnerState, RequestState, Slots, NoSlot

-----------------------------------------------------------------------------
\* What a loop or a request leaves alone is what the invariant says of records,
\* slots, tags and descriptors.
LEMMA SameRegistry ==
    ASSUME RecordsOwned, SlotsOwned, PointerOwned, TagsDistinct, DescriptorsOpen,
           UNCHANGED <<slot, memory, owner, shutdown, record, index, gen, tags>>,
           UNCHANGED wakeFd, \A s \in Servers : loop[s] = "none" => loop'[s] = "none"
    PROVE  RecordsOwned' /\ SlotsOwned' /\ PointerOwned' /\ TagsDistinct' /\ DescriptorsOpen'
<1>1. RecordsOwned'
  BY Zenon DEF RecordsOwned
<1>2. SlotsOwned'
  BY Zenon DEF SlotsOwned
<1>3. PointerOwned'
  BY Zenon DEF PointerOwned
<1>4. TagsDistinct'
  BY Zenon DEF TagsDistinct
<1>5. DescriptorsOpen'
  BY Zenon DEF DescriptorsOpen
<1> QED BY <1>1, <1>2, <1>3, <1>4, <1>5, Zenon

\* A request that goes on inside its slot stays counted there.
LEMMA SameReaders ==
    ASSUME ReadersCounted, UNCHANGED <<readers, at>>,
           \A q \in Requests : request'[q] \in Counted <=> request[q] \in Counted
    PROVE  ReadersCounted'
BY Zenon DEF ReadersCounted

\* A request that goes on keeps its target and its slot.
LEMMA SameTargets ==
    ASSUME TargetsPlaced, UNCHANGED <<target, at, owner, index>>,
           \A q \in Requests : request'[q] # "idle" => request[q] # "idle"
    PROVE  TargetsPlaced'
BY Zenon DEF TargetsPlaced

\* A request that picks nothing up holds what it held, at most.
LEMMA SameHeld ==
    ASSUME HeldUsable, UNCHANGED <<memory, index, owner>>,
           \A q \in Requests : Holds(q)' => Holds(q) /\ ptr'[q] = ptr[q] /\ at'[q] = at[q]
    PROVE  HeldUsable'
<1> SUFFICES ASSUME NEW q \in Requests, Holds(q)'
             PROVE  /\ ptr'[q] \in Addrs /\ memory[ptr'[q]] \in Servers
                    /\ index[memory[ptr'[q]]] = at'[q] /\ owner[memory[ptr'[q]]] \in Usable
  BY Zenon DEF HeldUsable
<1>1. Holds(q) /\ ptr'[q] = ptr[q] /\ at'[q] = at[q]
  BY Zenon
<1>2. /\ ptr[q] \in Addrs /\ memory[ptr[q]] \in Servers
      /\ index[memory[ptr[q]]] = at[q] /\ owner[memory[ptr[q]]] \in Usable
  BY <1>1, Zenon DEF HeldUsable
<1> QED BY <1>1, <1>2, Zenon

\* A request that does not start to fire stops no other server.
LEMMA SameStops ==
    ASSUME StopsOnlyItsServer, UNCHANGED memory,
           \A q \in Requests : request'[q] \in {"store", "wake"} =>
               /\ request[q] \in {"store", "wake"}
               /\ target'[q] = target[q] /\ ptr'[q] = ptr[q]
    PROVE  StopsOnlyItsServer'
<1> SUFFICES ASSUME NEW q \in Requests, request'[q] \in {"store", "wake"}, target'[q] /= All
             PROVE  memory[ptr'[q]] = target'[q]
  BY Zenon DEF StopsOnlyItsServer
<1>1. /\ request[q] \in {"store", "wake"}
      /\ target'[q] = target[q] /\ ptr'[q] = ptr[q]
  BY Zenon
<1>2. target[q] /= All
  BY <1>1, Zenon
<1>3. memory[ptr[q]] = target[q]
  BY <1>1, <1>2, Zenon DEF StopsOnlyItsServer
<1> QED BY <1>1, <1>3, Zenon

\* A request on its way to a wakeup that stays on its way loses no stop.
LEMMA SameStopped ==
    ASSUME NoLostStop, UNCHANGED <<flag, loop, wakeup, owner, memory>>,
           \A q \in Requests : request[q] = "wake" =>
               request'[q] = "wake" /\ ptr'[q] = ptr[q]
    PROVE  NoLostStop'
<1> SUFFICES ASSUME NEW s \in Servers, flag[s], loop[s] = "asleep",
                    ~wakeup[s], owner[s] # "unwindWake"
             PROVE  \E q \in Requests : request'[q] = "wake" /\ memory[ptr'[q]] = s
  BY Zenon DEF NoLostStop
<1>1. PICK q \in Requests : request[q] = "wake" /\ memory[ptr[q]] = s
  BY Zenon DEF NoLostStop
<1>2. request'[q] = "wake" /\ ptr'[q] = ptr[q]
  BY <1>1, Zenon
<1>3. memory[ptr'[q]] = s
  BY <1>1, <1>2, Zenon
<1> QED BY <1>2, <1>3, Zenon

\* The parts of the invariant, one by one.
LEMMA IInvParts ==
    ASSUME IInv
    PROVE  /\ TypeOK /\ ReadersCounted /\ RecordsOwned /\ SlotsOwned /\ PointerOwned
           /\ TargetsPlaced /\ HeldUsable /\ TagsDistinct /\ DescriptorsOpen
           /\ StopsOnlyItsServer /\ NoLostStop
BY Zenon DEF IInv

\* A request moves alone.
LEMMA RequestMoves ==
    ASSUME TypeOK, NEW r \in Requests, NEW from, NEW to, Moves(r, from, to)
    PROVE  /\ request[r] = from /\ request'[r] = to
           /\ \A q \in Requests : q # r => request'[q] = request[q]
<1>1. request \in [Requests -> RequestState]
  BY Zenon DEF TypeOK
<1> QED BY <1>1 DEF Moves

-----------------------------------------------------------------------------
\* Each step of an owner, a loop and a request preserves the invariant.

\* A slot is taken only when it is free, and the scan stays inside the array.
LEMMA RegisterServerPreserves ==
    ASSUME IInv, NEW s \in Servers, RegisterServer(s)
    PROVE  IInv'
<1> USE RegistryAssumption DEF IInv, RegisterServer, Goes, Moves, ownerVars, loopVars,
      requestVars, requestSide
<1>1. TypeOK'
  <2>1. CASE slot[index[s]] = Nil
    BY <2>1, SMTT(60) DEF TypeOK, OwnerState
  <2>2. CASE slot[index[s]] # Nil
    <3>1. \A i \in Slots : (IF i < NumSlots THEN i + 1 ELSE NoSlot) \in Slots \union {NoSlot}
      BY DEF Slots, NoSlot
    <3>2. index[s] \in Slots /\ index \in [Servers -> Slots \union {NoSlot}]
      BY DEF SlotsOwned, TypeOK
    <3>3. index' \in [Servers -> Slots \union {NoSlot}]
      BY <2>2, <3>1, <3>2
    <3> QED BY <2>2, <3>3, SMTT(60) DEF TypeOK, OwnerState
  <2> QED BY <2>1, <2>2
<1>2. ReadersCounted'
  BY SMTT(60) DEF ReadersCounted, Counted, TypeOK
<1>3. RecordsOwned'
  BY SMTT(60) DEF RecordsOwned, TypeOK, Live, OwnerState
<1>4. SlotsOwned'
  <2>1. /\ record[s] \in Addrs /\ memory[record[s]] = s
        /\ index[s] \in Slots /\ index[s] # NoSlot
    BY DEF SlotsOwned, RecordsOwned, Live, OwnerState, Slots, NoSlot
  <2>2. "scan" \notin Published /\ "start" \in Published
    BY DEF Published, Live, OwnerState
  <2>3. \A i \in Slots : slot[i] # Nil => memory[slot[i]] # s
    BY <2>2 DEF SlotsOwned
  <2>4. CASE slot[index[s]] = Nil
    <3>1. \A t \in Servers : t # s /\ owner[t] \in Published /\ index[t] # NoSlot
              => index[t] # index[s]
      BY <2>4, RegistryAssumption DEF SlotsOwned, RecordsOwned, TypeOK, Published
    <3> QED BY <2>1, <2>2, <2>3, <2>4, <3>1, SMTT(60) DEF SlotsOwned, TypeOK
  <2>5. CASE slot[index[s]] # Nil
    <3>1. /\ \A t \in Servers : t # s => index'[t] = index[t] /\ owner'[t] = owner[t]
          /\ owner'[s] = "scan" => index'[s] = index[s] + 1 /\ index[s] < NumSlots
          /\ owner'[s] # "scan" => owner'[s] = "start" /\ index'[s] = NoSlot
      BY <2>5 DEF TypeOK
    <3>2. owner'[s] = "scan" => index'[s] \in Slots
      BY <2>1, <3>1 DEF Slots
    <3>3. \A i \in Slots : slot[i] # Nil =>
              /\ memory[slot[i]] \in Servers
              /\ index'[memory[slot[i]]] = i
              /\ owner'[memory[slot[i]]] \in Published
      BY <2>3, <3>1 DEF SlotsOwned
    <3>4. \A t \in Servers : owner'[t] \in Published /\ index'[t] # NoSlot =>
              slot[index'[t]] = record[t]
      BY <2>2, <3>1 DEF SlotsOwned
    <3>5. \A t \in Servers : owner'[t] \in {"new", "scan"} => index'[t] \in Slots
      BY <3>1, <3>2 DEF SlotsOwned
    <3> QED BY <2>5, <3>3, <3>4, <3>5 DEF SlotsOwned
  <2> QED BY <2>4, <2>5
<1>5. PointerOwned'
  BY SMTT(60) DEF PointerOwned, TypeOK, Live, OwnerState
<1>6. TargetsPlaced'
  BY SMTT(60) DEF TargetsPlaced, TypeOK, OwnerState
<1>7. HeldUsable'
  BY SMTT(60) DEF HeldUsable, Holds, TypeOK, RecordsOwned, SlotsOwned,
         PointerOwned, TargetsPlaced, Live, Published, Usable, OwnerState
<1>8. TagsDistinct'
  BY SMTT(60) DEF TagsDistinct, TypeOK, OwnerState
<1>9. DescriptorsOpen'
  BY SMTT(60) DEF DescriptorsOpen, TypeOK, OwnerState
<1>10. StopsOnlyItsServer'
  BY SMTT(60) DEF StopsOnlyItsServer, HeldUsable, Holds, TypeOK,
         RecordsOwned, PointerOwned
<1>11. NoLostStop'
  BY SMTT(60) DEF NoLostStop, HeldUsable, Holds, TypeOK, RecordsOwned,
         Usable, Live, OwnerState
<1> QED BY <1>1, <1>2, <1>3, <1>4, <1>5, <1>6, <1>7, <1>8, <1>9, <1>10, <1>11

\* The owner empties the slot it registered in, which still holds its record.
LEMMA UnpublishPreserves ==
    ASSUME IInv, NEW s \in Servers, Unpublish(s)
    PROVE  IInv'
<1> USE RegistryAssumption DEF IInv, Unpublish, Goes, Moves, ownerVars, loopVars,
      requestVars, requestSide
<1>1. TypeOK'
  BY SMTT(60) DEF TypeOK, OwnerState, RequestState, Slots, NoSlot
<1>2. ReadersCounted'
  BY SMTT(60) DEF ReadersCounted, Counted, TypeOK
<1>3. RecordsOwned'
  BY SMTT(60) DEF RecordsOwned, TypeOK, Live, OwnerState
<1>4. SlotsOwned'
  BY SMTT(60) DEF SlotsOwned, RecordsOwned, TypeOK, Live, Published,
         OwnerState, Slots, NoSlot
<1>5. PointerOwned'
  BY SMTT(60) DEF PointerOwned, TypeOK, Live, OwnerState
<1>6. TargetsPlaced'
  BY SMTT(60) DEF TargetsPlaced, TypeOK, OwnerState
<1>7. HeldUsable'
  BY SMTT(60) DEF HeldUsable, Holds, TypeOK, RecordsOwned, SlotsOwned,
         PointerOwned, TargetsPlaced, Live, Published, Usable, OwnerState
<1>8. TagsDistinct'
  BY SMTT(60) DEF TagsDistinct, TypeOK, OwnerState
<1>9. DescriptorsOpen'
  BY SMTT(60) DEF DescriptorsOpen, TypeOK, OwnerState
<1>10. StopsOnlyItsServer'
  BY SMTT(60) DEF StopsOnlyItsServer, HeldUsable, Holds, TypeOK,
         RecordsOwned, PointerOwned
<1>11. NoLostStop'
  BY SMTT(60) DEF NoLostStop, HeldUsable, Holds, TypeOK, RecordsOwned,
         Usable, Live, OwnerState
<1> QED BY <1>1, <1>2, <1>3, <1>4, <1>5, <1>6, <1>7, <1>8, <1>9, <1>10, <1>11

\* The record that is freed is in no slot and in no request's hands.
LEMMA DeallocPreserves ==
    ASSUME IInv, NEW s \in Servers, Dealloc(s)
    PROVE  IInv'
<1> USE RegistryAssumption DEF IInv, Dealloc, Goes, Moves, ownerVars, loopVars,
      requestVars, requestSide
<1>1. TypeOK'
  <2>1. memory' \in [Addrs -> Servers \union {Nil}]
    <3>1. memory \in [Addrs -> Servers \union {Nil}]
      BY DEF TypeOK
    <3>2. memory' = [memory EXCEPT ![record[s]] = Nil]
      OBVIOUS
    <3> HIDE DEF IInv, Dealloc
    <3> QED BY <3>1, <3>2, Zenon
  <2>2. owner' \in [Servers -> OwnerState]
    BY SMTT(60) DEF TypeOK, OwnerState
  <2> QED BY <2>1, <2>2, SMTT(60) DEF TypeOK
<1>2. ReadersCounted'
  BY SMTT(60) DEF ReadersCounted, Counted, TypeOK
<1>3. RecordsOwned'
  BY SMTT(60) DEF RecordsOwned, TypeOK, Live, OwnerState
<1>4. SlotsOwned'
  <2>1. /\ record[s] \in Addrs /\ memory[record[s]] = s
        /\ "dealloc" \notin Published /\ "release" \notin Published
    BY DEF RecordsOwned, Published, Live, OwnerState
  <2>2. \A i \in Slots : slot[i] # Nil => memory[slot[i]] # s
    BY <2>1 DEF SlotsOwned
  <2>3. \A i \in Slots : slot[i] # Nil => memory'[slot[i]] = memory[slot[i]]
    BY <2>1, <2>2 DEF TypeOK
  <2> QED BY <2>1, <2>2, <2>3, SMTT(60) DEF SlotsOwned, TypeOK
<1>5. PointerOwned'
  BY SMTT(60) DEF PointerOwned, TypeOK, Live, OwnerState
<1>6. TargetsPlaced'
  BY SMTT(60) DEF TargetsPlaced, TypeOK, OwnerState
<1>7. HeldUsable'
  BY SMTT(60) DEF HeldUsable, Holds, TypeOK, RecordsOwned, SlotsOwned,
         PointerOwned, TargetsPlaced, Live, Published, Usable, OwnerState
<1>8. TagsDistinct'
  BY SMTT(60) DEF TagsDistinct, TypeOK, OwnerState
<1>9. DescriptorsOpen'
  BY SMTT(60) DEF DescriptorsOpen, TypeOK, OwnerState
<1>10. StopsOnlyItsServer'
  BY DEF StopsOnlyItsServer, HeldUsable, Holds, TypeOK, RecordsOwned, Usable,
         Live, OwnerState
<1>11. NoLostStop'
  BY SMTT(60) DEF NoLostStop, HeldUsable, Holds, TypeOK, RecordsOwned,
         Usable, Live, OwnerState
<1> QED BY <1>1, <1>2, <1>3, <1>4, <1>5, <1>6, <1>7, <1>8, <1>9, <1>10, <1>11

\* What a request loads is published, or still its target's own.
LEMMA LoadPreserves ==
    ASSUME IInv, NEW r \in Requests, Load(r)
    PROVE  IInv'
<1> DEFINE p == IF at[r] = NoSlot THEN shutdown[target[r]] ELSE slot[at[r]]
<1>1. UNCHANGED <<slot, readers, memory, owner, shutdown, record, index, gen, tags, leaked,
                  flag, wakeFd, loop, wakeup, target, at, requests>>
  BY Zenon DEF Load, requestSide, ownerVars
<1>2. /\ request[r] = "load"
      /\ request'[r] = IF p = Nil THEN "leave"
                       ELSE IF target[r] = All \/ at[r] = NoSlot THEN "store" ELSE "check"
      /\ \A q \in Requests : q # r => request'[q] = request[q]
  BY IInvParts, RequestMoves, Zenon DEF Load
<1>3. /\ ptr \in [Requests -> Addrs \union {Nil}] /\ ptr' = [ptr EXCEPT ![r] = p]
      /\ request \in [Requests -> RequestState]
  BY IInvParts, Zenon DEF TypeOK, Load
<1>4. at[r] = NoSlot => target[r] \in Servers /\ index[target[r]] = NoSlot
  <2>1. target[r] \in Servers \union {All} /\ NoSlot \notin Slots
    BY IInvParts DEF TypeOK, Slots, NoSlot
  <2> QED BY <1>2, <2>1, IInvParts DEF TargetsPlaced
<1>5. p \in Addrs \union {Nil}
  <2>1. CASE at[r] = NoSlot
    BY <1>4, <2>1, IInvParts, Zenon DEF TypeOK
  <2>2. CASE at[r] # NoSlot
    <3>1. at[r] \in Slots \union {NoSlot} /\ slot \in [Slots -> Addrs \union {Nil}]
      BY IInvParts, Zenon DEF TypeOK
    <3> QED BY <2>2, <3>1
  <2> QED BY <2>1, <2>2, Zenon
<1> HIDE DEF p
<1>6. /\ ptr'[r] = p
      /\ \A q \in Requests : q # r => ptr'[q] = ptr[q]
  BY <1>3
<1>7. TypeOK'
  <2>1. request' \in [Requests -> RequestState]
    BY <1>3 DEF Load, Moves, RequestState
  <2>2. ptr' \in [Requests -> Addrs \union {Nil}]
    BY <1>3, <1>5
  <2> QED BY <1>1, <2>1, <2>2, IInvParts, Zenon DEF TypeOK
<1>8. ReadersCounted'
  <2>1. \A q \in Requests : request'[q] \in Counted <=> request[q] \in Counted
    BY <1>2 DEF Counted
  <2> QED BY <1>1, <2>1, IInvParts, SameReaders, Zenon
<1>9. RecordsOwned' /\ SlotsOwned' /\ PointerOwned' /\ TagsDistinct' /\ DescriptorsOpen'
  BY <1>1, IInvParts, SameRegistry, Zenon
<1>10. TargetsPlaced'
  <2>1. \A q \in Requests : request'[q] # "idle" => request[q] # "idle"
    BY <1>2
  <2> QED BY <1>1, <2>1, IInvParts, SameTargets, Zenon
<1>11. Holds(r)' => p \in Addrs
  <2>1. Holds(r)' => p # Nil
    BY <1>2 DEF Holds
  <2> QED BY <1>5, <2>1
<1>12. /\ p \in Addrs /\ at[r] = NoSlot => memory[p] = target[r] /\ owner[target[r]] \in Usable
       /\ p \in Addrs /\ at[r] # NoSlot =>
            /\ memory[p] \in Servers /\ index[memory[p]] = at[r]
            /\ owner[memory[p]] \in Usable
  <2>1. Nil \notin Addrs
    BY RegistryAssumption
  <2>2. ASSUME p \in Addrs, at[r] = NoSlot
        PROVE  memory[p] = target[r] /\ owner[target[r]] \in Usable
    <3>1. p = shutdown[target[r]] /\ p # Nil
      BY <2>1, <2>2, Zenon DEF p
    <3>2. p = record[target[r]] /\ owner[target[r]] \in Live \ {"unpublish", "await", "dealloc"}
      BY <1>4, <2>2, <3>1, IInvParts, Zenon DEF PointerOwned
    <3>3. memory[p] = target[r]
      BY <1>4, <2>2, <3>2, IInvParts, Zenon DEF RecordsOwned
    <3>4. owner[target[r]] # "scan"
      BY <1>2, <1>4, <2>2, RegistryAssumption, IInvParts DEF TargetsPlaced
    <3> QED BY <3>2, <3>3, <3>4 DEF Usable
  <2>3. ASSUME p \in Addrs, at[r] # NoSlot
        PROVE  /\ memory[p] \in Servers /\ index[memory[p]] = at[r]
               /\ owner[memory[p]] \in Usable
    <3>1. p = slot[at[r]] /\ p # Nil
      BY <2>1, <2>3, Zenon DEF p
    <3>2. at[r] \in Slots
      BY <2>3, IInvParts DEF TypeOK
    <3>3. Published \subseteq Usable
      BY DEF Published, Usable, Live
    <3> QED BY <3>1, <3>2, <3>3, IInvParts, Zenon DEF SlotsOwned
  <2> QED BY <2>2, <2>3, Zenon
<1>13. HeldUsable'
  <2>1. \A q \in Requests : q # r => (Holds(q)' <=> Holds(q))
    BY <1>2 DEF Holds
  <2>2. HeldUsable
    BY IInvParts
  <2>3. Holds(r)' => /\ memory[p] \in Servers /\ index[memory[p]] = at[r]
                     /\ owner[memory[p]] \in Usable
    BY <1>4, <1>11, <1>12
  <2> QED BY <1>1, <1>6, <1>11, <2>1, <2>2, <2>3 DEF HeldUsable
<1>14. StopsOnlyItsServer'
  <2>1. request'[r] \in {"store", "wake"} /\ target[r] # All => memory[p] = target[r]
    <3>1. request'[r] \in {"store", "wake"} => Holds(r)'
      BY DEF Holds
    <3> QED BY <1>2, <1>11, <1>12, <3>1
  <2>2. StopsOnlyItsServer
    BY IInvParts
  <2> QED BY <1>1, <1>2, <1>6, <2>1, <2>2 DEF StopsOnlyItsServer
<1>15. NoLostStop'
  <2>1. \A q \in Requests : request[q] = "wake" => request'[q] = "wake" /\ ptr'[q] = ptr[q]
    BY <1>2, <1>6
  <2> QED BY <1>1, <2>1, IInvParts, SameStopped, Zenon
<1> QED BY <1>7, <1>8, <1>9, <1>10, <1>13, <1>14, <1>15, Zenon DEF IInv

\* Most steps of an owner only move it on: nothing a request could look at
\* changes, and a record is given up only when nobody reads its slot.
Starting == {"scan", "start", "published", "created", "unwind", "unwindWake",
             "unwindJoin"}

MovesOn(s, x) ==
    /\ owner' = [owner EXCEPT ![s] = x]
    /\ UNCHANGED <<slot, readers, memory, record, index, gen, tags>>
    /\ UNCHANGED <<request, target, at, ptr, requests>>
    /\ owner[s] \in OwnerState \ {"new", "scan"} /\ x \in OwnerState \ {"new", "scan"}
    /\ x \in Live <=> owner[s] \in Live
    /\ x \in Published <=> owner[s] \in Published
    /\ x \in Usable \/ owner[s] \notin Usable \/ readers[index[s]] = {}
    /\ x \in Starting => owner[s] \in Starting

\* Moving on keeps every part of the invariant that is about records and slots.
LEMMA MovesOnPreserves ==
    ASSUME IInv, NEW s \in Servers, NEW x, MovesOn(s, x)
    PROVE  /\ ReadersCounted' /\ RecordsOwned' /\ SlotsOwned'
           /\ TargetsPlaced' /\ HeldUsable' /\ TagsDistinct' /\ StopsOnlyItsServer'
<1>1. /\ owner \in [Servers -> OwnerState]
      /\ memory \in [Addrs -> Servers \union {Nil}]
      /\ target \in [Requests -> Servers \union {All}]
  BY DEF IInv, TypeOK
<1>2. /\ owner'[s] = x
      /\ \A q \in Servers : q # s => owner'[q] = owner[q]
  BY <1>1 DEF MovesOn
<1>3. ReadersCounted'
  BY DEF MovesOn, IInv, ReadersCounted
<1>4. RecordsOwned'
  <2>1. \A q \in Servers : owner'[q] \in Live <=> owner[q] \in Live
    BY <1>2 DEF MovesOn
  <2> QED BY <2>1 DEF MovesOn, IInv, RecordsOwned
<1>5. SlotsOwned'
  <2>1. \A q \in Servers : owner'[q] \in Published <=> owner[q] \in Published
    BY <1>2 DEF MovesOn
  <2>2. \A q \in Servers : owner'[q] \in {"new", "scan"} => owner[q] \in {"new", "scan"}
    BY <1>2 DEF MovesOn
  <2>3. SlotsOwned
    BY DEF IInv
  <2> QED BY <2>1, <2>2, <2>3 DEF MovesOn, SlotsOwned
<1>6. TargetsPlaced'
  <2>1. \A q \in Servers : owner'[q] \in Starting => owner[q] \in Starting
    BY <1>2 DEF MovesOn
  <2>2. TargetsPlaced
    BY DEF IInv
  <2> QED BY <1>1, <2>1, <2>2 DEF MovesOn, TargetsPlaced, Starting
<1>7. HeldUsable'
  <2> SUFFICES ASSUME NEW r \in Requests, Holds(r)'
               PROVE  /\ ptr[r] \in Addrs
                      /\ memory[ptr[r]] \in Servers
                      /\ index[memory[ptr[r]]] = at[r]
                      /\ owner'[memory[ptr[r]]] \in Usable
    BY DEF MovesOn, HeldUsable
  <2>1. Holds(r)
    BY DEF MovesOn, Holds
  <2>2. /\ ptr[r] \in Addrs /\ memory[ptr[r]] \in Servers
        /\ index[memory[ptr[r]]] = at[r] /\ owner[memory[ptr[r]]] \in Usable
    BY <2>1 DEF IInv, HeldUsable
  <2>3. memory[ptr[r]] = s => x \in Usable
    <3>1. at[r] \in Slots \union {NoSlot} /\ request[r] \in Counted
      BY <2>1 DEF IInv, TypeOK, Holds, Counted
    <3>2. r \in readers[at[r]]
      BY <3>1 DEF IInv, ReadersCounted
    <3> QED BY <2>2, <3>2 DEF MovesOn
  <2> QED BY <1>2, <2>2, <2>3
<1>8. TagsDistinct'
  <2>1. \A q \in Servers : owner'[q] = "new" <=> owner[q] = "new"
    BY <1>2 DEF MovesOn
  <2>2. TagsDistinct
    BY DEF IInv
  <2> QED BY <2>1, <2>2 DEF MovesOn, TagsDistinct
<1>9. StopsOnlyItsServer'
  BY DEF MovesOn, IInv, StopsOnlyItsServer
<1> QED BY <1>3, <1>4, <1>5, <1>6, <1>7, <1>8, <1>9

\* A new record is at a free address, with a tag no server has, and no request is
\* about its server.
LEMMA NewRecordPreserves ==
    ASSUME IInv, NEW s \in Servers, NewShutdownRecord(s)
    PROVE  IInv'
<1> USE RegistryAssumption DEF IInv, NewShutdownRecord, Goes, loopVars, requestVars
<1>1. TypeOK'
  BY DEF TypeOK, OwnerState
<1>2. ReadersCounted'
  BY DEF ReadersCounted
<1>3. PICK a \in Addrs : /\ memory[a] = Nil
                         /\ memory' = [memory EXCEPT ![a] = s]
                         /\ shutdown' = [shutdown EXCEPT ![s] = a]
                         /\ record' = [record EXCEPT ![s] = a]
  BY Zenon
<1>4. /\ memory'[a] = s /\ \A b \in Addrs : b # a => memory'[b] = memory[b]
      /\ record'[s] = a /\ shutdown'[s] = a /\ owner'[s] = "scan" /\ gen'[s] = tags + 1
      /\ \A q \in Servers : q # s => /\ owner'[q] = owner[q] /\ gen'[q] = gen[q]
                                     /\ record'[q] = record[q] /\ shutdown'[q] = shutdown[q]
  BY <1>3 DEF TypeOK
<1>5. /\ \A b \in Addrs : memory[b] # Nil => memory[b] # s /\ memory'[b] = memory[b]
      /\ "new" \notin Live /\ "scan" \in Live /\ Published \subseteq Live
      /\ "scan" \notin Published /\ Usable \subseteq Live
  BY <1>3, <1>4 DEF RecordsOwned, TypeOK, Live, Published, Usable, OwnerState
<1>6. RecordsOwned'
  BY <1>3, <1>4, <1>5 DEF RecordsOwned, TypeOK
<1>7. SlotsOwned'
  BY <1>4, <1>5 DEF SlotsOwned, TypeOK
<1>8. PointerOwned'
  BY <1>4, <1>5 DEF PointerOwned
<1>9. TargetsPlaced'
  <2>1. TargetsPlaced /\ target \in [Requests -> Servers \union {All}]
    BY DEF TypeOK
  <2> QED BY <1>4, <2>1 DEF TargetsPlaced
<1>10. HeldUsable'
  BY <1>4, <1>5 DEF HeldUsable, Holds, TypeOK
<1>11. TagsDistinct'
  <2>1. tags \in Nat /\ gen \in [Servers -> Nat] /\ tags' = tags + 1 /\ TagsDistinct
    BY DEF TypeOK
  <2> HIDE DEF IInv, NewShutdownRecord
  <2> QED BY <1>4, <2>1 DEF TagsDistinct
<1>12. DescriptorsOpen'
  BY <1>4 DEF DescriptorsOpen
<1>13. StopsOnlyItsServer'
  <2>1. \A r \in Requests : Holds(r) => memory'[ptr[r]] = memory[ptr[r]]
    BY <1>5, RegistryAssumption DEF HeldUsable
  <2> QED BY <2>1 DEF StopsOnlyItsServer, Holds
<1>14. NoLostStop'
  <2>1. \A r \in Requests : Holds(r) => memory'[ptr[r]] = memory[ptr[r]]
    BY <1>5, RegistryAssumption DEF HeldUsable
  <2>2. \A q \in Servers : owner[q] = "unwindWake" => owner'[q] = "unwindWake"
    BY <1>4
  <2> QED BY <2>1, <2>2 DEF NoLostStop, Holds
<1> QED BY <1>1, <1>2, <1>6, <1>7, <1>8, <1>9, <1>10, <1>11, <1>12, <1>13, <1>14

\* startServer, waitFor and the teardown: a record is registered in a free slot
\* only, and freed after its slot was emptied and its readers have left.
LEMMA OwnerPreserves ==
    ASSUME IInv, NEW s \in Servers, OwnerStep(s)
    PROVE  IInv'
<1> USE DEF Goes, loopVars, requestVars
<1>a. TypeOK /\ PointerOwned /\ DescriptorsOpen /\ NoLostStop
  BY DEF IInv
<1>b. ASSUME NEW x, MovesOn(s, x), TypeOK', PointerOwned' /\ DescriptorsOpen', NoLostStop'
      PROVE  IInv'
  BY <1>b, MovesOnPreserves DEF IInv
<1>1. CASE NewShutdownRecord(s)
  BY <1>1, NewRecordPreserves
<1>2. CASE RegisterServer(s)
  BY <1>2, RegisterServerPreserves
<1>3. CASE PublishWake(s)
  <2>1. MovesOn(s, "published")
    BY <1>a, <1>3 DEF PublishWake, MovesOn, TypeOK, Starting, Live, Published, Usable, OwnerState
  <2>2. TypeOK'
    BY <1>a, <1>3 DEF PublishWake, TypeOK, OwnerState
  <2>3. PointerOwned' /\ DescriptorsOpen'
    BY <1>a, <1>3 DEF PublishWake, TypeOK, PointerOwned, DescriptorsOpen, Live, OwnerState
  <2>4. NoLostStop'
    BY <1>a, <1>3 DEF PublishWake, TypeOK, NoLostStop, DescriptorsOpen
  <2> QED BY <1>b, <2>1, <2>2, <2>3, <2>4
<1>4. CASE CreateLoop(s)
  <2>1. MovesOn(s, "created")
    BY <1>a, <1>4 DEF CreateLoop, MovesOn, TypeOK, Starting, Live, Published, Usable, OwnerState
  <2>2. TypeOK'
    BY <1>a, <1>4 DEF CreateLoop, TypeOK, OwnerState
  <2>3. PointerOwned' /\ DescriptorsOpen'
    BY <1>a, <1>4 DEF CreateLoop, TypeOK, PointerOwned, DescriptorsOpen, Live, OwnerState
  <2>4. NoLostStop'
    BY <1>a, <1>4 DEF CreateLoop, TypeOK, NoLostStop, DescriptorsOpen
  <2> QED BY <1>b, <2>1, <2>2, <2>3, <2>4
<1>5. CASE StartReturns(s)
  <2>1. MovesOn(s, "serving")
    BY <1>a, <1>5 DEF StartReturns, MovesOn, TypeOK, Starting, Live, Published, Usable, OwnerState
  <2>2. TypeOK'
    BY <1>a, <1>5 DEF StartReturns, TypeOK, OwnerState
  <2>3. PointerOwned' /\ DescriptorsOpen'
    BY <1>a, <1>5 DEF StartReturns, TypeOK, PointerOwned, DescriptorsOpen, Live, OwnerState
  <2>4. NoLostStop'
    BY <1>a, <1>5 DEF StartReturns, TypeOK, NoLostStop, DescriptorsOpen
  <2> QED BY <1>b, <2>1, <2>2, <2>3, <2>4
<1>6. CASE StartFails(s)
  <2>1. MovesOn(s, "unwind")
    BY <1>a, <1>6 DEF StartFails, MovesOn, TypeOK, Starting, Live, Published, Usable, OwnerState
  <2>2. TypeOK'
    BY <1>a, <1>6 DEF StartFails, TypeOK, OwnerState
  <2>3. PointerOwned' /\ DescriptorsOpen'
    BY <1>a, <1>6 DEF StartFails, TypeOK, PointerOwned, DescriptorsOpen, Live, OwnerState
  <2>4. NoLostStop'
    BY <1>a, <1>6 DEF StartFails, TypeOK, NoLostStop, DescriptorsOpen
  <2> QED BY <1>b, <2>1, <2>2, <2>3, <2>4
<1>7. CASE UnwindStore(s)
  <2>1. MovesOn(s, "unwindWake")
    BY <1>a, <1>7 DEF UnwindStore, MovesOn, TypeOK, Starting, Live, Published, Usable, OwnerState
  <2>2. TypeOK'
    BY <1>a, <1>7 DEF UnwindStore, TypeOK, OwnerState
  <2>3. PointerOwned' /\ DescriptorsOpen'
    BY <1>a, <1>7 DEF UnwindStore, TypeOK, PointerOwned, DescriptorsOpen, Live, OwnerState
  <2>4. NoLostStop'
    BY <1>a, <1>7 DEF UnwindStore, TypeOK, NoLostStop, DescriptorsOpen
  <2> QED BY <1>b, <2>1, <2>2, <2>3, <2>4
<1>8. CASE UnwindWake(s)
  <2>1. MovesOn(s, "unwindJoin")
    BY <1>a, <1>8 DEF UnwindWake, MovesOn, TypeOK, Starting, Live, Published, Usable, OwnerState
  <2>2. TypeOK'
    BY <1>a, <1>8 DEF UnwindWake, TypeOK, OwnerState
  <2>3. PointerOwned' /\ DescriptorsOpen'
    BY <1>a, <1>8 DEF UnwindWake, TypeOK, PointerOwned, DescriptorsOpen, Live, OwnerState
  <2>4. NoLostStop'
    BY <1>a, <1>8 DEF UnwindWake, TypeOK, NoLostStop, DescriptorsOpen
  <2> QED BY <1>b, <2>1, <2>2, <2>3, <2>4
<1>9. CASE UnwindJoin(s)
  <2>1. MovesOn(s, "retire")
    BY <1>a, <1>9 DEF UnwindJoin, MovesOn, TypeOK, Starting, Live, Published, Usable, OwnerState
  <2>2. TypeOK'
    BY <1>a, <1>9 DEF UnwindJoin, TypeOK, OwnerState
  <2>3. PointerOwned' /\ DescriptorsOpen'
    BY <1>a, <1>9 DEF UnwindJoin, TypeOK, PointerOwned, DescriptorsOpen, Live, OwnerState
  <2>4. NoLostStop'
    BY <1>a, <1>9 DEF UnwindJoin, TypeOK, NoLostStop, DescriptorsOpen
  <2> QED BY <1>b, <2>1, <2>2, <2>3, <2>4
<1>10. CASE WaitFor(s)
  <2>1. MovesOn(s, "stopping")
    BY <1>a, <1>10 DEF WaitFor, MovesOn, TypeOK, Starting, Live, Published, Usable, OwnerState
  <2>2. TypeOK'
    BY <1>a, <1>10 DEF WaitFor, TypeOK, OwnerState
  <2>3. PointerOwned' /\ DescriptorsOpen'
    BY <1>a, <1>10 DEF WaitFor, TypeOK, PointerOwned, DescriptorsOpen, Live, OwnerState
  <2>4. NoLostStop'
    BY <1>a, <1>10 DEF WaitFor, TypeOK, NoLostStop, DescriptorsOpen
  <2> QED BY <1>b, <2>1, <2>2, <2>3, <2>4
<1>11. CASE Join(s)
  <2>1. MovesOn(s, "retire")
    BY <1>a, <1>11 DEF Join, MovesOn, TypeOK, Starting, Live, Published, Usable, OwnerState
  <2>2. TypeOK'
    BY <1>a, <1>11 DEF Join, TypeOK, OwnerState
  <2>3. PointerOwned' /\ DescriptorsOpen'
    BY <1>a, <1>11 DEF Join, TypeOK, PointerOwned, DescriptorsOpen, Live, OwnerState
  <2>4. NoLostStop'
    BY <1>a, <1>11 DEF Join, TypeOK, NoLostStop, DescriptorsOpen
  <2> QED BY <1>b, <2>1, <2>2, <2>3, <2>4
<1>12. CASE Retire(s)
  <2>1. MovesOn(s, "unpublish")
    BY <1>a, <1>12 DEF Retire, MovesOn, TypeOK, Starting, Live, Published, Usable, OwnerState
  <2>2. TypeOK'
    BY <1>a, <1>12 DEF Retire, TypeOK, OwnerState
  <2>3. PointerOwned' /\ DescriptorsOpen'
    BY <1>a, <1>12 DEF Retire, TypeOK, PointerOwned, DescriptorsOpen, Live, OwnerState
  <2>4. NoLostStop'
    BY <1>a, <1>12 DEF Retire, TypeOK, NoLostStop, DescriptorsOpen
  <2> QED BY <1>b, <2>1, <2>2, <2>3, <2>4
<1>13. CASE Unpublish(s)
  BY <1>13, UnpublishPreserves
<1>14. CASE AwaitReaders(s)
  <2>1. MovesOn(s, "dealloc")
    BY <1>a, <1>14 DEF AwaitReaders, MovesOn, TypeOK, Starting, Live, Published, Usable, OwnerState
  <2>2. TypeOK'
    BY <1>a, <1>14 DEF AwaitReaders, TypeOK, OwnerState
  <2>3. PointerOwned' /\ DescriptorsOpen'
    BY <1>a, <1>14 DEF AwaitReaders, TypeOK, PointerOwned, DescriptorsOpen, Live, OwnerState
  <2>4. NoLostStop'
    BY <1>a, <1>14 DEF AwaitReaders, TypeOK, NoLostStop, DescriptorsOpen
  <2> QED BY <1>b, <2>1, <2>2, <2>3, <2>4
<1>15. CASE Dealloc(s)
  BY <1>15, DeallocPreserves
<1>16. CASE Release(s)
  <2>1. MovesOn(s, "gone")
    BY <1>a, <1>16 DEF Release, MovesOn, TypeOK, Starting, Live, Published, Usable, OwnerState
  <2>2. TypeOK'
    BY <1>a, <1>16 DEF Release, TypeOK, OwnerState
  <2>3. PointerOwned' /\ DescriptorsOpen'
    BY <1>a, <1>16 DEF Release, TypeOK, PointerOwned, DescriptorsOpen, Live, OwnerState
  <2>4. NoLostStop'
    BY <1>a, <1>16 DEF Release, TypeOK, NoLostStop, DescriptorsOpen
  <2> QED BY <1>b, <2>1, <2>2, <2>3, <2>4
<1> QED
  BY <1>1, <1>2, <1>3, <1>4, <1>5, <1>6, <1>7, <1>8, <1>9, <1>10,
     <1>11, <1>12, <1>13, <1>14, <1>15, <1>16 DEF OwnerStep

\* The loop thread: it sleeps only when it has read the flag as unset.
LEMMA LoopPreserves ==
    ASSUME IInv, NEW s \in Servers, LoopStep(s)
    PROVE  IInv'
<1>1. /\ UNCHANGED <<slot, readers, memory, owner, shutdown, record, index, gen, tags,
                     leaked, flag, wakeFd, request, target, at, ptr, requests>>
      /\ loop[s] # "none"
  BY Zenon DEF LoopStep, LoopTop, LoopWoken, ownerVars, requestVars
<1>2. /\ loop \in [Servers -> {"none", "top", "asleep", "stopped"}]
      /\ wakeup \in [Servers -> BOOLEAN] /\ flag \in [Servers -> BOOLEAN]
  BY IInvParts, Zenon DEF TypeOK
<1>3. /\ loop' \in [Servers -> {"none", "top", "asleep", "stopped"}]
      /\ wakeup' \in [Servers -> BOOLEAN]
      /\ \A t \in Servers : t # s => loop'[t] = loop[t] /\ wakeup'[t] = wakeup[t]
      /\ loop'[s] = "asleep" => ~flag[s]
  <2>1. CASE LoopTop(s)
    BY <1>2, <2>1 DEF LoopTop
  <2>2. CASE LoopWoken(s)
    BY <1>2, <2>2 DEF LoopWoken
  <2> QED BY <2>1, <2>2 DEF LoopStep
<1>4. TypeOK'
  BY <1>1, <1>3, IInvParts, Zenon DEF TypeOK
<1>5. RecordsOwned' /\ SlotsOwned' /\ PointerOwned' /\ TagsDistinct' /\ DescriptorsOpen'
  <2>1. \A t \in Servers : loop[t] = "none" => loop'[t] = "none"
    BY <1>1, <1>3, Zenon
  <2> QED BY <1>1, <2>1, IInvParts, SameRegistry, Zenon
<1>6. ReadersCounted' /\ TargetsPlaced'
  BY <1>1, IInvParts, SameReaders, SameTargets, Zenon
<1>7. HeldUsable' /\ StopsOnlyItsServer'
  BY <1>1, IInvParts, SameHeld, SameStops, Zenon DEF Holds
<1>8. NoLostStop'
  <2>1. NoLostStop
    BY IInvParts
  <2> QED BY <1>1, <1>3, <2>1 DEF NoLostStop
<1> QED BY <1>4, <1>5, <1>6, <1>7, <1>8, Zenon DEF IInv

\* A request is counted in its slot before it looks there.
LEMMA EnterPreserves ==
    ASSUME IInv, NEW r \in Requests, Enter(r)
    PROVE  IInv'
<1>1. UNCHANGED <<slot, memory, owner, shutdown, record, index, gen, tags, leaked, flag,
                  wakeFd, loop, wakeup, target, at, ptr, requests>>
  BY Zenon DEF Enter, requestSide, ownerVars
<1>2. /\ request[r] = "enter" /\ request'[r] = "load"
      /\ \A q \in Requests : q # r => request'[q] = request[q]
  BY IInvParts, RequestMoves, Zenon DEF Enter
<1>3. /\ readers \in [Slots \union {NoSlot} -> SUBSET Requests]
      /\ at[r] \in Slots \union {NoSlot}
      /\ request \in [Requests -> RequestState] /\ "load" \in RequestState
  BY IInvParts, Zenon DEF TypeOK, RequestState
<1>4. TypeOK'
  <2>1. request' \in [Requests -> RequestState]
    BY <1>3 DEF Enter, Moves
  <2>2. readers' \in [Slots \union {NoSlot} -> SUBSET Requests]
    BY <1>3 DEF Enter
  <2> QED BY <1>1, <2>1, <2>2, IInvParts, Zenon DEF TypeOK
<1>5. ReadersCounted'
  <2>1. /\ readers'[at[r]] = readers[at[r]] \union {r}
        /\ \A i \in Slots \union {NoSlot} : i # at[r] => readers'[i] = readers[i]
    BY <1>3 DEF Enter
  <2>2. "load" \in Counted /\ "enter" \notin Counted
    BY DEF Counted
  <2> QED BY <1>1, <1>2, <2>1, <2>2, IInvParts DEF ReadersCounted
<1>6. RecordsOwned' /\ SlotsOwned' /\ PointerOwned' /\ TagsDistinct' /\ DescriptorsOpen'
  BY <1>1, IInvParts, SameRegistry, Zenon
<1>7. TargetsPlaced'
  <2>1. \A q \in Requests : request'[q] # "idle" => request[q] # "idle"
    BY <1>2
  <2> QED BY <1>1, <2>1, IInvParts, SameTargets, Zenon
<1>8. HeldUsable' /\ StopsOnlyItsServer'
  <2>1. \A q \in Requests : Holds(q)' => Holds(q)
    BY <1>2 DEF Holds
  <2>2. \A q \in Requests : request'[q] \in {"store", "wake"} => request[q] \in {"store", "wake"}
    BY <1>2
  <2> QED BY <1>1, <2>1, <2>2, IInvParts, SameHeld, SameStops, Zenon
<1>9. NoLostStop'
  <2>1. \A q \in Requests : request[q] = "wake" => request'[q] = "wake"
    BY <1>2
  <2> QED BY <1>1, <2>1, IInvParts, SameStopped, Zenon
<1> QED BY <1>4, <1>5, <1>6, <1>7, <1>8, <1>9, Zenon DEF IInv

\* A request goes on to fire only when the tag it compares is its target's.
LEMMA CheckPreserves ==
    ASSUME IInv, NEW r \in Requests, Check(r)
    PROVE  IInv'
<1>1. UNCHANGED <<slot, readers, memory, owner, shutdown, record, index, gen, tags, leaked,
                  flag, wakeFd, loop, wakeup, target, at, ptr, requests>>
  BY Zenon DEF Check, requestSide, ownerVars
<1>2. /\ request[r] = "check"
      /\ request'[r] = IF TagAt(ptr[r]) = gen[target[r]] THEN "store" ELSE "leave"
      /\ \A q \in Requests : q # r => request'[q] = request[q]
  BY IInvParts, RequestMoves, Zenon DEF Check
<1>3. TypeOK'
  <2>1. request \in [Requests -> RequestState]
    BY IInvParts, Zenon DEF TypeOK
  <2>2. request' \in [Requests -> RequestState]
    BY <2>1 DEF Check, Moves, RequestState
  <2> QED BY <1>1, <2>2, IInvParts, Zenon DEF TypeOK
<1>4. ReadersCounted'
  <2>1. \A q \in Requests : request'[q] \in Counted <=> request[q] \in Counted
    BY <1>2 DEF Counted
  <2> QED BY <1>1, <2>1, IInvParts, SameReaders, Zenon
<1>5. RecordsOwned' /\ SlotsOwned' /\ PointerOwned' /\ TagsDistinct' /\ DescriptorsOpen'
  BY <1>1, IInvParts, SameRegistry, Zenon
<1>6. TargetsPlaced' /\ HeldUsable'
  <2>1. \A q \in Requests : request'[q] # "idle" => request[q] # "idle"
    BY <1>2
  <2>2. \A q \in Requests : Holds(q)' => Holds(q)
    BY <1>2 DEF Holds
  <2> QED BY <1>1, <2>1, <2>2, IInvParts, SameTargets, SameHeld, Zenon
<1>7. StopsOnlyItsServer'
  <2>1. /\ memory[ptr[r]] \in Servers /\ owner[memory[ptr[r]]] \in Usable
    BY <1>2, IInvParts DEF HeldUsable, Holds
  <2>2. TagAt(ptr[r]) = gen[memory[ptr[r]]] /\ gen[memory[ptr[r]]] # 0
    <3>1. Nil \notin Servers /\ "new" \notin Usable
      BY RegistryAssumption DEF Usable, Live
    <3>2. gen[memory[ptr[r]]] # 0
      BY <2>1, <3>1, IInvParts, Zenon DEF TagsDistinct
    <3> QED BY <2>1, <3>1, <3>2, Zenon DEF TagAt
  <2>3. request'[r] \in {"store", "wake"} /\ target[r] # All => memory[ptr[r]] = target[r]
    <3>1. target[r] \in Servers \union {All}
      BY IInvParts, Zenon DEF TypeOK
    <3>2. TagsDistinct
      BY IInvParts
    <3> QED BY <1>2, <2>1, <2>2, <3>1, <3>2 DEF TagsDistinct
  <2>4. StopsOnlyItsServer
    BY IInvParts
  <2> QED BY <1>1, <1>2, <2>3, <2>4 DEF StopsOnlyItsServer
<1>8. NoLostStop'
  <2>1. \A q \in Requests : request[q] = "wake" => request'[q] = "wake"
    BY <1>2
  <2> QED BY <1>1, <2>1, IInvParts, SameStopped, Zenon
<1> QED BY <1>3, <1>4, <1>5, <1>6, <1>7, <1>8, Zenon DEF IInv

\* The request that has stored a flag is on its way to the wakeup.
LEMMA FireStorePreserves ==
    ASSUME IInv, NEW r \in Requests, FireStore(r)
    PROVE  IInv'
<1>1. UNCHANGED <<slot, readers, memory, owner, shutdown, record, index, gen, tags, leaked,
                  wakeFd, loop, wakeup, target, at, ptr, requests>>
  BY Zenon DEF FireStore, requestSide, ownerVars
<1>2. /\ request[r] = "store" /\ request'[r] = "wake"
      /\ \A q \in Requests : q # r => request'[q] = request[q]
  BY IInvParts, RequestMoves, Zenon DEF FireStore
<1>3. /\ flag \in [Servers -> BOOLEAN] /\ flag' = [flag EXCEPT ![memory[ptr[r]]] = TRUE]
      /\ request \in [Requests -> RequestState]
  BY IInvParts, Zenon DEF TypeOK, FireStore
<1>4. TypeOK'
  <2>1. request' \in [Requests -> RequestState]
    BY <1>3 DEF FireStore, Moves, RequestState
  <2>2. flag' \in [Servers -> BOOLEAN]
    BY <1>3, Zenon
  <2> QED BY <1>1, <2>1, <2>2, IInvParts, Zenon DEF TypeOK
<1>5. ReadersCounted'
  <2>1. \A q \in Requests : request'[q] \in Counted <=> request[q] \in Counted
    BY <1>2 DEF Counted
  <2> QED BY <1>1, <2>1, IInvParts, SameReaders, Zenon
<1>6. RecordsOwned' /\ SlotsOwned' /\ PointerOwned' /\ TagsDistinct' /\ DescriptorsOpen'
  BY <1>1, IInvParts, SameRegistry, Zenon
<1>7. TargetsPlaced' /\ HeldUsable'
  <2>1. \A q \in Requests : request'[q] # "idle" => request[q] # "idle"
    BY <1>2
  <2>2. \A q \in Requests : Holds(q)' => Holds(q)
    BY <1>2 DEF Holds
  <2> QED BY <1>1, <2>1, <2>2, IInvParts, SameTargets, SameHeld, Zenon
<1>8. StopsOnlyItsServer'
  <2>1. \A q \in Requests : request'[q] \in {"store", "wake"} => request[q] \in {"store", "wake"}
    BY <1>2
  <2> QED BY <1>1, <2>1, IInvParts, SameStops, Zenon
<1>9. NoLostStop'
  <2>1. \A q \in Requests : request[q] = "wake" => request'[q] = "wake"
    BY <1>2
  <2>2. \A s \in Servers : s # memory[ptr[r]] => flag'[s] = flag[s]
    BY <1>3
  <2>3. NoLostStop
    BY IInvParts
  <2> QED BY <1>1, <1>2, <2>1, <2>2, <2>3 DEF NoLostStop
<1> QED BY <1>4, <1>5, <1>6, <1>7, <1>8, <1>9, Zenon DEF IInv

\* The wakeup is written, unless the loop has no descriptor and so no selector yet.
LEMMA FireWakePreserves ==
    ASSUME IInv, NEW r \in Requests, FireWake(r)
    PROVE  IInv'
<1>1. UNCHANGED <<slot, readers, memory, owner, shutdown, record, index, gen, tags, leaked,
                  flag, wakeFd, loop, target, at, ptr, requests>>
  BY Zenon DEF FireWake, requestSide, ownerVars
<1>2. /\ request[r] = "wake" /\ request'[r] = "leave"
      /\ \A q \in Requests : q # r => request'[q] = request[q]
  BY IInvParts, RequestMoves, Zenon DEF FireWake
<1>3. /\ wakeup \in [Servers -> BOOLEAN] /\ request \in [Requests -> RequestState]
      /\ wakeup' = [wakeup EXCEPT ![memory[ptr[r]]] =
                        wakeup[memory[ptr[r]]] \/ wakeFd[memory[ptr[r]]] = "open"]
  BY IInvParts, Zenon DEF TypeOK, FireWake
<1>4. TypeOK'
  <2>1. request' \in [Requests -> RequestState]
    BY <1>3 DEF FireWake, Moves, RequestState
  <2>2. wakeup' \in [Servers -> BOOLEAN]
    BY <1>3, Zenon
  <2> QED BY <1>1, <2>1, <2>2, IInvParts, Zenon DEF TypeOK
<1>5. ReadersCounted'
  <2>1. \A q \in Requests : request'[q] \in Counted <=> request[q] \in Counted
    BY <1>2 DEF Counted
  <2> QED BY <1>1, <2>1, IInvParts, SameReaders, Zenon
<1>6. RecordsOwned' /\ SlotsOwned' /\ PointerOwned' /\ TagsDistinct' /\ DescriptorsOpen'
  BY <1>1, IInvParts, SameRegistry, Zenon
<1>7. TargetsPlaced' /\ HeldUsable'
  <2>1. \A q \in Requests : request'[q] # "idle" => request[q] # "idle"
    BY <1>2
  <2>2. \A q \in Requests : Holds(q)' => Holds(q)
    BY <1>2 DEF Holds
  <2> QED BY <1>1, <2>1, <2>2, IInvParts, SameTargets, SameHeld, Zenon
<1>8. StopsOnlyItsServer'
  <2>1. \A q \in Requests : request'[q] \in {"store", "wake"} => request[q] \in {"store", "wake"}
    BY <1>2
  <2> QED BY <1>1, <2>1, IInvParts, SameStops, Zenon
<1>9. NoLostStop'
  <2>1. /\ memory[ptr[r]] \in Servers /\ owner[memory[ptr[r]]] \in Usable
    BY <1>2, IInvParts DEF HeldUsable, Holds
  <2>2. loop[memory[ptr[r]]] = "asleep" => wakeFd[memory[ptr[r]]] = "open"
    <3>1. "gone" \notin Usable
      BY DEF Usable, Live
    <3>2. wakeFd[memory[ptr[r]]] \in {"unset", "open", "closed"}
      BY <2>1, IInvParts, Zenon DEF TypeOK
    <3>3. DescriptorsOpen
      BY IInvParts
    <3> QED BY <2>1, <3>1, <3>2, <3>3 DEF DescriptorsOpen
  <2>3. /\ loop[memory[ptr[r]]] = "asleep" => wakeup'[memory[ptr[r]]]
        /\ \A s \in Servers : s # memory[ptr[r]] => wakeup'[s] = wakeup[s]
    BY <1>3, <2>1, <2>2, Zenon
  <2>4. NoLostStop
    BY IInvParts
  <2> QED BY <1>1, <1>2, <2>3, <2>4 DEF NoLostStop
<1> QED BY <1>4, <1>5, <1>6, <1>7, <1>8, <1>9, Zenon DEF IInv

\* A request leaves its slot, and the fan-out goes on to the next one.
LEMMA LeavePreserves ==
    ASSUME IInv, NEW r \in Requests, Leave(r)
    PROVE  IInv'
<1> DEFINE on == target[r] = All /\ at[r] < NumSlots
<1>1. UNCHANGED <<slot, memory, owner, shutdown, record, index, gen, tags, leaked, flag,
                  wakeFd, loop, wakeup, target, ptr, requests>>
  BY Zenon DEF Leave, requestSide, ownerVars
<1>2. /\ request[r] = "leave" /\ request'[r] = IF on THEN "enter" ELSE "idle"
      /\ \A q \in Requests : q # r => request'[q] = request[q]
  BY IInvParts, RequestMoves, Zenon DEF Leave
<1>3. /\ readers \in [Slots \union {NoSlot} -> SUBSET Requests]
      /\ readers' = [readers EXCEPT ![at[r]] = @ \ {r}]
      /\ at \in [Requests -> Slots \union {NoSlot}] /\ at[r] \in Slots \union {NoSlot}
      /\ at' = IF on THEN [at EXCEPT ![r] = @ + 1] ELSE at
      /\ request \in [Requests -> RequestState]
  BY IInvParts, Zenon DEF TypeOK, Leave
<1>4. on => at[r] + 1 \in Slots
  BY <1>3, RegistryAssumption DEF Slots, NoSlot
<1> HIDE DEF on
<1>5. /\ \A q \in Requests : q # r => at'[q] = at[q]
      /\ at' \in [Requests -> Slots \union {NoSlot}]
      /\ on => at'[r] \in Slots
  BY <1>3, <1>4
<1>6. TypeOK'
  <2>1. request' \in [Requests -> RequestState]
    BY <1>3 DEF Leave, Moves, RequestState
  <2>2. readers' \in [Slots \union {NoSlot} -> SUBSET Requests]
    BY <1>3
  <2> QED BY <1>1, <1>5, <2>1, <2>2, IInvParts, Zenon DEF TypeOK
<1>7. ReadersCounted'
  <2>1. /\ readers'[at[r]] = readers[at[r]] \ {r}
        /\ \A i \in Slots \union {NoSlot} : i # at[r] => readers'[i] = readers[i]
    BY <1>3
  <2>2. request'[r] \notin Counted /\ request[r] \in Counted
    BY <1>2 DEF Counted
  <2>3. ReadersCounted
    BY IInvParts
  <2> QED BY <1>2, <1>3, <1>5, <2>1, <2>2, <2>3 DEF ReadersCounted
<1>8. RecordsOwned' /\ SlotsOwned' /\ PointerOwned' /\ TagsDistinct' /\ DescriptorsOpen'
  BY <1>1, IInvParts, SameRegistry, Zenon
<1>9. TargetsPlaced'
  <2>1. request'[r] # "idle" => target[r] = All /\ at'[r] \in Slots
    BY <1>2, <1>5 DEF on
  <2>2. TargetsPlaced
    BY IInvParts
  <2> QED BY <1>1, <1>2, <1>5, <2>1, <2>2 DEF TargetsPlaced
<1>10. HeldUsable' /\ StopsOnlyItsServer'
  <2>1. \A q \in Requests : Holds(q)' => Holds(q) /\ at'[q] = at[q]
    BY <1>2, <1>5 DEF Holds
  <2>2. \A q \in Requests : request'[q] \in {"store", "wake"} => request[q] \in {"store", "wake"}
    BY <1>2
  <2> QED BY <1>1, <2>1, <2>2, IInvParts, SameHeld, SameStops, Zenon
<1>11. NoLostStop'
  <2>1. \A q \in Requests : request[q] = "wake" => request'[q] = "wake"
    BY <1>2
  <2> QED BY <1>1, <2>1, IInvParts, SameStopped, Zenon
<1> QED BY <1>6, <1>7, <1>8, <1>9, <1>10, <1>11, Zenon DEF IInv

\* A stop request: what it loads is usable while it is counted, and the tag it
\* compares tells the servers apart.
LEMMA RequestPreserves ==
    ASSUME IInv, NEW r \in Requests, RequestStep(r)
    PROVE  IInv'
BY EnterPreserves, LoadPreserves, CheckPreserves, FireStorePreserves, FireWakePreserves,
   LeavePreserves, Zenon DEF RequestStep

\* A request that starts looks in the slot of its server.
LEMMA AskPreserves ==
    ASSUME IInv, NEW r \in Requests, NEW t \in Servers \union {All}, Ask(r, t)
    PROVE  IInv'
<1>1. UNCHANGED <<slot, readers, memory, owner, shutdown, record, index, gen, tags, leaked,
                  flag, wakeFd, loop, wakeup, ptr>>
  BY Zenon DEF Ask, requestSide, ownerVars
<1>2. /\ request[r] = "idle" /\ request'[r] = "enter"
      /\ \A q \in Requests : q # r => request'[q] = request[q]
  BY IInvParts, RequestMoves, Zenon DEF Ask
<1>3. /\ target \in [Requests -> Servers \union {All}] /\ target' = [target EXCEPT ![r] = t]
      /\ at \in [Requests -> Slots \union {NoSlot}]
      /\ at' = [at EXCEPT ![r] = IF t = All THEN 1 ELSE index[t]]
      /\ request \in [Requests -> RequestState]
      /\ index \in [Servers -> Slots \union {NoSlot}]
      /\ requests \in Nat /\ requests' = requests + 1
      /\ t /= All => owner[t] \notin {"scan", "start", "published", "created",
                                      "unwind", "unwindWake", "unwindJoin"}
  BY IInvParts, Zenon DEF TypeOK, Ask
<1>4. 1 \in Slots
  BY RegistryAssumption DEF Slots
<1>5. /\ target'[r] = t /\ at'[r] = IF t = All THEN 1 ELSE index[t]
      /\ \A q \in Requests : q # r => target'[q] = target[q] /\ at'[q] = at[q]
  BY <1>3
<1>6. TypeOK'
  <2>1. request' \in [Requests -> RequestState] /\ requests' \in Nat
    BY <1>3 DEF Ask, Moves, RequestState
  <2>2. /\ target' \in [Requests -> Servers \union {All}]
        /\ at' \in [Requests -> Slots \union {NoSlot}]
    BY <1>3, <1>4
  <2> QED BY <1>1, <2>1, <2>2, IInvParts, Zenon DEF TypeOK
<1>7. ReadersCounted'
  <2>1. request'[r] \notin Counted /\ request[r] \notin Counted
    BY <1>2 DEF Counted
  <2>2. ReadersCounted
    BY IInvParts
  <2>3. ASSUME NEW q \in Requests, NEW i \in Slots \union {NoSlot}
        PROVE  q \in readers'[i] <=> request'[q] \in Counted /\ at'[q] = i
    <3>1. q \in readers[i] <=> request[q] \in Counted /\ at[q] = i
      BY <2>2, Zenon DEF ReadersCounted
    <3>2. CASE q = r
      BY <1>1, <2>1, <3>1, <3>2, Zenon
    <3>3. CASE q # r
      BY <1>1, <1>2, <1>5, <3>1, <3>3, Zenon
    <3> QED BY <3>2, <3>3, Zenon
  <2> QED BY <2>3, Zenon DEF ReadersCounted
<1>8. RecordsOwned' /\ SlotsOwned' /\ PointerOwned' /\ TagsDistinct' /\ DescriptorsOpen'
  BY <1>1, IInvParts, SameRegistry, Zenon
<1>9. TargetsPlaced'
  <2>1. TargetsPlaced
    BY IInvParts
  <2> QED BY <1>1, <1>2, <1>3, <1>4, <1>5, <2>1 DEF TargetsPlaced
<1>10. HeldUsable' /\ StopsOnlyItsServer'
  <2>1. \A q \in Requests : Holds(q)' => Holds(q) /\ at'[q] = at[q]
    BY <1>2, <1>5 DEF Holds
  <2>2. \A q \in Requests : request'[q] \in {"store", "wake"} =>
            request[q] \in {"store", "wake"} /\ target'[q] = target[q]
    BY <1>2, <1>5
  <2> QED BY <1>1, <2>1, <2>2, IInvParts, SameHeld, SameStops, Zenon
<1>11. NoLostStop'
  <2>1. \A q \in Requests : request[q] = "wake" => request'[q] = "wake"
    BY <1>2
  <2> QED BY <1>1, <2>1, IInvParts, SameStopped, Zenon
<1> QED BY <1>6, <1>7, <1>8, <1>9, <1>10, <1>11, Zenon DEF IInv

\* A step that changes nothing keeps it.
LEMMA IInvStutter == IInv /\ UNCHANGED vars => IInv'
<1> SUFFICES ASSUME IInv, UNCHANGED vars PROVE IInv'
  BY Zenon
<1>1. UNCHANGED <<slot, readers, memory, owner, shutdown, record, index, gen, tags, leaked, flag,
                  wakeFd, loop, wakeup, request, target, at, ptr, requests>>
  BY Zenon DEF vars, ownerVars, loopVars, requestVars
<1>2. TypeOK'
  BY <1>1, IInvParts, Zenon DEF TypeOK
<1>3. RecordsOwned' /\ SlotsOwned' /\ PointerOwned' /\ TagsDistinct' /\ DescriptorsOpen'
  BY <1>1, IInvParts, SameRegistry, Zenon
<1>4. ReadersCounted' /\ TargetsPlaced' /\ HeldUsable' /\ StopsOnlyItsServer' /\ NoLostStop'
  BY <1>1, IInvParts, SameReaders, SameTargets, SameHeld, SameStops, SameStopped, Zenon DEF Holds
<1> QED BY <1>2, <1>3, <1>4, Zenon DEF IInv

-----------------------------------------------------------------------------
\* The invariant holds in every reachable state.
THEOREM IInvAlways == SafetySpec => []IInv
<1>1. IInv /\ [Next]_vars => IInv'
  BY OwnerPreserves, LoopPreserves, RequestPreserves, AskPreserves, IInvStutter
     DEF Next
<1> QED BY IInvInit, <1>1, PTL DEF SafetySpec

\* The registry's variables keep their types: registerServer never leaves the
\* array of slots, however many servers compete for them.
THEOREM TypeCorrect == SafetySpec => []TypeOK
<1>1. IInv => TypeOK
  BY DEF IInv
<1> QED BY IInvAlways, <1>1, PTL

\* No stop request ever uses a record, flag or descriptor that a teardown has
\* freed (requestShutdown against unregisterServer and teardownResources).
THEOREM NoUseAfterFree == SafetySpec => []NeverTouchesFreed
<1>1. IInv => NeverTouchesFreed
  BY DEF IInv, HeldUsable, DescriptorsOpen, NeverTouchesFreed, Usable, Live,
         OwnerState
<1> QED BY IInvAlways, <1>1, PTL

\* requestShutdown(server) never stops another server, whatever slots and
\* addresses are reused in the meantime (the comparison with shutdownGen).
THEOREM OnlyItsServer == SafetySpec => []StopsOnlyItsServer
<1>1. IInv => StopsOnlyItsServer
  BY DEF IInv
<1> QED BY IInvAlways, <1>1, PTL

\* unregisterServer always finds its own record in its slot.
THEOREM OwnRecordFound == SafetySpec => []FindsItsRecord
<1>1. IInv => FindsItsRecord
  BY DEF IInv, SlotsOwned, FindsItsRecord, Published, Live, OwnerState
<1> QED BY IInvAlways, <1>1, PTL

\* A loop never sleeps past a stop whose wakeup nobody is about to write.
THEOREM StopNeverLost == SafetySpec => []NoLostStop
<1>1. IInv => NoLostStop
  BY DEF IInv
<1> QED BY IInvAlways, <1>1, PTL
=============================================================================
