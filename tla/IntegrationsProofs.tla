------------------------- MODULE IntegrationsProofs -------------------------
(***************************************************************************)
(* Theorems about Integrations, for any destinations, keys, queue size and *)
(* bounds: its types are right, the vault always opens (VaultOpens) and    *)
(* events arrive in order, except those whose POST was given up, and not   *)
(* where they are no longer wanted (InOrder).                              *)
(*                                                                         *)
(* The first argument is about the key: a Manager that runs beside a vault *)
(* holds its key, so only one without a vault makes a key.  The second is  *)
(* about the worker: deliveries are over before the next event is taken,   *)
(* so everything a destination has received, or may receive late, is older *)
(* than what is on its way, and that is older than what is in the queue.   *)
(***************************************************************************)
EXTENDS Integrations, SequenceTheorems, TLAPS

\* A Manager that runs holds the key of the vault, except between the first write of a vault and
\* the assignment after it; without a vault it holds none.
HoldsVaultKey ==
  phase # "down" =>
    \/ file = NoFile /\ key = NoKey
    \/ file # NoFile /\ key = file.key
    \/ file # NoFile /\ key = NoKey /\ call.pc = "assign" /\ call.key = file.key

\* What a call knows between its steps.
CallKnows ==
  /\ phase = "down" => call = Idle
  /\ call.pc = "write" =>
       /\ keyFile \in {NoKey, call.key}
       /\ key \in {NoKey, call.key}
       /\ file # NoFile => file.key = call.key
  /\ call.pc = "assign" =>
       /\ file # NoFile
       /\ file.key = call.key
       /\ file.destinations = call.next
  /\ phase # "down" /\ call.pc \in {"key", "write"} => destinations = Stored

VaultInv == VaultOpens /\ HoldsVaultKey /\ CallKnows

\* Received, under way, taken and queued: each older than the next.
Older(e, s) == \A i \in 1..Len(s) : e < s[i]
Newer(s, e) == \A i \in 1..Len(s) : s[i] < e

\* A POST that was given up and may still be handled.
LateInv ==
  /\ late \subseteq unanswered
  /\ \A o \in late : /\ o[2] <= published
                     /\ Older(o[2], queue)
                     /\ worker # 0 => o[2] < worker
                     /\ \A p \in offers : p[1] = o[1] => o[2] < p[2]
                     /\ \A i \in 1..Len(received[o[1]]) : received[o[1]][i] # o[2]

OrderInv ==
  /\ InOrder
  /\ LateInv
  /\ \A d \in Ids : since[d] <= published
  /\ Increasing(queue)
  /\ \A i \in 1..Len(queue) : queue[i] <= published
  /\ \A d \in Ids : \A i \in 1..Len(received[d]) : received[d][i] <= published
  /\ \A d \in Ids : \A i \in 1..Len(received[d]) : Older(received[d][i], queue)
  /\ worker # 0 => /\ offers = {}
                   /\ worker <= published
                   /\ Older(worker, queue)
                   /\ \A d \in Ids : Newer(received[d], worker)
  /\ \A o \in offers : /\ o[2] <= published
                       /\ Older(o[2], queue)
                       /\ Newer(received[o[1]], o[2])
  /\ \A o, p \in offers : o[2] = p[2]
  /\ phase = "down" => offers = {} /\ worker = 0

Budgets == [calls : Nat, stops : Nat, edits : Nat, failures : Nat]
Calls == {Idle} \cup [pc : {"key"}, next : Settings]
                \cup [pc : {"write", "assign"}, next : Settings, key : Keys]

-----------------------------------------------------------------------------
(* Types *)

LEMMA SpendType ==
  ASSUME TypeOK, NEW b \in {"calls", "stops", "edits", "failures"}, Spend(b)
  PROVE  budget' \in Budgets
<1>1. budget \in [calls : Nat, stops : Nat, edits : Nat, failures : Nat]
  BY DEF TypeOK
<1> QED BY <1>1 DEF Spend, Budgets

LEMMA RequestType == TypeOK /\ Request => TypeOK'
<1> SUFFICES ASSUME TypeOK, Request PROVE TypeOK'
  OBVIOUS
<1>1. PICK d \in Ids : Create(d) \/ Update(d) \/ Delete(d)
  BY DEF Request
<1>2. used' \subseteq Ids
  BY <1>1 DEF TypeOK, Create, Update, Delete
<1>3. \E next \in Settings : Begin(next)
  <2>1. \A state \in {"on", "off", "none"} : [destinations EXCEPT ![d] = state] \in Settings
    BY DEF TypeOK, Settings
  <2> QED BY <1>1, <2>1 DEF Create, Update, Delete
<1>4. call' \in Calls
  BY <1>3 DEF Begin, Calls
<1>5. budget' \in Budgets
  BY SpendType DEF Request
<1> QED BY <1>2, <1>4, <1>5 DEF TypeOK, Request, Calls, Budgets, disk, delivery, network

LEMMA SaveType == TypeOK /\ Save => TypeOK'
<1> SUFFICES ASSUME TypeOK, Save PROVE TypeOK'
  OBVIOUS
<1>1. CASE persistKey
  <2>1. call \in [pc : {"key"}, next : Settings]
    BY <1>1 DEF persistKey, TypeOK, Idle
  <2>2. /\ keyFile' \in Keys \cup {NoKey, Broken}
        /\ made' \subseteq Keys
        /\ call' \in Calls
        /\ budget' \in Budgets
    <3>1. CASE MakeKey
      BY <2>1, <3>1, SpendType DEF MakeKey, TypeOK, Return, Failure, Budgets, Calls
    <3>2. CASE ReadKey
      BY <2>1, <3>2 DEF ReadKey, TypeOK, Budgets, Calls
    <3>3. CASE RefuseKey
      BY <2>1, <3>3, SpendType DEF RefuseKey, TypeOK, Return, Failure, Budgets, Calls
    <3> QED BY <1>1, <3>1, <3>2, <3>3 DEF persistKey
  <2> QED BY <1>1, <2>2 DEF persistKey, TypeOK, history, delivery, network, Budgets, Calls
<1>2. CASE persistFile
  <2>1. call \in [pc : {"write"}, next : Settings, key : Keys]
    BY <1>2 DEF persistFile, TypeOK, Idle
  <2>2. /\ call' \in Calls
        /\ file' \in {NoFile} \cup [key : Keys, destinations : Settings]
        /\ budget' \in Budgets
    <3>1. CASE /\ file' = [key |-> call.key, destinations |-> call.next]
               /\ call' = [call EXCEPT !.pc = "assign"]
               /\ UNCHANGED budget
      <4>1. call.key \in Keys /\ call.next \in Settings
        BY <2>1
      <4>2. call' \in [pc : {"write", "assign"}, next : Settings, key : Keys]
        BY <2>1, <3>1
      <4>3. file' \in [key : Keys, destinations : Settings]
        BY <3>1, <4>1
      <4> QED BY <3>1, <4>2, <4>3 DEF TypeOK, Budgets, Calls
    <3>2. CASE Return /\ Failure /\ UNCHANGED file
      <4>1. budget' \in Budgets
        BY <3>2, SpendType DEF Failure
      <4> QED BY <3>2, <4>1 DEF TypeOK, Return, Calls
    <3> QED BY <1>2, <3>1, <3>2 DEF persistFile
  <2> QED BY <1>2, <2>2 DEF persistFile, TypeOK, history, delivery, network, Budgets, Calls
<1>3. CASE Assign
  <2>1. call \in [pc : {"assign"}, next : Settings, key : Keys]
    BY <1>3 DEF Assign, TypeOK, Idle
  <2>2. since' \in [Ids -> 0..MaxEvents]
    BY <1>3 DEF Assign, TypeOK
  <2> QED BY <1>3, <2>1, <2>2 DEF Assign, Return, TypeOK, disk, delivery, network
<1> QED BY <1>1, <1>2, <1>3 DEF Save

LEMMA PublishType == TypeOK /\ Publish => TypeOK'
<1> SUFFICES ASSUME TypeOK, Publish PROVE TypeOK'
  OBVIOUS
<1>1. published' \in 1..MaxEvents
  BY BoundsAssumption DEF TypeOK, Publish
<1>2. queue' \in Seq(1..MaxEvents)
  <2>1. PICK e \in 1..MaxEvents : e = published'
    BY <1>1
  <2>2. Append(queue, e) \in Seq(1..MaxEvents)
    BY AppendProperties DEF TypeOK
  <2>3. queue' = Append(queue, e) \/ queue' = queue
    BY <2>1 DEF Publish
  <2> QED BY <2>2, <2>3 DEF TypeOK
<1> QED BY <1>1, <1>2, SMTT(30) DEF TypeOK, Publish, manager, disk, network

LEMMA ReceivedType ==
  ASSUME TypeOK, NEW o \in Ids \X (1..MaxEvents), Received(o)
  PROVE  received' \in [Ids -> Seq(1..MaxEvents)]
<1>1. o[1] \in Ids /\ Append(received[o[1]], o[2]) \in Seq(1..MaxEvents)
  BY AppendProperties DEF TypeOK
<1> QED BY <1>1 DEF Received, TypeOK

LEMMA LateType == ASSUME TypeOK, NEW o \in late, HandleLate(o) PROVE TypeOK'
<1>1. received' \in [Ids -> Seq(1..MaxEvents)]
  BY ReceivedType DEF HandleLate, TypeOK
<1> QED BY <1>1 DEF HandleLate, TypeOK, manager, disk, history

LEMMA WorkType == TypeOK /\ Work => TypeOK'
<1> SUFFICES ASSUME TypeOK, Work PROVE TypeOK'
  OBVIOUS
<1>1. CASE TakeEvent
  <2>1. worker' \in 1..MaxEvents /\ queue' \in Seq(1..MaxEvents)
    BY <1>1, HeadTailProperties, EmptySeq DEF TakeEvent, TypeOK
  <2> QED BY <1>1, <2>1, SMTT(30) DEF TakeEvent, TypeOK, manager, disk, history, network
<1>2. CASE Offer
  <2>1. offers' \subseteq Ids \X (1..MaxEvents) /\ worker' \in 0..MaxEvents
    BY <1>2, BoundsAssumption DEF Offer, TypeOK
  <2> QED BY <1>2, <2>1 DEF Offer, TypeOK, manager, disk, history, network
<1>3. ASSUME NEW o \in offers, deliver(o) PROVE TypeOK'
  <2>1. o[1] \in Ids /\ o[2] \in 1..MaxEvents
    BY DEF TypeOK
  <2>2. received' \in [Ids -> Seq(1..MaxEvents)]
    BY <1>3, <2>1, ReceivedType DEF deliver, TypeOK
  <2> QED BY <1>3, <2>2 DEF deliver, TypeOK, manager, disk, history
<1> QED BY <1>1, <1>2, <1>3 DEF Work

LEMMA ProcessType == TypeOK /\ Process => TypeOK'
<1> SUFFICES ASSUME TypeOK, Process PROVE TypeOK'
  OBVIOUS
<1>1. CASE Close
  BY <1>1 DEF Close, TypeOK, manager, disk, history, delivery, network
<1>2. CASE Stop
  <2>1. budget' \in Budgets
    BY <1>2, SpendType DEF Stop
  <2>2. queue' \in Seq(1..MaxEvents) /\ worker' \in 0..MaxEvents /\ offers' \subseteq Ids \X (1..MaxEvents)
    BY <1>2, BoundsAssumption, EmptySeq DEF Stop
  <2>3. destinations' \in Settings
    BY <1>2 DEF Stop, Nothing, Settings
  <2> QED BY <1>2, <2>1, <2>2, <2>3 DEF Stop, TypeOK, disk, history, Budgets
<1>3. CASE New
  <2>1. destinations' \in Settings
    BY <1>3 DEF New, Stored, Nothing, Settings, TypeOK
  <2>2. key' \in Keys \cup {NoKey}
    BY <1>3 DEF New, LoadedKey, TypeOK
  <2> QED BY <1>3, <2>1, <2>2 DEF New, TypeOK, disk, history, delivery, network
<1>4. CASE RemoveKeyFile
  BY <1>4, SpendType DEF RemoveKeyFile, TypeOK, manager, history, delivery, network, Budgets
<1> QED BY <1>1, <1>2, <1>3, <1>4 DEF Process

LEMMA InitType == Init => TypeOK
BY BoundsAssumption, EmptySeq DEF Init, TypeOK, Nothing, Settings

LEMMA TypeStep == TypeOK /\ [Next]_vars => TypeOK'
<1> SUFFICES ASSUME TypeOK, [Next]_vars PROVE TypeOK'
  OBVIOUS
<1>1. CASE UNCHANGED vars
  BY <1>1 DEF vars, network, TypeOK
<1> QED BY <1>1, RequestType, SaveType, PublishType, WorkType, LateType, ProcessType DEF Next

\* Every reachable state of a Manager and its files is well typed.
THEOREM IntegrationsTypeCorrect == Spec => []TypeOK
BY InitType, TypeStep, PTL DEF Spec

-----------------------------------------------------------------------------
(* The vault *)

LEMMA VaultSave == TypeOK /\ VaultInv /\ Save => VaultInv'
<1> SUFFICES ASSUME TypeOK, VaultInv, Save PROVE VaultInv'
  OBVIOUS
<1> USE DEF VaultInv, VaultOpens, HoldsVaultKey, CallKnows
<1>1. CASE persistKey
  <2>1. call \in [pc : {"key"}, next : Settings] /\ phase # "down"
    BY <1>1 DEF persistKey, TypeOK, Idle
  <2>2. file # NoFile => key = file.key /\ key \in Keys
    BY <2>1 DEF TypeOK
  <2>3. CASE MakeKey
    <3>1. file = NoFile /\ key = NoKey
      BY <2>2, <2>3, KeysAssumption DEF MakeKey
    <3> QED BY <1>1, <2>1, <2>3, <3>1 DEF MakeKey, persistKey, Return, Idle, Stored
  <2>4. CASE ReadKey
    BY <1>1, <2>1, <2>2, <2>4, KeysAssumption DEF ReadKey, persistKey, Stored
  <2>5. CASE RefuseKey
    BY <1>1, <2>1, <2>2, <2>5 DEF RefuseKey, persistKey, Return, Idle, Stored
  <2> QED BY <1>1, <2>3, <2>4, <2>5 DEF persistKey
<1>2. CASE persistFile
  <2>1. call \in [pc : {"write"}, next : Settings, key : Keys] /\ phase # "down"
    BY <1>2 DEF persistFile, TypeOK, Idle
  <2>2. CASE /\ file' = [key |-> call.key, destinations |-> call.next]
             /\ call' = [call EXCEPT !.pc = "assign"]
    <3>1. file' \in [key : Keys, destinations : Settings]
      BY <2>1, <2>2
    <3>2. file' # NoFile
      BY <3>1, NoFileAssumption DEF Settings
    <3>3. call' = [pc |-> "assign", next |-> call.next, key |-> call.key]
      BY <2>1, <2>2
    <3>4. file'.key = call.key /\ file'.destinations = call.next
      BY <2>2
    <3> QED BY <1>2, <2>1, <3>2, <3>3, <3>4, KeysAssumption DEF persistFile, TypeOK, Idle
  <2>3. CASE Return /\ UNCHANGED file
    BY <1>2, <2>1, <2>3, KeysAssumption DEF persistFile, Return, Idle, Stored, TypeOK
  <2> QED BY <1>2, <2>2, <2>3 DEF persistFile
<1>3. CASE Assign
  <2>1. call \in [pc : {"assign"}, next : Settings, key : Keys]
    BY <1>3 DEF Assign, TypeOK, Idle
  <2> QED BY <1>3, <2>1 DEF Assign, Return, Idle, Stored, disk
<1> QED BY <1>1, <1>2, <1>3 DEF Save

LEMMA VaultRequest == TypeOK /\ VaultInv /\ Request => VaultInv'
<1> SUFFICES ASSUME TypeOK, VaultInv, Request PROVE VaultInv'
  OBVIOUS
<1>1. call = Idle /\ phase # "down"
  BY DEF Request
<1>2. call'.pc = "key"
  BY DEF Request, Create, Update, Delete, Begin
<1> QED BY <1>1, <1>2 DEF Request, VaultInv, VaultOpens, HoldsVaultKey, CallKnows, Idle, disk, Stored

LEMMA VaultProcess == TypeOK /\ VaultInv /\ Process => VaultInv'
<1> SUFFICES ASSUME TypeOK, VaultInv, Process PROVE VaultInv'
  OBVIOUS
<1> USE DEF VaultInv, VaultOpens, HoldsVaultKey, CallKnows, Stored
<1>1. CASE Close
  BY <1>1 DEF Close, manager, disk
<1>2. CASE Stop
  BY <1>2 DEF Stop, disk, Idle
<1>3. CASE New
  BY <1>3 DEF New, LoadedKey, disk, Idle
<1>4. CASE RemoveKeyFile
  BY <1>4, KeysAssumption DEF RemoveKeyFile, manager
<1> QED BY <1>1, <1>2, <1>3, <1>4 DEF Process

LEMMA VaultStep == TypeOK /\ VaultInv /\ [Next]_vars => VaultInv'
<1> SUFFICES ASSUME TypeOK, VaultInv, [Next]_vars PROVE VaultInv'
  OBVIOUS
<1>1. CASE UNCHANGED <<phase, destinations, key, file, keyFile, call>>
  BY <1>1 DEF VaultInv, VaultOpens, HoldsVaultKey, CallKnows, Stored
<1>2. \/ Publish \/ Work \/ UNCHANGED vars
      \/ \E o \in late : HandleLate(o)
      => UNCHANGED <<phase, destinations, key, file, keyFile, call>>
  BY DEF Publish, Work, TakeEvent, Offer, deliver, HandleLate, manager, disk, vars
<1> QED BY <1>1, <1>2, VaultSave, VaultRequest, VaultProcess DEF Next

LEMMA VaultInit == Init => VaultInv
BY DEF Init, VaultInv, VaultOpens, HoldsVaultKey, CallKnows, Stored, Idle

\* No new key and no half-written key ever takes the place of the one the vault is sealed with, and
\* what a Manager has answered is what the next one loads (persist, readKey and load of vault.go).
THEOREM VaultAlwaysOpens == Spec => []VaultOpens
<1>1. TypeOK /\ VaultInv /\ [Next]_vars => TypeOK' /\ VaultInv'
  BY TypeStep, VaultStep
<1>2. Init => TypeOK /\ VaultInv
  BY InitType, VaultInit
<1>3. VaultInv => VaultOpens
  BY DEF VaultInv
<1> QED BY <1>1, <1>2, <1>3, PTL DEF Spec

-----------------------------------------------------------------------------
(* The order of events *)

LEMMA Events ==
  ASSUME TypeOK
  PROVE  /\ published \in Nat /\ worker \in Nat
         /\ Len(queue) \in Nat /\ \A i \in 1..Len(queue) : queue[i] \in Nat
         /\ \A d \in Ids : /\ since[d] \in Nat
                          /\ Len(received[d]) \in Nat
                          /\ \A i \in 1..Len(received[d]) : received[d][i] \in Nat
         /\ \A o \in offers \cup late : o[1] \in Ids /\ o[2] \in Nat /\ o = <<o[1], o[2]>>
<1>1. MaxEvents \in Nat
  BY BoundsAssumption
<1>2. \A s \in Seq(1..MaxEvents) : Len(s) \in Nat /\ \A i \in 1..Len(s) : s[i] \in Nat
  BY <1>1, ElementOfSeq
<1>3. \A d \in Ids : since[d] \in Nat /\ received[d] \in Seq(1..MaxEvents)
  BY <1>1 DEF TypeOK
<1>4. \A o \in offers \cup late : o[1] \in Ids /\ o[2] \in Nat /\ o = <<o[1], o[2]>>
  BY <1>1 DEF TypeOK
<1>5. published \in Nat /\ worker \in Nat
  BY <1>1 DEF TypeOK
<1>6. queue \in Seq(1..MaxEvents)
  BY DEF TypeOK
<1> QED BY <1>2, <1>3, <1>4, <1>5, <1>6

LEMMA OrderPublish == TypeOK /\ OrderInv /\ Publish => OrderInv'
<1> SUFFICES ASSUME TypeOK, OrderInv, Publish PROVE OrderInv'
  OBVIOUS
<1>1. published' = published + 1 /\ published \in Nat
  BY Events DEF Publish
<1>2. UNCHANGED <<phase, worker, offers, received, late, unanswered, since, destinations>>
  BY DEF Publish, manager, network
<1>3. CASE UNCHANGED queue
  BY <1>1, <1>2, <1>3, Events DEF OrderInv, InOrder, LateInv
<1>4. CASE queue' = Append(queue, published')
  <2>1. /\ Len(queue') = Len(queue) + 1 /\ Len(queue) \in Nat
        /\ \A i \in 1..Len(queue) : queue'[i] = queue[i]
        /\ queue'[Len(queue) + 1] = published + 1
    BY <1>1, <1>4, AppendProperties DEF TypeOK
  <2>2. \A i \in 1..Len(queue') : i \in 1..Len(queue) \/ i = Len(queue) + 1
    BY <2>1
  <2>3. \A e \in Nat : e <= published /\ Older(e, queue) => Older(e, queue')
    BY <1>1, <2>1, <2>2 DEF Older
  <2>4. InOrder' /\ \A d \in Ids : since'[d] <= published'
    BY <1>1, <1>2, Events DEF OrderInv, InOrder
  <2>5. \A i \in 1..Len(queue) : queue[i] \in Nat /\ queue[i] <= published
    BY Events DEF OrderInv
  <2>9. \A i \in 1..Len(queue') : queue'[i] <= published'
    BY <1>1, <2>1, <2>2, <2>5
  <2>10. Increasing(queue')
    <3> SUFFICES ASSUME NEW i \in 1..Len(queue'), NEW j \in 1..Len(queue'), i < j
                 PROVE  queue'[i] < queue'[j]
      BY DEF Increasing
    <3>1. i \in 1..Len(queue) /\ queue'[i] = queue[i]
      BY <2>1
    <3>2. CASE j = Len(queue) + 1
      BY <1>1, <2>1, <2>5, <3>1, <3>2
    <3>3. CASE j \in 1..Len(queue)
      BY <2>1, <3>1, <3>3 DEF OrderInv, Increasing
    <3> QED BY <2>2, <3>2, <3>3
  <2>6. \A d \in Ids : \A i \in 1..Len(received[d]) :
          /\ received[d][i] \in Nat
          /\ received[d][i] <= published'
          /\ Older(received[d][i], queue')
    BY <1>1, <2>3, Events DEF OrderInv
  <2>7. \A o \in offers : o[2] \in Nat /\ o[2] <= published' /\ Older(o[2], queue')
    BY <1>1, <2>3, Events DEF OrderInv
  <2>8. worker # 0 => worker <= published' /\ Older(worker, queue')
    BY <1>1, <2>3, Events DEF OrderInv
  <2>11. LateInv'
    BY <1>1, <1>2, <2>3, Events DEF OrderInv, LateInv
  <2> QED BY <1>2, <2>4, <2>6, <2>7, <2>8, <2>9, <2>10, <2>11 DEF OrderInv
<1> QED BY <1>3, <1>4 DEF Publish

LEMMA OrderTake == TypeOK /\ OrderInv /\ TakeEvent => OrderInv'
<1> SUFFICES ASSUME TypeOK, OrderInv, TakeEvent PROVE OrderInv'
  OBVIOUS
<1>1. /\ Len(queue) \in Nat \ {0}
      /\ worker' = queue[1]
      /\ Len(queue') = Len(queue) - 1
      /\ \A i \in 1..Len(queue') : queue'[i] = queue[i + 1]
  BY HeadTailProperties, EmptySeq DEF TakeEvent, TypeOK
<1>2. /\ UNCHANGED <<phase, offers, received, late, unanswered, since, destinations, published>>
      /\ offers = {} /\ phase # "down"
  BY DEF TakeEvent, Waited, manager, history, network
<1>3. \A e : Older(e, queue) => Older(e, queue')
  BY <1>1 DEF Older
<1>4. Older(worker', queue')
  BY <1>1 DEF OrderInv, Increasing, Older
<1>5. Increasing(queue') /\ \A i \in 1..Len(queue') : queue'[i] <= published
  BY <1>1, SMTT(30) DEF OrderInv, Increasing
<1>6. worker' <= published /\ \A d \in Ids : Newer(received[d], worker')
  BY <1>1 DEF OrderInv, Older, Newer
<1>7. \A d \in Ids : \A i \in 1..Len(received[d]) : Older(received[d][i], queue')
  BY <1>3 DEF OrderInv
<1>8. LateInv'
  BY <1>1, <1>2, <1>3 DEF OrderInv, LateInv, Older
<1> QED BY <1>2, <1>4, <1>5, <1>6, <1>7, <1>8 DEF OrderInv, InOrder

LEMMA OrderOffer == TypeOK /\ OrderInv /\ Offer => OrderInv'
<1> SUFFICES ASSUME TypeOK, OrderInv, Offer PROVE OrderInv'
  OBVIOUS
<1>1. /\ UNCHANGED <<phase, queue, received, late, unanswered, since, destinations, published>>
      /\ worker' = 0 /\ worker # 0 /\ phase # "down"
  BY DEF Offer, manager, history, network, OrderInv
<1>2. \A o \in offers' : o[2] = worker /\ o[1] \in Ids /\ destinations[o[1]] = "on"
  BY DEF Offer, OrderInv
<1>3. LateInv'
  BY <1>1, <1>2 DEF OrderInv, LateInv
<1>4. InOrder'
  BY <1>1, <1>2 DEF OrderInv, InOrder
<1>5. /\ worker <= published /\ Older(worker, queue)
      /\ \A d \in Ids : Newer(received[d], worker)
  BY <1>1 DEF OrderInv
<1>6. \A o \in offers' : o[2] <= published' /\ Older(o[2], queue') /\ Newer(received'[o[1]], o[2])
  BY <1>1, <1>2, <1>5
<1> QED BY <1>1, <1>2, <1>3, <1>4, <1>6 DEF OrderInv

LEMMA OrderDeliver ==
  ASSUME TypeOK, OrderInv, NEW o \in offers, deliver(o)
  PROVE  OrderInv'
<1>1. UNCHANGED <<phase, queue, worker, since, destinations, published>> /\ worker = 0
  BY DEF deliver, manager, history, OrderInv
<1>2. offers' \subseteq offers
  BY DEF deliver
<1>5. \A p \in offers' : p[1] # o[1]
  BY Events DEF deliver, OrderInv
<1>3. CASE UNCHANGED received /\ late' = late \cup {o} /\ unanswered' = unanswered \cup {o}
  <2>1. LateInv'
    BY <1>1, <1>2, <1>3, <1>5, Events DEF OrderInv, LateInv, Newer
  <2> QED BY <1>1, <1>2, <1>3, <2>1 DEF OrderInv, InOrder
<1>4. CASE Received(o) /\ UNCHANGED <<late, unanswered>>
  <2> DEFINE d == o[1]
             e == o[2]
  <2>1. /\ d \in Ids /\ e \in Nat
        /\ \A c \in Ids \ {d} : received'[c] = received[c]
        /\ received'[d] = Append(received[d], e)
    BY <1>4 DEF Received, TypeOK
  <2>2. /\ Len(received[d]) \in Nat
        /\ Len(received'[d]) = Len(received[d]) + 1
        /\ \A i \in 1..Len(received[d]) : received'[d][i] = received[d][i]
        /\ received'[d][Len(received[d]) + 1] = e
    BY <2>1, AppendProperties DEF TypeOK
  <2>3. \A i \in 1..Len(received'[d]) : i \in 1..Len(received[d]) \/ i = Len(received[d]) + 1
    BY <2>2
  <2>4. /\ e <= published
        /\ Older(e, queue)
        /\ Newer(received[d], e)
    BY DEF OrderInv
  <2>5. \A i, j \in 1..Len(received'[d]) :
          i < j => \/ received'[d][i] < received'[d][j]
                   \/ received'[d][i] # received'[d][j] /\ <<d, received'[d][j]>> \in unanswered
    <3> SUFFICES ASSUME NEW i \in 1..Len(received'[d]), NEW j \in 1..Len(received'[d]), i < j
                 PROVE  \/ received'[d][i] < received'[d][j]
                        \/ received'[d][i] # received'[d][j] /\ <<d, received'[d][j]>> \in unanswered
      OBVIOUS
    <3>1. i \in 1..Len(received[d]) /\ received'[d][i] = received[d][i]
      BY <2>2
    <3>2. CASE j = Len(received[d]) + 1
      BY <2>2, <2>4, <3>1, <3>2 DEF Newer
    <3>3. CASE j \in 1..Len(received[d])
      BY <2>1, <2>2, <3>1, <3>3 DEF OrderInv, InOrder
    <3> QED BY <2>3, <3>2, <3>3
  <2>6. \A i \in 1..Len(received'[d]) : received'[d][i] <= published /\ Older(received'[d][i], queue)
    <3>1. \A i \in 1..Len(received[d]) : received[d][i] <= published /\ Older(received[d][i], queue)
      BY <2>1 DEF OrderInv
    <3> QED BY <2>2, <2>3, <2>4, <3>1
  <2>8. \A p \in offers' : p[1] \in Ids /\ received'[p[1]] = received[p[1]]
    BY <1>2, <1>5, <2>1 DEF TypeOK
  <2>9. InOrder'
    <3>1. \A c \in Ids : \A i, j \in 1..Len(received'[c]) :
              i < j => \/ received'[c][i] < received'[c][j]
                       \/ received'[c][i] # received'[c][j] /\ <<c, received'[c][j]>> \in unanswered
      <4> SUFFICES ASSUME NEW c \in Ids, NEW i \in 1..Len(received'[c]), NEW j \in 1..Len(received'[c]), i < j
                   PROVE  \/ received'[c][i] < received'[c][j]
                          \/ received'[c][i] # received'[c][j] /\ <<c, received'[c][j]>> \in unanswered
        OBVIOUS
      <4>1. CASE c = d
        BY <2>1, <2>5, <4>1
      <4>2. CASE c # d
        <5>1. received'[c] = received[c]
          BY <2>1, <4>2
        <5> QED BY <5>1 DEF OrderInv, InOrder
      <4> QED BY <4>1, <4>2
    <3>2. \A p \in offers' : destinations'[p[1]] = "on" \/ p[2] <= since'[p[1]]
      BY <1>1, <1>2 DEF OrderInv, InOrder
    <3> QED BY <1>1, <1>4, <3>1, <3>2 DEF InOrder
  <2>10. LateInv'
    <3>1. \A p \in late : p[1] = d => p[2] < e
      BY DEF OrderInv, LateInv
    <3>2. \A p \in late : \A i \in 1..Len(received'[p[1]]) : received'[p[1]][i] # p[2]
      <4> SUFFICES ASSUME NEW p \in late, NEW i \in 1..Len(received'[p[1]])
                   PROVE  received'[p[1]][i] # p[2]
        OBVIOUS
      <4>1. p[1] \in Ids /\ p[2] \in Nat /\ \A k \in 1..Len(received[p[1]]) : received[p[1]][k] # p[2]
        <5>1. p[1] \in Ids /\ p[2] \in Nat
          BY Events
        <5>2. \A k \in 1..Len(received[p[1]]) : received[p[1]][k] # p[2]
          BY DEF OrderInv, LateInv
        <5> QED BY <5>1, <5>2
      <4>2. CASE p[1] = d
        <5>1. p[2] < e /\ received'[p[1]] = received'[d] /\ received[p[1]] = received[d]
          BY <3>1, <4>2
        <5>2. i \in 1..Len(received[d]) \/ i = Len(received[d]) + 1
          BY <2>3, <5>1
        <5> QED BY <2>1, <2>2, <4>1, <5>1, <5>2
      <4>3. CASE p[1] # d
        BY <2>1, <4>1, <4>3
      <4> QED BY <4>2, <4>3
    <3> QED BY <1>1, <1>2, <1>4, <3>2 DEF OrderInv, LateInv
  <2> QED BY <1>1, <1>2, <2>1, <2>6, <2>8, <2>9, <2>10 DEF OrderInv
<1> QED BY <1>3, <1>4 DEF deliver

LEMMA OrderLate ==
  ASSUME TypeOK, OrderInv, NEW o \in late, HandleLate(o)
  PROVE  OrderInv'
<1>1. /\ UNCHANGED <<phase, queue, worker, offers, unanswered, since, destinations, published>>
      /\ late' = late \ {o}
  BY DEF HandleLate, manager, history
<1> DEFINE d == o[1]
           e == o[2]
<1>2. /\ d \in Ids /\ e \in Nat /\ o = <<d, e>>
      /\ \A c \in Ids \ {d} : received'[c] = received[c]
      /\ received'[d] = Append(received[d], e)
  BY Events DEF HandleLate, Received, TypeOK
<1>3. /\ Len(received[d]) \in Nat
      /\ Len(received'[d]) = Len(received[d]) + 1
      /\ \A i \in 1..Len(received[d]) : received'[d][i] = received[d][i]
      /\ received'[d][Len(received[d]) + 1] = e
  BY <1>2, AppendProperties DEF TypeOK
<1>4. \A i \in 1..Len(received'[d]) : i \in 1..Len(received[d]) \/ i = Len(received[d]) + 1
  BY <1>3
<1>5. /\ o \in unanswered /\ e <= published /\ Older(e, queue)
      /\ worker # 0 => e < worker
      /\ \A p \in offers : p[1] = d => e < p[2]
      /\ \A i \in 1..Len(received[d]) : received[d][i] # e
  BY DEF OrderInv, LateInv
<1>6. \A i, j \in 1..Len(received'[d]) :
        i < j => \/ received'[d][i] < received'[d][j]
                 \/ received'[d][i] # received'[d][j] /\ <<d, received'[d][j]>> \in unanswered
  <2> SUFFICES ASSUME NEW i \in 1..Len(received'[d]), NEW j \in 1..Len(received'[d]), i < j
               PROVE  \/ received'[d][i] < received'[d][j]
                      \/ received'[d][i] # received'[d][j] /\ <<d, received'[d][j]>> \in unanswered
    OBVIOUS
  <2>1. i \in 1..Len(received[d]) /\ received'[d][i] = received[d][i]
    BY <1>3
  <2>2. CASE j = Len(received[d]) + 1
    BY <1>2, <1>3, <1>5, <2>1, <2>2
  <2>3. CASE j \in 1..Len(received[d])
    BY <1>2, <1>3, <2>1, <2>3 DEF OrderInv, InOrder
  <2> QED BY <1>4, <2>2, <2>3
<1>7. InOrder'
  <2>1. \A c \in Ids : \A i, j \in 1..Len(received'[c]) :
            i < j => \/ received'[c][i] < received'[c][j]
                     \/ received'[c][i] # received'[c][j] /\ <<c, received'[c][j]>> \in unanswered
    <3> SUFFICES ASSUME NEW c \in Ids, NEW i \in 1..Len(received'[c]), NEW j \in 1..Len(received'[c]), i < j
                 PROVE  \/ received'[c][i] < received'[c][j]
                        \/ received'[c][i] # received'[c][j] /\ <<c, received'[c][j]>> \in unanswered
      OBVIOUS
    <3>1. CASE c = d
      BY <1>2, <1>6, <3>1
    <3>2. CASE c # d
      <4>1. received'[c] = received[c]
        BY <1>2, <3>2
      <4> QED BY <4>1 DEF OrderInv, InOrder
    <3> QED BY <3>1, <3>2
  <2>2. \A p \in offers' : destinations'[p[1]] = "on" \/ p[2] <= since'[p[1]]
    BY <1>1, <1>2 DEF OrderInv, InOrder
  <2> QED BY <1>1, <2>1, <2>2 DEF InOrder
<1>8. LateInv'
  <2>1. \A p \in late' : p \in late /\ (p[1] = d => p[2] # e)
    BY <1>1, <1>2, Events
  <2>2. \A p \in late' : \A i \in 1..Len(received'[p[1]]) : received'[p[1]][i] # p[2]
    BY <1>2, <1>3, <1>4, <2>1, Events DEF OrderInv, LateInv
  <2> QED BY <1>1, <2>1, <2>2 DEF OrderInv, LateInv
<1>9. \A i \in 1..Len(received'[d]) :
        /\ received'[d][i] <= published
        /\ Older(received'[d][i], queue)
        /\ worker # 0 => received'[d][i] < worker
        /\ \A p \in offers : p[1] = d => received'[d][i] < p[2]
  <2>1. \A i \in 1..Len(received[d]) :
          /\ received[d][i] <= published
          /\ Older(received[d][i], queue)
          /\ worker # 0 => received[d][i] < worker
          /\ \A p \in offers : p[1] = d => received[d][i] < p[2]
    BY <1>2 DEF OrderInv, Newer
  <2> QED BY <1>3, <1>4, <1>5, <2>1
<1>10. /\ \A c \in Ids : \A i \in 1..Len(received'[c]) :
             received'[c][i] <= published /\ Older(received'[c][i], queue)
       /\ worker # 0 => \A c \in Ids : Newer(received'[c], worker)
       /\ \A p \in offers : Newer(received'[p[1]], p[2])
  BY <1>2, <1>9, Events DEF OrderInv, Newer
<1> QED BY <1>1, <1>7, <1>8, <1>10 DEF OrderInv

LEMMA OrderAssign == TypeOK /\ OrderInv /\ Assign => OrderInv'
<1> SUFFICES ASSUME TypeOK, OrderInv, Assign PROVE OrderInv'
  OBVIOUS
<1>1. UNCHANGED <<phase, queue, worker, offers, received, late, unanswered, published>>
  BY DEF Assign, delivery, network
<1>2. \A d \in Ids : /\ since'[d] = IF destinations[d] = "on" /\ destinations'[d] # "on"
                                   THEN published ELSE since[d]
  BY DEF Assign
<1>3. \A d \in Ids : since'[d] <= published
  BY <1>2, Events DEF OrderInv
<1>4. \A o \in offers : destinations'[o[1]] = "on" \/ o[2] <= since'[o[1]]
  BY <1>2, Events DEF OrderInv, InOrder
<1> QED BY <1>1, <1>3, <1>4 DEF OrderInv, InOrder, LateInv

LEMMA OrderProcess == TypeOK /\ OrderInv /\ Process => OrderInv'
<1> SUFFICES ASSUME TypeOK, OrderInv, Process PROVE OrderInv'
  OBVIOUS
<1>1. CASE Stop
  <2>1. queue' = <<>> /\ Len(queue') = 0 /\ worker' = 0 /\ offers' = {}
    BY <1>1, EmptySeq DEF Stop
  <2>2. UNCHANGED <<received, since, published>>
    BY <1>1 DEF Stop, history
  <2>3. \A e : Older(e, queue')
    BY <2>1 DEF Older
  <2>4. Increasing(queue') /\ \A i \in 1..Len(queue') : queue'[i] <= published
    BY <2>1 DEF Increasing
  <2>5. late' = late \cup offers /\ unanswered' = unanswered \cup offers
    BY <1>1 DEF Stop
  <2>6. LateInv'
    BY <2>1, <2>2, <2>3, <2>5, Events DEF OrderInv, LateInv, Newer
  <2> QED BY <2>1, <2>2, <2>3, <2>4, <2>5, <2>6 DEF OrderInv, InOrder
<1>2. CASE New
  <2>1. offers = {} /\ worker = 0
    BY <1>2 DEF New, OrderInv
  <2> QED BY <1>2, <2>1 DEF New, OrderInv, InOrder, LateInv, history, delivery, network
<1>3. CASE Close \/ RemoveKeyFile
  BY <1>3 DEF Close, RemoveKeyFile, OrderInv, InOrder, LateInv, manager, history, delivery, network
<1> QED BY <1>1, <1>2, <1>3 DEF Process

LEMMA OrderStep == TypeOK /\ OrderInv /\ [Next]_vars => OrderInv'
<1> SUFFICES ASSUME TypeOK, OrderInv, [Next]_vars PROVE OrderInv'
  OBVIOUS
<1>1. CASE UNCHANGED <<phase, destinations, published, queue, worker, offers, network, since>>
  BY <1>1 DEF OrderInv, InOrder, LateInv, network
<1>2. CASE Request \/ persistKey \/ persistFile \/ UNCHANGED vars
  BY <1>1, <1>2 DEF Request, persistKey, persistFile, history, delivery, vars
<1>3. CASE Work
  BY <1>3, OrderTake, OrderOffer, OrderDeliver DEF Work
<1> QED BY <1>2, <1>3, OrderPublish, OrderLate, OrderAssign, OrderProcess DEF Next, Save

LEMMA OrderInit == Init => OrderInv
<1> SUFFICES ASSUME Init PROVE OrderInv
  OBVIOUS
<1>1. queue = <<>> /\ Len(queue) = 0 /\ \A d \in Ids : received[d] = <<>> /\ Len(received[d]) = 0
  BY EmptySeq DEF Init
<1> QED BY <1>1 DEF Init, OrderInv, InOrder, LateInv, Increasing, Older, Newer

\* Every destination receives events in the order of Publish and none twice, but for one whose POST
\* ended without an answer, which may be handled after newer ones; and the worker posts nothing
\* published after the answer that removed or disabled the destination (manager.go, delivery.go).
THEOREM AlwaysInOrder == Spec => []InOrder
<1>1. TypeOK /\ OrderInv /\ [Next]_vars => TypeOK' /\ OrderInv'
  BY TypeStep, OrderStep
<1>2. Init => TypeOK /\ OrderInv
  BY InitType, OrderInit
<1>3. OrderInv => InOrder
  BY DEF OrderInv
<1> QED BY <1>1, <1>2, <1>3, PTL DEF Spec

=============================================================================
