---------------------------- MODULE Integrations ----------------------------
(***************************************************************************)
(* Outgoing notifications of Station and of Scout: shared/go/integrations. *)
(* A Manager keeps up to MaxDestinations destinations in memory and, sealed*)
(* with a key of its own file, in an encrypted file (the vault).  Publish  *)
(* puts an event in a bounded queue without ever waiting; one worker takes *)
(* the events one at a time, copies the destinations under the read lock   *)
(* and posts the event to those that want it, side by side.                *)
(*                                                                         *)
(* A call of Save or Delete holds the write lock from its first step to    *)
(* its last, so `call` is both its progress and the lock.  Events are      *)
(* numbered in the order of the Publish calls.  A destination is "on" when *)
(* it is enabled and its filters match; formats, templates and the checks  *)
(* of a Save's input are left out, and so is Test, which posts beside the  *)
(* queue.                                                                  *)
(***************************************************************************)
EXTENDS Integers, Sequences, FiniteSets

CONSTANTS
  Ids,              \* ids of destinations; each is handed out at most once
  Keys,             \* encryption keys; each is made at most once
  NoKey,            \* there is no key, or no key file
  Broken,           \* a key file that does not hold a whole key
  NoFile,           \* there is no vault
  MaxDestinations,  \* ten in the code
  QueueSize,        \* 128 in the code
  MaxEvents,        \* bound: calls of Publish
  MaxCalls,         \* bound: calls of Save and Delete
  MaxStops,         \* bound: times the process stops or crashes
  MaxEdits,         \* bound: times the key file is removed by hand
  MaxFailures       \* bound: file system calls that return an error

ASSUME SizeAssumption   == MaxDestinations \in Nat \ {0} /\ QueueSize \in Nat \ {0}
ASSUME BoundsAssumption == {MaxEvents, MaxCalls, MaxStops, MaxEdits, MaxFailures} \subseteq Nat
ASSUME KeysAssumption   == {NoKey, Broken} \cap Keys = {} /\ NoKey # Broken

VARIABLES
  phase,         \* "up", "closing" after the context is cancelled, or "down"
  destinations,  \* Manager.destinations: of each id "none", "on" or "off"
  used,          \* ids handed out so far
  key,           \* Manager.key
  file,          \* the vault: the key it is sealed with and the destinations in it
  keyFile,       \* the key file
  made,          \* keys made so far
  call,          \* the Save or Delete that holds the write lock
  published,     \* number of the last event
  queue,         \* Manager.queue
  worker,        \* the event the worker has taken, or 0
  offers,        \* deliveries under way, as <<id, event>>
  received,      \* events each destination has received
  late,          \* POSTs that ended without an answer and may still be handled
  unanswered,    \* history: all POSTs that ended without an answer
  since,         \* number of the last event when each id was last deleted or turned off
  budget         \* how much of each bound is left

manager  == <<destinations, key, call>>
disk     == <<file, keyFile, made>>
network  == <<received, late, unanswered>>
delivery == <<queue, worker, offers, network>>
history  == <<used, published, since>>
vars     == <<phase, destinations, used, key, file, keyFile, made, call, published, queue,
              worker, offers, network, since, budget>>

ASSUME NoFileAssumption == NoFile \notin [key : Keys, destinations : [Ids -> {"none", "on", "off"}]]

Settings == [Ids -> {"none", "on", "off"}]
Nothing  == [d \in Ids |-> "none"]
Idle     == [pc |-> "idle"]
Stored   == IF file = NoFile THEN Nothing ELSE file.destinations

Spend(b)  == budget[b] > 0 /\ budget' = [budget EXCEPT ![b] = @ - 1]
Failure   == Spend("failures")

Init ==
  /\ phase = "up"
  /\ destinations = Nothing
  /\ used = {}
  /\ key = NoKey
  /\ file = NoFile
  /\ keyFile = NoKey
  /\ made = {}
  /\ call = Idle
  /\ published = 0
  /\ queue = <<>>
  /\ worker = 0
  /\ offers = {}
  /\ received = [d \in Ids |-> <<>>]
  /\ late = {}
  /\ unanswered = {}
  /\ since = [d \in Ids |-> 0]
  /\ budget = [calls |-> MaxCalls, stops |-> MaxStops, edits |-> MaxEdits, failures |-> MaxFailures]

-----------------------------------------------------------------------------
(* Save and Delete, under the write lock *)

Present == {d \in Ids : destinations[d] # "none"}
Begin(next) == call' = [pc |-> "key", next |-> next]
Return == call' = Idle

Create(d) ==
  /\ d \notin used
  /\ Cardinality(Present) < MaxDestinations
  /\ used' = used \cup {d}
  /\ \E state \in {"on", "off"} : Begin([destinations EXCEPT ![d] = state])

Update(d) ==
  /\ d \in Present
  /\ \E state \in {"on", "off"} : Begin([destinations EXCEPT ![d] = state])
  /\ UNCHANGED used

Delete(d) ==
  /\ d \in Present
  /\ Begin([destinations EXCEPT ![d] = "none"])
  /\ UNCHANGED used

Request ==
  /\ phase # "down"
  /\ call = Idle
  /\ \E d \in Ids : Create(d) \/ Update(d) \/ Delete(d)
  /\ Spend("calls")
  /\ UNCHANGED <<phase, destinations, key, disk, published, delivery, since>>

\* persist reads the key file; a key is made only by a Manager that holds none, and only when
\* there is no key file.
MakeKey ==
  /\ key = NoKey
  /\ keyFile = NoKey
  /\ \E k \in Keys \ made :
       /\ made' = made \cup {k}
       /\ \/ /\ keyFile' = k
             /\ call' = [pc |-> "write", next |-> call.next, key |-> k]
             /\ UNCHANGED budget
          \/ /\ keyFile' = Broken
             /\ Return
             /\ Failure

ReadKey ==
  /\ keyFile \in Keys
  /\ key \in {NoKey, keyFile}
  /\ call' = [pc |-> "write", next |-> call.next, key |-> keyFile]
  /\ UNCHANGED <<keyFile, made, budget>>

\* The key file is broken, gone or another one, or the file system returns an error.
RefuseKey ==
  /\ \/ (keyFile = Broken \/ (key # NoKey /\ keyFile # key)) /\ UNCHANGED budget
     \/ Failure
  /\ Return
  /\ UNCHANGED <<keyFile, made>>

persistKey ==
  /\ call.pc = "key"
  /\ MakeKey \/ ReadKey \/ RefuseKey
  /\ UNCHANGED <<phase, destinations, key, file, history, delivery>>

\* The sealed file is written beside the vault and renamed over it, or nothing happens.
persistFile ==
  /\ call.pc = "write"
  /\ \/ /\ file' = [key |-> call.key, destinations |-> call.next]
        /\ call' = [call EXCEPT !.pc = "assign"]
        /\ UNCHANGED budget
     \/ Return /\ Failure /\ UNCHANGED file
  /\ UNCHANGED <<phase, destinations, key, keyFile, made, history, delivery>>

\* The new destinations take effect and the call is answered.
Assign ==
  /\ call.pc = "assign"
  /\ key' = call.key
  /\ destinations' = call.next
  /\ since' = [d \in Ids |-> IF destinations[d] = "on" /\ call.next[d] # "on"
                             THEN published ELSE since[d]]
  /\ Return
  /\ UNCHANGED <<phase, disk, used, published, delivery, budget>>

Save == persistKey \/ persistFile \/ Assign

-----------------------------------------------------------------------------
(* Publish and the worker *)

\* A full queue drops the event; a cancelled Manager may take it or not.
Publish ==
  /\ phase # "down"
  /\ published < MaxEvents
  /\ published' = published + 1
  /\ \/ Len(queue) < QueueSize /\ queue' = Append(queue, published')
     \/ (Len(queue) = QueueSize \/ phase = "closing") /\ UNCHANGED queue
  /\ UNCHANGED <<phase, manager, disk, used, worker, offers, network, since, budget>>

WaitedForNobody == TRUE
\* group.Wait: every delivery of the event before has ended.
Waited == offers = {}

TakeEvent ==
  /\ phase # "down"
  /\ worker = 0
  /\ Waited
  /\ queue # <<>>
  /\ worker' = Head(queue)
  /\ queue' = Tail(queue)
  /\ UNCHANGED <<phase, manager, disk, history, offers, network, budget>>

\* The worker waits for the read lock.  With a cancelled context no request is sent.
Offer ==
  /\ worker # 0
  /\ call = Idle
  /\ offers' = offers \cup
       {o \in Ids \X {worker} : phase = "up" /\ destinations[o[1]] = "on"}
  /\ worker' = 0
  /\ UNCHANGED <<phase, manager, disk, history, queue, network, budget>>

Received(o) == received' = [received EXCEPT ![o[1]] = Append(@, o[2])]

\* A delivery ends: the destination has answered, or the POST has failed or timed out, and then the
\* worker cannot know whether it is handled.
deliver(o) ==
  /\ offers' = offers \ {o}
  /\ \/ Received(o) /\ UNCHANGED <<late, unanswered>>
     \/ late' = late \cup {o} /\ unanswered' = unanswered \cup {o} /\ UNCHANGED received
  /\ UNCHANGED <<phase, manager, disk, history, queue, worker, budget>>

\* A destination handles a POST that was sent before its sender gave up on it.
HandleLate(o) ==
  /\ Received(o)
  /\ late' = late \ {o}
  /\ UNCHANGED <<phase, manager, disk, history, queue, worker, offers, unanswered, budget>>

Work == TakeEvent \/ Offer \/ \E o \in offers : deliver(o)

-----------------------------------------------------------------------------
(* Stopping, crashing and starting *)

Close ==
  /\ phase = "up"
  /\ phase' = "closing"
  /\ UNCHANGED <<manager, disk, history, delivery, budget>>

\* Close has returned and the process ends, or it dies at any moment.
Stop ==
  /\ phase # "down"
  /\ phase' = "down"
  /\ destinations' = Nothing
  /\ key' = NoKey
  /\ call' = Idle
  /\ queue' = <<>>
  /\ worker' = 0
  /\ offers' = {}
  /\ late' = late \cup offers
  /\ unanswered' = unanswered \cup offers
  /\ Spend("stops")
  /\ UNCHANGED <<disk, history, received>>

LoadedKeyForgotten == NoKey
\* load keeps the key that opened the vault; without a vault it reads no key.
LoadedKey == IF file = NoFile THEN NoKey ELSE file.key

\* New fails, and with it the start of the program, when the vault does not open.
New ==
  /\ phase = "down"
  /\ file # NoFile => keyFile = file.key
  /\ phase' = "up"
  /\ destinations' = Stored
  /\ key' = LoadedKey
  /\ UNCHANGED <<disk, call, history, delivery, budget>>

RemoveKeyFile ==
  /\ keyFile # NoKey
  /\ keyFile' = NoKey
  /\ Spend("edits")
  /\ UNCHANGED <<phase, manager, file, made, history, delivery>>

Process == Close \/ Stop \/ New \/ RemoveKeyFile

Next == Request \/ Save \/ Publish \/ Work \/ Process \/ \E o \in late : HandleLate(o)

Spec == Init /\ [][Next]_vars

-----------------------------------------------------------------------------
(* Properties *)

TypeOK ==
  /\ phase \in {"up", "closing", "down"}
  /\ destinations \in Settings
  /\ used \subseteq Ids
  /\ key \in Keys \cup {NoKey}
  /\ file \in {NoFile} \cup [key : Keys, destinations : Settings]
  /\ keyFile \in Keys \cup {NoKey, Broken}
  /\ made \subseteq Keys
  /\ call \in {Idle} \cup [pc : {"key"}, next : Settings]
                     \cup [pc : {"write", "assign"}, next : Settings, key : Keys]
  /\ published \in 0..MaxEvents
  /\ queue \in Seq(1..MaxEvents)
  /\ worker \in 0..MaxEvents
  /\ offers \subseteq Ids \X (1..MaxEvents)
  /\ received \in [Ids -> Seq(1..MaxEvents)]
  /\ late \subseteq Ids \X (1..MaxEvents) /\ unanswered \subseteq Ids \X (1..MaxEvents)
  /\ since \in [Ids -> 0..MaxEvents]
  /\ budget \in [calls : Nat, stops : Nat, edits : Nat, failures : Nat]

Increasing(s) == \A i, j \in 1..Len(s) : i < j => s[i] < s[j]

\* Whatever is dropped, times out or is lost with the process, a destination handles no event twice,
\* and one that it handles after a newer one is one whose POST had ended without an answer, for a
\* POST waits for the end of the one before; and an event published after the answer that deletes or
\* disables a destination is not posted to it.
InOrder ==
  /\ \A d \in Ids : \A i, j \in 1..Len(received[d]) :
       i < j => \/ received[d][i] < received[d][j]
                \/ received[d][i] # received[d][j] /\ <<d, received[d][j]>> \in unanswered
  /\ \A o \in offers : destinations[o[1]] = "on" \/ o[2] <= since[o[1]]

\* What a Manager has answered is in the vault, and as long as nobody takes the key file away the
\* key file opens the vault: no half-written key and no new key ever replaces the one that does.
\* With no call under way, a Manager that starts again has the destinations of the one before.
VaultOpens ==
  /\ file # NoFile => keyFile \in {NoKey, file.key}
  /\ phase # "down" /\ call = Idle => destinations = Stored
=============================================================================
