---------------------------- MODULE GatewayProofs ----------------------------
(***************************************************************************)
(* Proofs about Gateway for every set of messages, sites, senders and      *)
(* calls, each of the three persisters, and any number of disturbances.    *)
(***************************************************************************)
EXTENDS Gateway, FiniteSetTheorems, TLAPS

SenderTypes ==
  /\ queue \subseteq Queueable /\ errors \subseteq Queueable /\ audit \subseteq Queueable
  /\ failures \in [Queueable -> 0..MaxRetries]
  /\ pc \in [Senders -> {"idle", "route", "split", "submit", "submitting", "ack", "acking",
                         "forwarded"}]
  /\ hand \in [Senders -> Queueable \cup {None}]
  /\ outgoing \in [Senders -> SUBSET Queueable]

ReceiverTypes ==
  /\ calls \in [Slots -> Calls \cup {None}]
  /\ persister \in Persisters
  /\ storage \in [Envelopes -> [new : Nat, acked : Nat]]
  /\ delivered \in [Envelopes -> Nat]

HistoryTypes ==
  /\ posts \in [WebMessages -> 0..MaxPosts]
  /\ disturbances \in 0..MaxDisturbances
  /\ thrown \subseteq Envelopes /\ overlapped \subseteq Envelopes
  /\ restarted \subseteq Keys

(* A thread that is not idle has a message of its own in hand, which has   *)
(* not failed too often, and a sender waits for a call of its own.         *)
Hands ==
  /\ \A s \in Senders : pc[s] # "idle" => hand[s] \in Queueable /\ failures[hand[s]] < MaxRetries
  /\ \A s, t \in Senders : pc[s] # "idle" /\ hand[s] = hand[t] => s = t

Owners ==
  /\ \A c \in Slots : Free(c) \/ calls[c].owner = None
                      \/ pc[calls[c].owner] \in {"submitting", "acking"}
  /\ \A c, d \in Slots : Free(c) \/ Free(d) \/ calls[c].owner = None
                         \/ calls[c].owner # calls[d].owner \/ c = d

(* What a call may be about to write, by its step and its persister.       *)
Fits(call) ==
  /\ call.step \in {"arrived", "ok", "failed"} => call.writes = {} /\ call.acks = 0
  /\ call.acks > 0 => "ack" \in call.writes
  /\ persister = "InMemory" =>
       /\ call.acks = 0 /\ call.writes \subseteq {"send"}
       /\ call.writes # {} => call.step = "complete"
       /\ call.step \notin {"insertRow", "save"}

Inserts(call) == IF "insert" \in call.writes THEN 1 ELSE 0

(* One call at a time acknowledges records of an envelope, and it does not *)
(* acknowledge more than there are.                                        *)
Covered(call) == call.acks <= storage[call.envelope].new + Inserts(call)

Exclusive(c, call) ==
  "ack" \in call.writes =>
    \A d \in Slots \ {c} :
      Free(d) \/ calls[d].envelope # call.envelope \/ "ack" \notin calls[d].writes

Transactions ==
  \A c \in Slots :
    ~ Free(c) => Fits(calls[c]) /\ Covered(calls[c]) /\ Exclusive(c, calls[c])

SenderInv == SenderTypes /\ Hands /\ Owners
ReceiverInv == ReceiverTypes /\ Transactions

LEMMA EnvelopeFacts ==
  /\ Queueable \subseteq Envelopes
  /\ \A w \in WebMessages : Posted(w) \in Envelopes
  /\ \A e \in Queueable : e.id \in Messages /\ e.sites \subseteq Keys
  /\ \A m \in Messages, k \in Keys : Clone(m, k) \in Queueable
  /\ None \notin Queueable /\ None \notin Senders
<1>1. \A e \in Queueable : e.id \in Messages /\ e.sites \subseteq Keys
  <2>1. \A m \in Messages : Original(m).id = m /\ Original(m).sites = SitesOf[m]
    BY DEF Original, Envelope
  <2>2. \A m, k : Clone(m, k).id = m /\ Clone(m, k).sites = {k}
    BY DEF Clone, Envelope
  <2>3. \A m \in Messages : SitesOf[m] \subseteq Keys
    BY GatewayAssumption
  <2>4. QED
    BY <2>1, <2>2, <2>3 DEF Queueable
<1>2. \A m \in Messages, k \in Keys : Clone(m, k) \in Queueable
  <2>1. SUFFICES ASSUME NEW m \in Messages, NEW k \in Keys PROVE Clone(m, k) \in Queueable
    OBVIOUS
  <2>2. <<m, k>> \in Messages \X Keys /\ <<m, k>>[1] = m /\ <<m, k>>[2] = k
    OBVIOUS
  <2>3. QED
    BY <2>2 DEF Queueable
<1>3. QED
  BY <1>1, <1>2, NoneAssumption DEF Envelopes

(* The slot a call is put in is free.                                      *)
LEMMA PlaceFacts ==
  ASSUME NEW call, Place(call)
  PROVE  \E c \in Slots : Free(c) /\ calls' = [calls EXCEPT ![c] = call]
<1> DEFINE chosen == CHOOSE c \in Slots : Free(c)
<1>1. chosen \in Slots /\ Free(chosen)
  BY DEF Place
<1>2. calls' = [calls EXCEPT ![chosen] = call]
  BY DEF Place
<1>3. QED
  BY <1>1, <1>2

-----------------------------------------------------------------------------
(* The receiving site.  Most steps replace the record of one call.         *)

LEMMA CallReplaced ==
  ASSUME ReceiverInv, NEW c \in Slots, NEW call \in Calls,
         Fits(call), Covered(call), Exclusive(c, call),
         Free(c) \/ calls[c].envelope = call.envelope,
         calls' = [calls EXCEPT ![c] = call],
         UNCHANGED <<persister, storage, delivered>>
  PROVE  ReceiverInv'
<1> USE DEF ReceiverInv, ReceiverTypes
<1>1. ReceiverTypes'
  OBVIOUS
<1>2. calls'[c] = call /\ \A d \in Slots \ {c} : calls'[d] = calls[d]
  OBVIOUS
<1>3. ASSUME NEW d \in Slots, ~ Free(d)'
      PROVE  (Fits(calls[d]) /\ Covered(calls[d]) /\ Exclusive(d, calls[d]))'
  <2>1. CASE d = c
    <3>1. Exclusive(c, calls[c])'
      BY <1>2 DEF Exclusive, Free
    <3>2. Fits(calls[c])' /\ Covered(calls[c])'
      BY <1>2 DEF Fits, Covered, Inserts
    <3>3. QED
      BY <2>1, <3>1, <3>2
  <2>2. CASE d # c
    <3>1. calls'[d] = calls[d] /\ ~ Free(d)
      BY <2>2, <1>2, <1>3 DEF Free
    <3>2. Fits(calls[d]) /\ Covered(calls[d]) /\ Exclusive(d, calls[d])
      BY <3>1 DEF Transactions
    <3>3. Exclusive(d, calls[d])'
      BY <2>2, <3>1, <3>2, <1>2 DEF Exclusive, Free
    <3>4. Fits(calls[d])' /\ Covered(calls[d])'
      BY <3>1, <3>2 DEF Fits, Covered, Inserts
    <3>5. QED
      BY <3>3, <3>4
  <2>3. QED
    BY <2>1, <2>2
<1>4. Transactions'
  BY <1>3 DEF Transactions
<1>5. QED
  BY <1>1, <1>4

LEMMA CallFacts ==
  ASSUME ReceiverInv, NEW c \in Slots, ~ Free(c)
  PROVE  /\ calls[c] \in Calls
         /\ storage[calls[c].envelope].new \in Nat /\ storage[calls[c].envelope].acked \in Nat
         /\ Fits(calls[c]) /\ Covered(calls[c]) /\ Exclusive(c, calls[c])
         /\ Inserts(calls[c]) \in {0, 1} /\ Inserted(c) = Inserts(calls[c])
<1>1. calls[c] \in Calls
  BY DEF ReceiverInv, ReceiverTypes, Free
<1>2. Fits(calls[c]) /\ Covered(calls[c]) /\ Exclusive(c, calls[c])
  BY DEF ReceiverInv, Transactions
<1>3. calls[c].envelope \in Envelopes
  BY <1>1 DEF Calls
<1>4. QED
  BY <1>1, <1>2, <1>3 DEF ReceiverInv, ReceiverTypes, Inserts, Inserted

LEMMA StepTaken ==
  ASSUME ReceiverInv, NEW c \in Slots, ~ Free(c), NEW step \in Steps \ {"arrived", "ok", "failed"},
         persister = "InMemory" =>
           /\ calls[c].writes # {} => step = "complete"
           /\ step \notin {"insertRow", "save"},
         Step(c, step), UNCHANGED <<persister, storage, delivered>>
  PROVE  ReceiverInv'
<1> DEFINE call == [calls[c] EXCEPT !.step = step]
<1>1. calls' = [calls EXCEPT ![c] = call]
  BY DEF Step
<1>2. /\ call \in Calls /\ call.step = step /\ call.envelope = calls[c].envelope
      /\ call.writes = calls[c].writes /\ call.acks = calls[c].acks
  BY CallFacts DEF Calls
<1>3. Fits(call) /\ Covered(call) /\ Exclusive(c, call)
  BY <1>2, CallFacts DEF Fits, Covered, Exclusive, Inserts
<1>4. QED
  BY <1>1, <1>2, <1>3, CallReplaced

LEMMA Aborted ==
  ASSUME ReceiverInv, NEW c \in Slots, ~ Free(c), Abort(c),
         UNCHANGED <<persister, storage, delivered>>
  PROVE  ReceiverInv'
<1> DEFINE call == [calls[c] EXCEPT !.step = "failed", !.writes = {}, !.acks = 0]
<1>1. calls' = [calls EXCEPT ![c] = call]
  BY DEF Abort
<1>2. /\ call \in Calls /\ call.step = "failed" /\ call.envelope = calls[c].envelope
      /\ call.writes = {} /\ call.acks = 0
  BY CallFacts DEF Calls, Steps
<1>3. Fits(call) /\ Covered(call) /\ Exclusive(c, call)
  BY <1>2, CallFacts DEF Fits, Covered, Exclusive, Inserts
<1>4. QED
  BY <1>1, <1>2, <1>3, CallReplaced

LEMMA Written ==
  ASSUME ReceiverInv, NEW c \in Slots, ~ Free(c), NEW what \in {"insert", "send"},
         NEW step \in {"ack", "complete"}, Write(c, what, step),
         persister = "InMemory" => what = "send" /\ step = "complete",
         UNCHANGED <<persister, storage, delivered>>
  PROVE  ReceiverInv'
<1> DEFINE call == [calls[c] EXCEPT !.step = step, !.writes = @ \cup {what}]
<1>1. calls' = [calls EXCEPT ![c] = call]
  BY DEF Write
<1>2. /\ call \in Calls /\ call.step = step /\ call.envelope = calls[c].envelope
      /\ call.writes = calls[c].writes \cup {what} /\ call.acks = calls[c].acks
  BY CallFacts DEF Calls, Steps
<1>3. Fits(call)
  BY <1>2, CallFacts DEF Fits
<1>4. Covered(call)
  <2>1. Inserts(calls[c]) <= Inserts(call) /\ Inserts(call) \in {0, 1}
    BY <1>2 DEF Inserts
  <2>2. calls[c].acks \in Nat
    BY CallFacts DEF Calls
  <2>3. QED
    BY <1>2, <2>1, <2>2, CallFacts DEF Covered
<1>5. Exclusive(c, call)
  BY <1>2, CallFacts DEF Exclusive
<1>6. QED
  BY <1>1, <1>2, <1>3, <1>4, <1>5, CallReplaced

Becomes(c, step, writes, acks) ==
  calls' = [calls EXCEPT ![c].step = step, ![c].writes = writes, ![c].acks = acks]

(* Nobody else has records of that envelope locked, so that the call may   *)
(* acknowledge what there is.                                              *)
LEMMA Acknowledged ==
  ASSUME ReceiverInv, NEW c \in Slots, NEW step, NEW writes, NEW acks,
         Becomes(c, step, writes, acks),
         ~ Free(c), persister # "InMemory", ~ Locked(c), step \in {"raise", "complete"},
         writes = calls[c].writes \/ writes = calls[c].writes \cup {"ack"},
         acks = storage[calls[c].envelope].new + Inserted(c),
         acks > 0 => "ack" \in writes,
         UNCHANGED <<persister, storage, delivered>>
  PROVE  ReceiverInv'
<1>0. acks \in Nat
  BY CallFacts
<1> DEFINE call == [calls[c] EXCEPT !.step = step, !.writes = writes, !.acks = acks]
<1>1. calls' = [calls EXCEPT ![c] = call]
  BY DEF Becomes
<1>2. /\ call \in Calls /\ call.step = step /\ call.envelope = calls[c].envelope
      /\ call.writes = writes /\ call.acks = acks
  BY <1>0, CallFacts DEF Calls, Steps
<1>3. Fits(call)
  BY <1>0, <1>2 DEF Fits
<1>4. Covered(call)
  BY <1>0, <1>2, CallFacts DEF Covered, Inserts, Inserted
<1>5. \A d \in Slots \ {c} : Free(d) \/ calls[d].envelope # calls[c].envelope
                             \/ "ack" \notin calls[d].writes
  <2>1. SUFFICES ASSUME NEW d \in Slots \ {c}, ~ Free(d), calls[d].envelope = calls[c].envelope,
                        "ack" \in calls[d].writes
                 PROVE  FALSE
    OBVIOUS
  <2>2. Active(d)
    <3>1. Fits(calls[d])
      BY <2>1, CallFacts
    <3>2. QED
      BY <2>1, <3>1 DEF Fits, Active
  <2>3. QED
    BY <2>1, <2>2 DEF Locked, Twins
<1>6. Exclusive(c, call)
  BY <1>2, <1>5 DEF Exclusive
<1>7. QED
  BY <1>1, <1>2, <1>3, <1>4, <1>6, CallReplaced

(* InMemoryPersistence writes to its list outside the transaction.         *)
LEMMA RecordWritten ==
  ASSUME ReceiverInv, NEW c \in Slots, ~ Free(c), persister = "InMemory",
         NEW step \in {"ack", "raise", "complete"}, Step(c, step), calls[c].writes = {},
         NEW record \in [new : Nat, acked : Nat],
         storage' = [storage EXCEPT ![calls[c].envelope] = record],
         UNCHANGED <<persister, delivered>>
  PROVE  ReceiverInv'
<1> DEFINE call == [calls[c] EXCEPT !.step = step]
<1>1. calls' = [calls EXCEPT ![c] = call]
  BY DEF Step
<1>2. /\ call \in Calls /\ call.step = step /\ call.envelope = calls[c].envelope
      /\ call.writes = {} /\ call.acks = calls[c].acks
  BY CallFacts DEF Calls, Steps
<1>3. ReceiverTypes'
  BY <1>1, <1>2 DEF ReceiverInv, ReceiverTypes
<1>4. ASSUME NEW d \in Slots, ~ Free(d)'
      PROVE  (Fits(calls[d]) /\ Covered(calls[d]) /\ Exclusive(d, calls[d]))'
  <2>1. /\ ~ Free(d) /\ calls'[d].writes = calls[d].writes /\ calls'[d].acks = calls[d].acks
        /\ calls'[d].envelope = calls[d].envelope
        /\ calls'[d].step = IF d = c THEN step ELSE calls[d].step
    BY <1>1, <1>2, <1>4 DEF Free, ReceiverInv, ReceiverTypes
  <2>2. Fits(calls[d]) /\ calls[d] \in Calls
    BY <2>1, CallFacts
  <2>3. calls[d].acks = 0 /\ "ack" \notin calls[d].writes
    BY <2>2 DEF Fits
  <2>4. Fits(calls[d])'
    BY <2>1, <2>2, <1>2 DEF Fits
  <2>5. calls'[d].envelope \in Envelopes
    BY <2>1, <2>2 DEF Calls
  <2>6. Covered(calls[d])'
    BY <2>1, <2>3, <2>5, <1>3 DEF Covered, Inserts, ReceiverTypes
  <2>7. Exclusive(d, calls[d])'
    BY <2>1, <2>3 DEF Exclusive
  <2>8. QED
    BY <2>4, <2>6, <2>7
<1>5. QED
  BY <1>3, <1>4 DEF ReceiverInv, Transactions

LEMMA ReceiverPersist ==
  ASSUME ReceiverInv, NEW c \in Slots, Persist(c), UNCHANGED <<persister, delivered>>
  PROVE  ReceiverInv'
<1> USE DEF Steps
<1>0. ~ Free(c)
  BY DEF Persist, At, InMemoryInsert, InMemoryAck, RavenInsert, RavenLoad, RavenSave, SqlExists,
     SqlInsert, SqlAck, SqlGivesUp, MessageReceivedOnChannel
<1>a. AfterInsert(c) \in {"ack", "complete"}
  BY DEF AfterInsert
<1>b. /\ calls[c] \in Calls /\ calls[c].envelope \in Envelopes /\ Fits(calls[c])
      /\ storage[calls[c].envelope] \in [new : Nat, acked : Nat]
      /\ persister = "InMemory" /\ calls[c].step # "complete" => calls[c].writes = {}
  BY <1>0, CallFacts DEF Calls, ReceiverInv, ReceiverTypes, Fits
<1>1. CASE InMemoryInsert(c)
  <2> DEFINE e == calls[c].envelope
             record == [storage[e] EXCEPT !.new = IF Records(e) = 0 THEN 1 ELSE @]
  <2>1. record \in [new : Nat, acked : Nat]
    BY <1>b
  <2>2. storage' = [storage EXCEPT ![e] = record]
    BY <1>1 DEF InMemoryInsert
  <2>3. QED
    BY <1>0, <1>1, <1>a, <1>b, <2>1, <2>2, RecordWritten DEF InMemoryInsert, At
<1>2. CASE InMemoryAck(c)
  <2>1. CASE UNCHANGED storage /\ Step(c, "complete")
    BY <2>1, <1>2, <1>0, StepTaken DEF InMemoryAck
  <2>2. CASE /\ storage' = [storage EXCEPT ![calls[c].envelope] = [new |-> 0, acked |-> 1]]
             /\ Step(c, "raise")
    <3>1. [new |-> 0, acked |-> 1] \in [new : Nat, acked : Nat]
      OBVIOUS
    <3>2. persister = "InMemory" /\ calls[c].writes = {}
      BY <1>2, <1>b DEF InMemoryAck, At
    <3>3. QED
      BY <2>2, <1>0, <3>1, <3>2, RecordWritten
  <2>3. QED
    BY <1>2, <2>1, <2>2 DEF InMemoryAck
<1>3. CASE RavenInsert(c)
  <2>1. CASE Step(c, AfterInsert(c))
    BY <2>1, <1>0, <1>3, <1>a, StepTaken DEF RavenInsert
  <2>2. CASE Write(c, "insert", AfterInsert(c))
    BY <2>2, <1>0, <1>3, <1>a, Written DEF RavenInsert
  <2>3. QED
    BY <1>3, <2>1, <2>2 DEF RavenInsert
<1>4. CASE RavenLoad(c)
  <2>1. CASE Abort(c)
    BY <2>1, <1>0, <1>4, Aborted DEF RavenLoad
  <2>2. CASE Step(c, IF storage[calls[c].envelope].acked > 0 THEN "complete" ELSE "save")
    BY <2>2, <1>0, <1>4, StepTaken DEF RavenLoad
  <2>3. QED
    BY <1>4, <2>1, <2>2 DEF RavenLoad
<1>5. CASE RavenSave(c)
  <2>1. CASE Abort(c)
    BY <2>1, <1>0, <1>5, Aborted DEF RavenSave
  <2>2. CASE ~ Locked(c) /\ ~ Abort(c)
    <3>1. Becomes(c, "raise", calls[c].writes \cup {"ack"},
                      storage[calls[c].envelope].new + Inserted(c))
      BY <1>5, <2>2 DEF RavenSave, Becomes
    <3>2. persister = "Raven" /\ UNCHANGED storage
      BY <1>5 DEF RavenSave
    <3>3. QED
      BY <1>0, <2>2, <3>1, <3>2, Acknowledged
  <2>3. QED
    BY <1>5, <2>1, <2>2 DEF RavenSave
<1>6. CASE SqlExists(c)
  BY <1>6, <1>0, <1>a, StepTaken DEF SqlExists
<1>7. CASE SqlInsert(c)
  BY <1>7, <1>0, <1>a, Written DEF SqlInsert
<1>8. CASE SqlAck(c)
  <2> DEFINE rows == storage[calls[c].envelope].new + Inserted(c)
             step == IF rows = 1 THEN "raise" ELSE "complete"
             writes == IF rows = 0 THEN calls[c].writes ELSE calls[c].writes \cup {"ack"}
  <2>1. rows \in Nat
    BY <1>0, CallFacts
  <2>2. Becomes(c, step, writes, rows)
    BY <1>8 DEF SqlAck, Becomes
  <2>3. rows > 0 => "ack" \in writes
    BY <2>1
  <2>4. ~ Locked(c) /\ persister = "Sql" /\ UNCHANGED storage
    BY <1>8 DEF SqlAck
  <2>5. /\ step \in {"raise", "complete"}
        /\ writes = calls[c].writes \/ writes = calls[c].writes \cup {"ack"}
    OBVIOUS
  <2> HIDE DEF step, writes
  <2>6. QED
    BY <1>0, <2>2, <2>3, <2>4, <2>5, Acknowledged
<1>9. CASE SqlGivesUp(c)
  BY <1>9, <1>0, Aborted DEF SqlGivesUp
<1>10. CASE MessageReceivedOnChannel(c)
  BY <1>10, <1>0, Written DEF MessageReceivedOnChannel
<1>11. QED
  BY <1>1, <1>2, <1>3, <1>4, <1>5, <1>6, <1>7, <1>8, <1>9, <1>10 DEF Persist

LEMMA ReceiverComplete ==
  ASSUME ReceiverInv, NEW c \in Slots, Complete(c), UNCHANGED persister
  PROVE  ReceiverInv'
<1> DEFINE e == calls[c].envelope
           record == [new |-> storage[e].new + Inserted(c) - calls[c].acks,
                      acked |-> storage[e].acked + calls[c].acks]
           call == [calls[c] EXCEPT !.step = "ok", !.writes = {}, !.acks = 0]
<1>0. ~ Free(c)
  BY DEF Complete, At
<1>1. /\ calls[c] \in Calls /\ e \in Envelopes /\ calls[c].acks \in Nat
      /\ storage[e].new \in Nat /\ storage[e].acked \in Nat
      /\ Inserted(c) \in {0, 1} /\ Inserted(c) = Inserts(calls[c])
      /\ calls[c].acks <= storage[e].new + Inserted(c)
      /\ calls[c].acks > 0 => "ack" \in calls[c].writes
  BY <1>0, CallFacts DEF Calls, Covered, Fits
<1>2. calls' = [calls EXCEPT ![c] = call] /\ storage' = [storage EXCEPT ![e] = record]
  BY DEF Complete
<1>3. /\ call \in Calls /\ call.step = "ok" /\ call.envelope = e
      /\ call.writes = {} /\ call.acks = 0
  BY <1>1 DEF Calls, Steps
<1>4. record \in [new : Nat, acked : Nat]
  BY <1>1
<1>5. delivered' \in [Envelopes -> Nat]
  <2> DEFINE sent == IF "send" \in calls[c].writes THEN 1 ELSE 0
  <2>1. delivered[e] \in Nat /\ delivered[e] + sent \in Nat
    BY <1>1 DEF ReceiverInv, ReceiverTypes
  <2>2. delivered' = [delivered EXCEPT ![e] = delivered[e] + sent]
    BY DEF Complete
  <2>3. QED
    BY <2>1, <2>2 DEF ReceiverInv, ReceiverTypes
<1>6. ReceiverTypes'
  BY <1>2, <1>3, <1>4, <1>5 DEF ReceiverInv, ReceiverTypes
<1>7. ASSUME NEW d \in Slots, ~ Free(d)'
      PROVE  (Fits(calls[d]) /\ Covered(calls[d]) /\ Exclusive(d, calls[d]))'
  <2>0. calls'[c] = call /\ \A b \in Slots \ {c} : calls'[b] = calls[b]
    BY <1>2 DEF ReceiverInv, ReceiverTypes
  <2>1. CASE d = c
    <3>1. Fits(calls[c])' /\ Exclusive(c, calls[c])'
      BY <2>0, <1>3 DEF Fits, Exclusive
    <3>2. storage'[e].new \in Nat
      BY <1>1, <1>6 DEF ReceiverTypes
    <3>3. Covered(calls[c])'
      BY <2>0, <1>3, <3>2 DEF Covered, Inserts
    <3>4. QED
      BY <2>1, <3>1, <3>3
  <2>2. CASE d # c
    <3>1. calls'[d] = calls[d] /\ ~ Free(d)
      BY <2>0, <2>2, <1>7 DEF Free
    <3>2. /\ Fits(calls[d]) /\ Covered(calls[d]) /\ Exclusive(d, calls[d]) /\ calls[d] \in Calls
          /\ Inserts(calls[d]) \in {0, 1}
      BY <3>1, CallFacts
    <3>3. Fits(calls[d])'
      BY <3>1, <3>2 DEF Fits
    <3>4. Exclusive(d, calls[d])'
      <4>1. SUFFICES ASSUME "ack" \in calls[d].writes, NEW b \in Slots \ {d}, ~ Free(b)',
                            calls'[b].envelope = calls[d].envelope, "ack" \in calls'[b].writes
                     PROVE  FALSE
        BY <3>1 DEF Exclusive
      <4>2. b # c
        BY <2>0, <1>3, <4>1
      <4>3. calls'[b] = calls[b] /\ ~ Free(b)
        BY <4>1, <4>2, <2>0 DEF Free
      <4>4. QED
        BY <4>1, <4>3, <3>2 DEF Exclusive
    <3>5. Covered(calls[d])'
      <4>0. calls[d].envelope \in Envelopes /\ calls[d].acks \in Nat
        BY <3>2 DEF Calls
      <4>1. CASE calls[d].envelope # e
        <5>1. storage'[calls[d].envelope] = storage[calls[d].envelope]
          BY <4>0, <4>1, <1>2 DEF ReceiverInv, ReceiverTypes
        <5>2. QED
          BY <3>1, <3>2, <5>1 DEF Covered, Inserts
      <4>2. CASE calls[d].envelope = e
        <5>1. storage'[e] = record
          BY <1>1, <1>2 DEF ReceiverInv, ReceiverTypes
        <5>2. CASE calls[d].acks = 0
          BY <3>1, <3>2, <4>2, <5>1, <5>2, <1>4 DEF Covered, Inserts
        <5>3. CASE calls[d].acks > 0
          <6>1. "ack" \in calls[d].writes
            BY <5>3, <3>2 DEF Fits
          <6>2. "ack" \notin calls[c].writes
            BY <6>1, <3>2, <4>2, <2>2, <1>0 DEF Exclusive
          <6>3. calls[c].acks = 0
            BY <6>2, <1>1
          <6>4. record.new = storage[e].new + Inserted(c)
            BY <6>3, <1>1
          <6>5. calls[d].acks <= storage[e].new + Inserts(calls[d])
            BY <3>2, <4>2 DEF Covered
          <6>6. calls[d].acks <= record.new + Inserts(calls[d])
            BY <6>4, <6>5, <1>1, <3>2, <4>0
          <6>7. QED
            BY <3>1, <4>2, <5>1, <6>6 DEF Covered, Inserts
        <5>4. QED
          BY <4>0, <5>2, <5>3
      <4>3. QED
        BY <4>1, <4>2
    <3>6. QED
      BY <3>3, <3>4, <3>5
  <2>3. QED
    BY <2>1, <2>2
<1>8. QED
  BY <1>6, <1>7 DEF ReceiverInv, Transactions

(* Calls that end, are given up by their sender or lose their transaction. *)
LEMMA CallsLeft ==
  ASSUME ReceiverInv, ReceiverTypes', UNCHANGED persister,
         persister = "InMemory" \/ UNCHANGED storage,
         \A d \in Slots : ~ Free(d)' =>
            /\ ~ Free(d) /\ calls'[d].envelope = calls[d].envelope
            /\ \/ /\ calls'[d].step = calls[d].step /\ calls'[d].writes = calls[d].writes
                  /\ calls'[d].acks = calls[d].acks
               \/ calls'[d].step = "failed" /\ calls'[d].writes = {} /\ calls'[d].acks = 0
  PROVE  ReceiverInv'
<1>1. ASSUME NEW d \in Slots, ~ Free(d)'
      PROVE  (Fits(calls[d]) /\ Covered(calls[d]) /\ Exclusive(d, calls[d]))'
  <2>1. ~ Free(d) /\ calls'[d].envelope = calls[d].envelope
    BY <1>1
  <2>2. Fits(calls[d]) /\ Covered(calls[d]) /\ Exclusive(d, calls[d]) /\ calls[d] \in Calls
    BY <2>1, CallFacts
  <2>3. calls[d].envelope \in Envelopes
    BY <2>2 DEF Calls
  <2>4. storage'[calls[d].envelope].new \in Nat
    BY <2>3 DEF ReceiverTypes
  <2>5. Fits(calls[d])'
    BY <1>1, <2>2 DEF Fits
  <2>6. Covered(calls[d])'
    BY <1>1, <2>1, <2>2, <2>4 DEF Covered, Inserts, Fits
  <2>7. Exclusive(d, calls[d])'
    BY <1>1, <2>1, <2>2 DEF Exclusive
  <2>8. QED
    BY <2>5, <2>6, <2>7
<1>2. QED
  BY <1>1 DEF ReceiverInv, Transactions

LEMMA CallPlaced ==
  ASSUME ReceiverInv, NEW e \in Envelopes, NEW type \in CallTypes, NEW autoAck \in BOOLEAN,
         NEW s \in Senders \cup {None}, Place(NewCall(e, type, autoAck, s)),
         UNCHANGED <<persister, storage, delivered>>
  PROVE  ReceiverInv'
<1> DEFINE call == NewCall(e, type, autoAck, s)
<1>1. /\ call \in Calls /\ call.envelope = e /\ call.step = "arrived"
      /\ call.writes = {} /\ call.acks = 0
  BY DEF NewCall, Calls, Steps
<1>2. \E c \in Slots : Free(c) /\ calls' = [calls EXCEPT ![c] = call]
  BY PlaceFacts
<1>3. \A c : Fits(call) /\ Exclusive(c, call)
  BY <1>1 DEF Fits, Exclusive
<1>4. Covered(call)
  BY <1>1 DEF Covered, Inserts, ReceiverInv, ReceiverTypes
<1> HIDE DEF call
<1>5. QED
  BY <1>1, <1>2, <1>3, <1>4, CallReplaced

LEMMA ReceiverInit == Init => ReceiverInv
<1> SUFFICES ASSUME Init PROVE ReceiverInv
  OBVIOUS
<1>1. ReceiverTypes
  BY DEF Init, ReceiverTypes
<1>2. \A c \in Slots : Free(c)
  BY DEF Init, Free
<1>3. QED
  BY <1>1, <1>2 DEF ReceiverInv, Transactions

LEMMA ReceiverServe ==
  ASSUME ReceiverInv, NEW c \in Slots, Serve(c) \/ Throws(c)
  PROVE  ReceiverInv'
<1>1. CASE DataReceivedOnChannel(c) /\ UNCHANGED persister
  <2>1. ~ Free(c) /\ calls[c].step = "arrived" /\ UNCHANGED <<persister, storage, delivered>>
    BY <1>1 DEF DataReceivedOnChannel, At
  <2>2. calls[c].writes = {}
    BY <2>1, CallFacts DEF Fits
  <2>3. \E step \in {"insert", "ack"} : Step(c, step)
    BY <1>1 DEF DataReceivedOnChannel
  <2>4. QED
    BY <2>1, <2>2, <2>3, StepTaken DEF Steps
<1>2. CASE Persist(c) /\ UNCHANGED persister
  BY <1>2, ReceiverPersist DEF Persist
<1>3. CASE Complete(c) /\ UNCHANGED persister
  BY <1>3, ReceiverComplete
<1>4. CASE Answer(c)
  <2>1. UNCHANGED <<persister, storage, delivered>> /\ calls' = [calls EXCEPT ![c] = None]
    BY <1>4 DEF Answer
  <2>2. ReceiverTypes'
    BY <2>1 DEF ReceiverInv, ReceiverTypes
  <2>3. \A d \in Slots : ~ Free(d)' => ~ Free(d) /\ calls'[d] = calls[d]
    BY <2>1 DEF ReceiverInv, ReceiverTypes, Free
  <2>4. QED
    BY <2>1, <2>2, <2>3, CallsLeft
<1>5. CASE Throws(c)
  BY <1>5, Aborted DEF Throws
<1>6. QED
  BY <1>1, <1>2, <1>3, <1>4, <1>5 DEF Serve, Handle

LEMMA ReceiverNext ==
  ASSUME ReceiverInv, SenderInv, [Next]_vars
  PROVE  ReceiverInv'
<1>1. CASE \E c \in Slots : Serve(c) \/ Throws(c)
  BY <1>1, ReceiverServe
<1>2. ASSUME NEW s \in Senders, Local(s) \/ CommitFails(s) PROVE ReceiverInv'
  <2>1. UNCHANGED <<calls, persister, storage, delivered>>
    BY <1>2 DEF Local, CommitFails
  <2>2. QED
    BY <2>1, CallsLeft DEF ReceiverInv, ReceiverTypes, Free
<1>3. ASSUME NEW s \in Senders, Transmit(s) PROVE ReceiverInv'
  <2>1. hand[s] \in Envelopes
    BY <1>3, EnvelopeFacts DEF Transmit, SenderInv, SenderTypes, Hands
  <2>2. QED
    BY <1>3, <2>1, CallPlaced DEF Transmit, CallTypes
<1>4. ASSUME NEW w \in WebMessages, Post(w) PROVE ReceiverInv'
  BY <1>4, EnvelopeFacts, CallPlaced DEF Post, CallTypes
<1>5. ASSUME NEW s \in Senders, NEW c \in Slots, NoAnswer(s, c) PROVE ReceiverInv'
  <2>1. UNCHANGED <<persister, storage, delivered>> /\ calls[c] \in Calls
    BY <1>5, CallFacts DEF NoAnswer, Waiting
  <2>2. CASE calls' = [calls EXCEPT ![c] = None]
    <3>1. ReceiverTypes'
      BY <2>1, <2>2 DEF ReceiverInv, ReceiverTypes
    <3>2. \A d \in Slots : ~ Free(d)' => ~ Free(d) /\ calls'[d] = calls[d]
      BY <2>2 DEF ReceiverInv, ReceiverTypes, Free
    <3>3. QED
      BY <2>1, <3>1, <3>2, CallsLeft
  <2>3. CASE calls' = [calls EXCEPT ![c].owner = None]
    <3>1. ReceiverTypes'
      BY <2>1, <2>3 DEF ReceiverInv, ReceiverTypes, Calls
    <3>2. \A d \in Slots : ~ Free(d)' =>
            /\ ~ Free(d) /\ calls'[d].envelope = calls[d].envelope
            /\ calls'[d].step = calls[d].step /\ calls'[d].writes = calls[d].writes
            /\ calls'[d].acks = calls[d].acks
      BY <1>5, <2>1, <2>3 DEF ReceiverInv, ReceiverTypes, Free, Calls, NoAnswer, Waiting
    <3>3. QED
      BY <2>1, <3>1, <3>2, CallsLeft
  <2>4. QED
    BY <1>5, <2>2, <2>3 DEF NoAnswer
<1>6. CASE SenderRestarts
  <2>1. ASSUME NEW d \in Slots
        PROVE  /\ calls'[d] \in Calls \cup {None}
               /\ ~ Free(d)' => /\ ~ Free(d) /\ calls'[d].envelope = calls[d].envelope
                                /\ calls'[d].step = calls[d].step
                                /\ calls'[d].writes = calls[d].writes
                                /\ calls'[d].acks = calls[d].acks
    <3>1. CASE Free(d)
      BY <1>6, <3>1 DEF SenderRestarts, Free
    <3>2. CASE ~ Free(d)
      <4>1. calls'[d] = [calls[d] EXCEPT !.owner = None] /\ calls[d] \in Calls
        BY <1>6, <3>2, CallFacts DEF SenderRestarts
      <4>2. QED
        BY <3>2, <4>1 DEF Calls
    <3>3. QED
      BY <3>1, <3>2
  <2>2. UNCHANGED <<persister, storage, delivered>>
    BY <1>6 DEF SenderRestarts
  <2>3. ReceiverTypes'
    BY <1>6, <2>1, <2>2 DEF SenderRestarts, ReceiverInv, ReceiverTypes
  <2>4. QED
    BY <2>1, <2>2, <2>3, CallsLeft
<1>7. ASSUME NEW k, ReceiverRestarts(k) PROVE ReceiverInv'
  <2>1. ASSUME NEW d \in Slots
        PROVE  /\ calls'[d] \in Calls \cup {None}
               /\ ~ Free(d)' =>
                    /\ ~ Free(d) /\ calls'[d].envelope = calls[d].envelope
                    /\ \/ calls'[d] = calls[d]
                       \/ calls'[d].step = "failed" /\ calls'[d].writes = {} /\ calls'[d].acks = 0
    <3>1. CASE calls'[d] = calls[d]
      BY <3>1 DEF ReceiverInv, ReceiverTypes, Free
    <3>2. CASE calls'[d] # calls[d]
      <4>1. ~ Free(d) /\ calls'[d] = [calls[d] EXCEPT !.step = "failed", !.writes = {}, !.acks = 0]
        BY <1>7, <3>2 DEF ReceiverRestarts, Active
      <4>2. calls[d] \in Calls
        BY <4>1, CallFacts
      <4> DEFINE call == [calls[d] EXCEPT !.step = "failed", !.writes = {}, !.acks = 0]
      <4>3. /\ call \in Calls /\ call.step = "failed" /\ call.envelope = calls[d].envelope
            /\ call.writes = {} /\ call.acks = 0
        BY <4>2 DEF Calls, Steps
      <4>4. calls'[d] = call
        BY <4>1
      <4> HIDE DEF call
      <4>5. QED
        BY <4>1, <4>3, <4>4
    <3>3. QED
      BY <3>1, <3>2
  <2>2. UNCHANGED <<persister, delivered>>
    BY <1>7 DEF ReceiverRestarts
  <2>3. storage' \in [Envelopes -> [new : Nat, acked : Nat]]
    BY <1>7 DEF ReceiverRestarts, ReceiverInv, ReceiverTypes
  <2>4. ASSUME persister # "InMemory" PROVE UNCHANGED storage
    <3>1. storage' = [e \in Envelopes |-> storage[e]]
      BY <1>7, <2>4 DEF ReceiverRestarts
    <3>2. storage = [e \in Envelopes |-> storage[e]]
      BY DEF ReceiverInv, ReceiverTypes
    <3>3. QED
      BY <3>1, <3>2
  <2>5. calls' \in [Slots -> Calls \cup {None}]
    BY <1>7, <2>1 DEF ReceiverRestarts
  <2>6. ReceiverTypes'
    BY <2>2, <2>3, <2>5 DEF ReceiverInv, ReceiverTypes
  <2>7. QED
    BY <2>1, <2>2, <2>4, <2>6, CallsLeft
<1>8. CASE UNCHANGED vars
  BY <1>8, CallsLeft DEF vars, ReceiverInv, ReceiverTypes, Free
<1>9. QED
  BY <1>1, <1>2, <1>3, <1>4, <1>5, <1>6, <1>7, <1>8 DEF Next, Send, Serve

-----------------------------------------------------------------------------
(* The sending site.                                                       *)

LEMMA RollbackKeeps ==
  ASSUME SenderTypes, Hands, NEW s \in Senders, pc[s] # "idle", Rollback(s)
  PROVE  SenderTypes' /\ Hands' /\ \A t \in Senders \ {s} : pc'[t] = pc[t]
<1>1. hand[s] \in Queueable /\ failures[hand[s]] < MaxRetries /\ failures[hand[s]] \in Nat
  BY GatewayAssumption DEF Hands, SenderTypes
<1>2. failures[hand[s]] + 1 \in 0..MaxRetries
  BY <1>1, GatewayAssumption
<1>3. SenderTypes'
  BY <1>1, <1>2 DEF SenderTypes, Rollback, Drop, Goto
<1>4. pc' = [pc EXCEPT ![s] = "idle"] /\ hand' = [hand EXCEPT ![s] = None]
      /\ failures' = [failures EXCEPT ![hand[s]] = failures[hand[s]] + 1]
  BY DEF Rollback, Drop, Goto
<1>5. \A t \in Senders \ {s} : pc'[t] = pc[t] /\ hand'[t] = hand[t]
  BY <1>4 DEF SenderTypes
<1>6. pc'[s] = "idle" /\ hand'[s] = None
  BY <1>4 DEF SenderTypes
<1>7. ASSUME NEW t \in Senders, pc'[t] # "idle"
      PROVE  hand'[t] \in Queueable /\ failures'[hand'[t]] < MaxRetries
  <2>1. t # s /\ hand'[t] = hand[t] /\ hand[t] # hand[s] /\ hand[t] \in Queueable
        /\ failures[hand[t]] < MaxRetries
    BY <1>5, <1>6, <1>7 DEF Hands
  <2>2. failures'[hand[t]] = failures[hand[t]]
    BY <2>1, <1>4 DEF SenderTypes
  <2>3. QED
    BY <2>1, <2>2
<1>8. ASSUME NEW t \in Senders, NEW u \in Senders, pc'[t] # "idle", hand'[t] = hand'[u]
      PROVE  t = u
  BY <1>5, <1>6, <1>7, <1>8, EnvelopeFacts DEF Hands
<1>9. QED
  BY <1>3, <1>5, <1>7, <1>8 DEF Hands

LEMMA AdvanceKeeps ==
  ASSUME SenderTypes, Hands, NEW s \in Senders, pc[s] # "idle",
         NEW l \in {"submit", "submitting", "ack", "acking", "forwarded"}, Advance(s, l)
  PROVE  SenderTypes' /\ Hands' /\ \A t \in Senders \ {s} : pc'[t] = pc[t]
<1>1. SenderTypes'
  BY DEF SenderTypes, Advance, Goto
<1>2. \A t \in Senders : pc'[t] = IF t = s THEN l ELSE pc[t]
  BY DEF SenderTypes, Advance, Goto
<1>3. Hands'
  BY <1>2 DEF Hands, Advance
<1>4. QED
  BY <1>1, <1>2, <1>3

(* A commit: the message in hand leaves the queue and its count is cleared.*)
LEMMA CommitKeeps ==
  ASSUME SenderTypes, Hands, NEW s \in Senders, CommitSplit(s) \/ CommitForwarded(s)
  PROVE  SenderTypes' /\ Hands' /\ \A t \in Senders \ {s} : pc'[t] = pc[t]
<1>1. pc[s] # "idle" /\ hand[s] \in Queueable
  BY DEF CommitSplit, CommitForwarded, Hands
<1>2. 0 \in 0..MaxRetries /\ 0 < MaxRetries
  BY GatewayAssumption
<1>3. pc' = [pc EXCEPT ![s] = "idle"] /\ hand' = [hand EXCEPT ![s] = None]
      /\ outgoing' = [outgoing EXCEPT ![s] = {}]
      /\ failures' = [failures EXCEPT ![hand[s]] = 0]
  BY DEF CommitSplit, CommitForwarded, Drop, Goto
<1>4. queue' \subseteq Queueable /\ errors' \subseteq Queueable /\ audit' \subseteq Queueable
  BY <1>1 DEF CommitSplit, CommitForwarded, SenderTypes
<1>5. SenderTypes'
  BY <1>1, <1>2, <1>3, <1>4 DEF SenderTypes
<1>6. \A t \in Senders \ {s} : pc'[t] = pc[t] /\ hand'[t] = hand[t]
  BY <1>3 DEF SenderTypes
<1>7. pc'[s] = "idle" /\ hand'[s] = None
  BY <1>3 DEF SenderTypes
<1>8. ASSUME NEW t \in Senders, pc'[t] # "idle"
      PROVE  hand'[t] \in Queueable /\ failures'[hand'[t]] < MaxRetries
  <2>1. t # s /\ hand'[t] = hand[t] /\ hand[t] # hand[s] /\ hand[t] \in Queueable
        /\ failures[hand[t]] < MaxRetries
    BY <1>6, <1>7, <1>8 DEF Hands
  <2>2. failures'[hand[t]] = failures[hand[t]]
    BY <2>1, <1>3 DEF SenderTypes
  <2>3. QED
    BY <2>1, <2>2
<1>9. ASSUME NEW t \in Senders, NEW u \in Senders, pc'[t] # "idle", hand'[t] = hand'[u]
      PROVE  t = u
  BY <1>6, <1>7, <1>8, <1>9, EnvelopeFacts DEF Hands
<1>10. QED
  BY <1>5, <1>6, <1>8, <1>9 DEF Hands

LEMMA LocalKeeps ==
  ASSUME SenderTypes, Hands, NEW s \in Senders, Local(s) \/ CommitFails(s)
  PROVE  /\ SenderTypes' /\ Hands' /\ \A t \in Senders \ {s} : pc'[t] = pc[t]
         /\ pc[s] \notin {"submitting", "acking"}
<1>0. pc[s] \notin {"submitting", "acking"}
  BY DEF Local, CommitFails, Receive, HandledMaxRetries, Split, NoDestination, OneDestination,
     CommitSplit, CommitForwarded
<1>1. CASE Receive(s)
  <2>1. PICK e \in queue \ InHand :
          failures[e] < MaxRetries /\ hand' = [hand EXCEPT ![s] = e]
    BY <1>1 DEF Receive
  <2>2. /\ pc' = [pc EXCEPT ![s] = "route"] /\ e \in Queueable /\ \A t \in Senders : hand[t] # e
        /\ UNCHANGED <<queue, failures, errors, audit, outgoing>>
    BY <1>1, <2>1 DEF Receive, Goto, InHand, SenderTypes
  <2>3. SenderTypes'
    BY <2>1, <2>2 DEF SenderTypes
  <2>4. \A t \in Senders : /\ pc'[t] = IF t = s THEN "route" ELSE pc[t]
                           /\ hand'[t] = IF t = s THEN e ELSE hand[t]
    BY <2>1, <2>2 DEF SenderTypes
  <2>5. Hands'
    BY <2>1, <2>2, <2>4 DEF Hands
  <2>6. QED
    BY <1>0, <2>3, <2>4, <2>5
<1>2. CASE HandledMaxRetries(s)
  <2>1. PICK e \in queue \ InHand :
          /\ queue' = queue \ {e} /\ errors' = errors \cup {e}
          /\ failures' = [failures EXCEPT ![e] = 0]
    BY <1>2 DEF HandledMaxRetries
  <2>2. UNCHANGED <<audit, pc, hand, outgoing>> /\ e \in Queueable /\ 0 \in 0..MaxRetries
    BY <1>2, <2>1, GatewayAssumption DEF HandledMaxRetries, SenderTypes
  <2>3. SenderTypes'
    BY <2>1, <2>2 DEF SenderTypes
  <2>4. \A t \in Senders : pc[t] # "idle" => failures'[hand[t]] = failures[hand[t]]
    BY <2>1, <2>2 DEF SenderTypes, Hands, InHand
  <2>5. Hands'
    BY <2>2, <2>4 DEF Hands
  <2>6. QED
    BY <1>0, <2>2, <2>3, <2>5
<1>3. CASE Split(s)
  <2>1. PICK found \in SplitOver(hand[s].sites) :
          outgoing' = [outgoing EXCEPT ![s] = {Clone(hand[s].id, k) : k \in found}]
    BY <1>3 DEF Split
  <2>2. hand[s].id \in Messages /\ found \subseteq Keys
    BY <1>3, <2>1, EnvelopeFacts, GatewayAssumption
       DEF Split, Hands, SplitOver, ByPrefix, ByConfiguration
  <2>3. {Clone(hand[s].id, k) : k \in found} \subseteq Queueable
    BY <2>2, EnvelopeFacts
  <2>4. UNCHANGED <<queue, failures, errors, audit, hand>> /\ pc' = [pc EXCEPT ![s] = "split"]
    BY <1>3 DEF Split, Goto
  <2>5. SenderTypes'
    BY <2>1, <2>3, <2>4 DEF SenderTypes
  <2>6. \A t \in Senders : pc'[t] = IF t = s THEN "split" ELSE pc[t]
    BY <2>4 DEF SenderTypes
  <2>7. Hands'
    BY <1>3, <2>4, <2>6 DEF Hands, Split
  <2>8. QED
    BY <1>0, <2>5, <2>6, <2>7
<1>4. CASE NoDestination(s) \/ CommitFails(s)
  BY <1>0, <1>4, RollbackKeeps DEF NoDestination, CommitFails
<1>5. CASE OneDestination(s)
  BY <1>0, <1>5, AdvanceKeeps DEF OneDestination
<1>6. CASE CommitSplit(s) \/ CommitForwarded(s)
  BY <1>0, <1>6, CommitKeeps
<1>7. QED
  BY <1>1, <1>2, <1>3, <1>4, <1>5, <1>6 DEF Local

(* Calls are answered, left or handled; none gets another owner.           *)
LEMMA OwnersKept ==
  ASSUME Owners,
         \A c \in Slots : \/ Free(c)' \/ calls'[c].owner = None
                         \/ /\ ~ Free(c) /\ calls'[c].owner = calls[c].owner
                            /\ pc'[calls[c].owner] = pc[calls[c].owner]
  PROVE  Owners'
<1>1. \A c \in Slots : Free(c)' \/ calls'[c].owner = None
                      \/ pc'[calls'[c].owner] \in {"submitting", "acking"}
  BY DEF Owners
<1>2. \A c, d \in Slots : Free(c)' \/ Free(d)' \/ calls'[c].owner = None
                         \/ calls'[c].owner # calls'[d].owner \/ c = d
  BY DEF Owners
<1>3. QED
  BY <1>1, <1>2 DEF Owners

LEMMA HandledByTheSame ==
  ASSUME ReceiverInv, NEW c \in Slots, Handle(c) \/ Throws(c)
  PROVE  \A d \in Slots : ~ Free(d)' => ~ Free(d) /\ calls'[d].owner = calls[d].owner
<1> DEFINE Changed == \E call : calls' = [calls EXCEPT ![c] = call] /\ call.owner = calls[c].owner
<1>1. ~ Free(c)
  BY DEF Handle, DataReceivedOnChannel, Complete, Throws, Persist, At, InMemoryInsert, InMemoryAck,
     RavenInsert, RavenLoad, RavenSave, SqlExists, SqlInsert, SqlAck, SqlGivesUp,
     MessageReceivedOnChannel
<1>2. calls[c] \in Calls
  BY <1>1, CallFacts
<1>3. ASSUME NEW step, Step(c, step) PROVE Changed
  <2>1. [calls[c] EXCEPT !.step = step].owner = calls[c].owner
    BY <1>2 DEF Calls
  <2>2. QED
    BY <1>3, <2>1 DEF Step
<1>4. ASSUME NEW what, NEW step, Write(c, what, step) PROVE Changed
  <2>1. [calls[c] EXCEPT !.step = step, !.writes = @ \cup {what}].owner = calls[c].owner
    BY <1>2 DEF Calls
  <2>2. QED
    BY <1>4, <2>1 DEF Write
<1>5. ASSUME NEW step, NEW writes, NEW acks, Becomes(c, step, writes, acks) PROVE Changed
  <2>1. [calls[c] EXCEPT !.step = step, !.writes = writes, !.acks = acks].owner = calls[c].owner
    BY <1>2 DEF Calls
  <2>2. QED
    BY <1>5, <2>1 DEF Becomes
<1>6. ASSUME Abort(c) PROVE Changed
  BY <1>6, <1>5 DEF Abort, Becomes
<1>7. Changed
  <2> HIDE DEF Changed
  <2>1. CASE DataReceivedOnChannel(c)
    BY <2>1, <1>3 DEF DataReceivedOnChannel
  <2>2. CASE Complete(c)
    BY <2>2, <1>5 DEF Complete, Becomes
  <2>3. CASE Throws(c)
    BY <2>3, <1>6 DEF Throws
  <2>4. CASE InMemoryInsert(c) \/ InMemoryAck(c) \/ SqlExists(c)
    BY <2>4, <1>3 DEF InMemoryInsert, InMemoryAck, SqlExists
  <2>5. CASE RavenInsert(c) \/ SqlInsert(c) \/ MessageReceivedOnChannel(c)
    BY <2>5, <1>3, <1>4 DEF RavenInsert, SqlInsert, MessageReceivedOnChannel
  <2>6. CASE RavenLoad(c) \/ SqlGivesUp(c)
    BY <2>6, <1>3, <1>6 DEF RavenLoad, SqlGivesUp
  <2>7. CASE RavenSave(c)
    BY <2>7, <1>5, <1>6 DEF RavenSave, Becomes
  <2>8. CASE SqlAck(c)
    BY <2>8, <1>5 DEF SqlAck, Becomes
  <2>9. QED
    BY <2>1, <2>2, <2>3, <2>4, <2>5, <2>6, <2>7, <2>8 DEF Handle, Persist
<1>8. QED
  BY <1>1, <1>7 DEF Free, ReceiverInv, ReceiverTypes

LEMMA SenderInit == Init => SenderInv
<1> SUFFICES ASSUME Init PROVE SenderInv
  OBVIOUS
<1>1. 0 \in 0..MaxRetries
  BY GatewayAssumption
<1>2. SenderTypes
  BY <1>1 DEF Init, SenderTypes, Queueable
<1>3. Hands /\ Owners
  BY DEF Init, Hands, Owners, Free
<1>4. QED
  BY <1>2, <1>3 DEF SenderInv

LEMMA SenderNext ==
  ASSUME ReceiverInv, SenderInv, [Next]_vars
  PROVE  SenderInv'
<1> USE DEF SenderInv
<1>a. ASSUME NEW c \in Slots, ~ Free(c), calls[c].owner # None
      PROVE  calls[c].owner \in Senders /\ pc[calls[c].owner] \in {"submitting", "acking"}
  BY <1>a, CallFacts DEF Calls, Owners
<1>b. ASSUME UNCHANGED senderVars,
             \A d \in Slots :
               ~ Free(d)' => \/ calls'[d].owner = None
                             \/ ~ Free(d) /\ calls'[d].owner = calls[d].owner
      PROVE  SenderInv'
  <2>1. SenderTypes' /\ Hands'
    BY <1>b DEF senderVars, SenderTypes, Hands
  <2>2. Owners'
    BY <1>b, OwnersKept DEF senderVars
  <2>3. QED
    BY <2>1, <2>2
<1>1. ASSUME NEW c \in Slots, Handle(c) \/ Throws(c) PROVE SenderInv'
  <2>1. UNCHANGED senderVars
    BY <1>1 DEF Handle, Throws
  <2>2. QED
    BY <1>1, <1>b, <2>1, HandledByTheSame
<1>2. ASSUME NEW s \in Senders, Local(s) \/ CommitFails(s) PROVE SenderInv'
  <2>1. SenderTypes' /\ Hands' /\ (\A t \in Senders \ {s} : pc'[t] = pc[t])
        /\ pc[s] \notin {"submitting", "acking"}
    BY <1>2, LocalKeeps
  <2>2. UNCHANGED calls
    BY <1>2 DEF Local, CommitFails
  <2>3. Owners'
    BY <1>a, <2>1, <2>2, OwnersKept DEF Free
  <2>4. QED
    BY <2>1, <2>3
<1>3. ASSUME NEW s \in Senders, Transmit(s) PROVE SenderInv'
  <2>1. PICK type \in {"Submit", "Ack"}, l \in {"submitting", "acking"} :
          Advance(s, l) /\ Place(NewCall(hand[s], type, FALSE, s))
    BY <1>3 DEF Transmit
  <2>2. pc[s] \in {"submit", "ack"}
    BY <1>3 DEF Transmit
  <2>3. SenderTypes' /\ Hands' /\ \A t \in Senders \ {s} : pc'[t] = pc[t]
    BY <2>1, <2>2, AdvanceKeeps
  <2>4. pc'[s] = l
    BY <2>1 DEF Advance, Goto, SenderTypes
  <2>5. PICK c \in Slots : Free(c) /\ calls' = [calls EXCEPT ![c] = NewCall(hand[s], type, FALSE, s)]
    BY <2>1, PlaceFacts
  <2>6. NewCall(hand[s], type, FALSE, s).owner = s
    BY DEF NewCall
  <2>7. calls'[c].owner = s /\ \A d \in Slots \ {c} : calls'[d] = calls[d]
    BY <2>5, <2>6 DEF ReceiverInv, ReceiverTypes
  <2>8. \A d \in Slots \ {c} : Free(d) \/ calls[d].owner # s
    BY <1>a, <2>2, EnvelopeFacts
  <2>9. ASSUME NEW d \in Slots, ~ Free(d)', calls'[d].owner # None
        PROVE  /\ pc'[calls'[d].owner] \in {"submitting", "acking"}
               /\ d # c => calls'[d].owner # s
    <3>1. CASE d = c
      BY <2>4, <2>7, <3>1
    <3>2. CASE d # c
      BY <1>a, <2>3, <2>7, <2>8, <2>9, <3>2 DEF Free
    <3>3. QED
      BY <3>1, <3>2
  <2>10. ASSUME NEW d \in Slots, NEW b \in Slots, ~ Free(d)', ~ Free(b)',
                calls'[d].owner # None, calls'[d].owner = calls'[b].owner
         PROVE  d = b
    BY <2>7, <2>9, <2>10 DEF Owners, Free
  <2>11. Owners'
    BY <2>9, <2>10 DEF Owners
  <2>12. QED
    BY <2>3, <2>11
<1>4. ASSUME NEW w \in WebMessages, Post(w) PROVE SenderInv'
  <2>1. UNCHANGED senderVars /\ Place(NewCall(Posted(w), "Submit", TRUE, None))
    BY <1>4 DEF Post
  <2>2. NewCall(Posted(w), "Submit", TRUE, None).owner = None
    BY DEF NewCall
  <2>3. PICK c \in Slots :
          Free(c) /\ calls' = [calls EXCEPT ![c] = NewCall(Posted(w), "Submit", TRUE, None)]
    BY <2>1, PlaceFacts
  <2>4. calls'[c].owner = None /\ \A d \in Slots \ {c} : calls'[d] = calls[d]
    BY <2>2, <2>3 DEF ReceiverInv, ReceiverTypes
  <2>5. ASSUME NEW d \in Slots, ~ Free(d)'
        PROVE  calls'[d].owner = None \/ (~ Free(d) /\ calls'[d].owner = calls[d].owner)
    <3>1. CASE d = c
      BY <2>4, <3>1
    <3>2. CASE d # c
      BY <2>4, <2>5, <3>2 DEF Free
    <3>3. QED
      BY <3>1, <3>2
  <2>6. QED
    BY <1>b, <2>1, <2>5
<1>5. ASSUME NEW c \in Slots, Answer(c) PROVE SenderInv'
  <2> DEFINE s == calls[c].owner
  <2>1. ~ Free(c) /\ calls'[c] = None /\ \A d \in Slots \ {c} : calls'[d] = calls[d]
    BY <1>5 DEF Answer, ReceiverInv, ReceiverTypes
  <2>2. CASE s = None
    BY <1>5, <1>b, <2>1, <2>2 DEF Answer, Free
  <2>3. CASE s # None
    <3>1. s \in Senders /\ pc[s] \in {"submitting", "acking"}
      BY <1>a, <2>1, <2>3
    <3>2. Rollback(s) \/ \E l \in {"ack", "forwarded"} : Advance(s, l)
      BY <1>5, <2>3 DEF Answer
    <3>3. SenderTypes' /\ Hands' /\ \A t \in Senders \ {s} : pc'[t] = pc[t]
      BY <3>1, <3>2, RollbackKeeps, AdvanceKeeps
    <3>4. \A d \in Slots \ {c} : Free(d) \/ calls[d].owner # s
      BY <2>1, <2>3 DEF Owners
    <3>5. ASSUME NEW d \in Slots, ~ Free(d)', calls'[d].owner # None
          PROVE  /\ ~ Free(d) /\ calls'[d].owner = calls[d].owner
                 /\ pc'[calls[d].owner] = pc[calls[d].owner]
      BY <1>a, <2>1, <3>3, <3>4, <3>5 DEF Free
    <3>6. Owners'
      BY <3>5, OwnersKept
    <3>7. QED
      BY <3>3, <3>6
  <2>4. QED
    BY <2>2, <2>3
<1>6. ASSUME NEW s \in Senders, NEW c \in Slots, NoAnswer(s, c) PROVE SenderInv'
  <2>1. ~ Free(c) /\ calls[c].owner = s /\ Rollback(s) /\ calls[c] \in Calls
    BY <1>6, CallFacts DEF NoAnswer, Waiting
  <2>2. /\ Free(c)' \/ calls'[c].owner = None
        /\ \A d \in Slots \ {c} : calls'[d] = calls[d]
    BY <1>6, <2>1 DEF NoAnswer, ReceiverInv, ReceiverTypes, Free, Calls
  <2>3. s # None
    BY EnvelopeFacts
  <2>4. pc[s] # "idle"
    BY <1>a, <2>1, <2>3
  <2>5. SenderTypes' /\ Hands' /\ \A t \in Senders \ {s} : pc'[t] = pc[t]
    BY <2>1, <2>4, RollbackKeeps
  <2>6. \A d \in Slots \ {c} : Free(d) \/ calls[d].owner # s
    BY <2>1, <2>3 DEF Owners
  <2>7. ASSUME NEW d \in Slots, ~ Free(d)', calls'[d].owner # None
        PROVE  /\ ~ Free(d) /\ calls'[d].owner = calls[d].owner
               /\ pc'[calls[d].owner] = pc[calls[d].owner]
    BY <1>a, <2>2, <2>5, <2>6, <2>7 DEF Free
  <2>8. Owners'
    BY <2>7, OwnersKept
  <2>9. QED
    BY <2>5, <2>8
<1>7. CASE SenderRestarts
  <2>1. 0 \in 0..MaxRetries
    BY GatewayAssumption
  <2>2. SenderTypes'
    BY <1>7, <2>1 DEF SenderRestarts, SenderTypes
  <2>3. Hands'
    BY <1>7 DEF SenderRestarts, Hands
  <2>4. ASSUME NEW d \in Slots, ~ Free(d)' PROVE calls'[d].owner = None
    <3>1. calls'[d] = [calls[d] EXCEPT !.owner = None] /\ ~ Free(d)
      BY <1>7, <2>4 DEF SenderRestarts, Free
    <3>2. QED
      BY <3>1, CallFacts DEF Calls
  <2>5. Owners'
    BY <2>4, OwnersKept
  <2>6. QED
    BY <2>2, <2>3, <2>5
<1>8. ASSUME NEW k, ReceiverRestarts(k) PROVE SenderInv'
  <2>1. UNCHANGED senderVars
    BY <1>8 DEF ReceiverRestarts
  <2>2. ASSUME NEW d \in Slots, ~ Free(d)'
        PROVE  ~ Free(d) /\ calls'[d].owner = calls[d].owner
    <3>1. \/ calls'[d] = calls[d]
          \/ /\ calls'[d] = [calls[d] EXCEPT !.step = "failed", !.writes = {}, !.acks = 0]
             /\ ~ Free(d)
      BY <1>8 DEF ReceiverRestarts, Active
    <3>2. QED
      BY <2>2, <3>1, CallFacts DEF Calls, Free
  <2>3. QED
    BY <1>b, <2>1, <2>2
<1>9. CASE UNCHANGED vars
  BY <1>9, <1>b DEF vars, Free
<1>10. QED
  BY <1>1, <1>2, <1>3, <1>4, <1>5, <1>6, <1>7, <1>8, <1>9 DEF Next, Send, Serve

-----------------------------------------------------------------------------
LEMMA HistoryNext ==
  ASSUME ReceiverInv, SenderInv, HistoryTypes, [Next]_vars
  PROVE  HistoryTypes'
<1> USE DEF HistoryTypes
<1>1. disturbances' \in 0..MaxDisturbances
  <2>1. CASE UNCHANGED disturbances
    BY <2>1
  <2>2. CASE Disturb
    BY <2>2, GatewayAssumption DEF Disturb
  <2>3. QED
    BY <2>1, <2>2 DEF Next, vars, Send, Local, CommitFails, NoAnswer, Transmit, Post, Serve, Handle,
       Answer, Throws, SenderRestarts, ReceiverRestarts
<1>2. posts' \in [WebMessages -> 0..MaxPosts]
  <2>1. ASSUME NEW w \in WebMessages, Post(w) PROVE posts' \in [WebMessages -> 0..MaxPosts]
    BY <2>1, GatewayAssumption DEF Post
  <2>2. QED
    BY <2>1 DEF Next, vars, Send, Local, CommitFails, NoAnswer, Transmit, Serve, Handle,
       Answer, Throws, SenderRestarts, ReceiverRestarts
<1>3. \A c \in Slots : ~ Free(c) => calls[c].envelope \in Envelopes
  BY CallFacts DEF Calls
<1>4. thrown' \subseteq Envelopes
  <2>1. ASSUME NEW c \in Slots, Throws(c) PROVE thrown' \subseteq Envelopes
    BY <1>3, <2>1 DEF Throws
  <2>2. QED
    BY <2>1 DEF Next, vars, historyVars, Send, Local, CommitFails, NoAnswer, Transmit, Post, Serve,
       Handle, Answer, SenderRestarts, ReceiverRestarts
<1>5. overlapped' \subseteq Envelopes
  <2>1. ASSUME NEW c \in Slots, Handle(c) PROVE overlapped' \subseteq Envelopes
    BY <1>3, <2>1 DEF Handle, DataReceivedOnChannel, Persist, Complete, At
  <2>2. QED
    BY <2>1 DEF Next, vars, historyVars, Send, Local, CommitFails, NoAnswer, Transmit, Post, Serve,
       Answer, Throws, SenderRestarts, ReceiverRestarts
<1>6. restarted' \subseteq Keys
  <2>1. ASSUME NEW k \in Addresses \cup Configured, ReceiverRestarts(k)
        PROVE  restarted' \subseteq Keys
    BY <2>1, GatewayAssumption DEF ReceiverRestarts
  <2>2. QED
    BY <2>1 DEF Next, vars, historyVars, Send, Local, CommitFails, NoAnswer, Transmit, Post, Serve,
       Handle, Answer, Throws, SenderRestarts
<1>7. QED
  BY <1>1, <1>2, <1>4, <1>5, <1>6

Basics == SenderInv /\ ReceiverInv /\ HistoryTypes

LEMMA BasicsHold == Spec => []Basics
<1>1. Init => Basics
  <2>1. ASSUME Init PROVE HistoryTypes
    BY <2>1, GatewayAssumption DEF Init, HistoryTypes
  <2>2. QED
    BY <2>1, SenderInit, ReceiverInit DEF Basics
<1>2. Basics /\ [Next]_vars => Basics'
  BY SenderNext, ReceiverNext, HistoryNext DEF Basics
<1>3. QED
  BY <1>1, <1>2, PTL DEF Spec

(* Every value has its type: in particular no message fails more often     *)
(* than the transport allows (Rollback after the check of HandledMaxRetries)*)
(* and no transaction acknowledges a record another one has acknowledged   *)
(* or taken away (AckMessage, Complete).                                   *)
THEOREM TypeCorrect == Spec => []TypeOK
<1>1. Basics => TypeOK
  BY DEF Basics, SenderInv, ReceiverInv, SenderTypes, ReceiverTypes, HistoryTypes, TypeOK
<1>2. QED
  BY <1>1, BasicsHold, PTL

-----------------------------------------------------------------------------
(* What has been delivered, and what the records say of it.                *)

(* A persister in a database, for a message whose calls never overlapped:  *)
(* one record, delivered when it is acknowledged.                          *)
Exact(step, writes, acks, record) ==
  LET inserted == IF "insert" \in writes THEN 1 ELSE 0
      nothing == acks = 0 /\ "send" \notin writes
  IN /\ record.new + record.acked + inserted <= 1
     /\ step \in {"insert", "insertRow", "ack", "save"} => nothing
     /\ step \in {"insert", "insertRow"} => inserted = 0
     /\ step = "insertRow" => record.new + record.acked = 0
     /\ step = "save" => record.new + inserted = 1
     /\ step = "raise" => acks = 1 /\ "send" \notin writes
     /\ step = "complete" => nothing \/ (acks = 1 /\ "send" \in writes)

Settled(e) ==
  storage[e].new + storage[e].acked <= 1 /\ delivered[e] = storage[e].acked

Alone(e) ==
  \A c, d \in Slots :
    Active(c) /\ Active(d) /\ calls[c].envelope = e /\ calls[d].envelope = e => c = d

AllExact(e) ==
  \A c \in Slots :
    Active(c) /\ calls[c].envelope = e
      => Exact(calls[c].step, calls[c].writes, calls[c].acks, storage[e])

StoredOnce == \A e \in Envelopes :
  persister # "InMemory" /\ e \notin overlapped => Settled(e) /\ Alone(e) /\ AllExact(e)

(* The list in memory, while it has not been forgotten: one record, and    *)
(* the call that acknowledged it delivers it.                              *)
Carries(c, e) ==
  ~ Free(c) /\ calls[c].envelope = e /\ (calls[c].step = "raise" \/ "send" \in calls[c].writes)

OneCarrier(e) ==
  /\ \A c \in Slots : Carries(c, e) => storage[e].acked = 1 /\ delivered[e] = 0
  /\ \A c, d \in Slots : Carries(c, e) /\ Carries(d, e) => c = d

Kept(e) ==
  /\ storage[e].new + storage[e].acked <= 1
  /\ delivered[e] <= storage[e].acked
  /\ storage[e].acked = delivered[e] \/ e \in thrown \/ \E c \in Slots : Carries(c, e)

Remembered == \A e \in Envelopes :
  persister = "InMemory" /\ e.sites \cap restarted = {} => Kept(e) /\ OneCarrier(e)

LEMMA BecomesForms ==
  ASSUME ReceiverInv, NEW c \in Slots, ~ Free(c)
  PROVE  /\ \A step : Step(c, step) => Becomes(c, step, calls[c].writes, calls[c].acks)
         /\ \A what, step : Write(c, what, step)
              => Becomes(c, step, calls[c].writes \cup {what}, calls[c].acks)
         /\ Abort(c) => Becomes(c, "failed", {}, 0)
<1>0. calls[c] \in Calls
  BY CallFacts
<1>1. ASSUME NEW step, Step(c, step) PROVE Becomes(c, step, calls[c].writes, calls[c].acks)
  <2>1. [calls[c] EXCEPT !.step = step]
          = [calls[c] EXCEPT !.step = step, !.writes = calls[c].writes, !.acks = calls[c].acks]
    BY <1>0 DEF Calls
  <2>2. QED
    BY <1>1, <2>1 DEF Step, Becomes
<1>2. ASSUME NEW what, NEW step, Write(c, what, step)
      PROVE  Becomes(c, step, calls[c].writes \cup {what}, calls[c].acks)
  <2>1. [calls[c] EXCEPT !.step = step, !.writes = calls[c].writes \cup {what}]
          = [calls[c] EXCEPT !.step = step, !.writes = calls[c].writes \cup {what},
                             !.acks = calls[c].acks]
    BY <1>0 DEF Calls
  <2>2. calls' = [calls EXCEPT ![c] = [calls[c] EXCEPT !.step = step,
                                                       !.writes = calls[c].writes \cup {what}]]
    BY <1>2 DEF Write
  <2>3. QED
    BY <2>1, <2>2 DEF Becomes
<1>3. Abort(c) => Becomes(c, "failed", {}, 0)
  BY DEF Abort, Becomes
<1>4. QED
  BY <1>1, <1>2, <1>3

SameCall(d) ==
  /\ calls'[d].type = calls[d].type /\ calls'[d].autoAck = calls[d].autoAck
  /\ calls'[d].owner = calls[d].owner

LEMMA BecomesFacts ==
  ASSUME ReceiverInv, NEW c \in Slots, ~ Free(c),
         NEW step, NEW writes, NEW acks, Becomes(c, step, writes, acks)
  PROVE  /\ calls'[c].envelope = calls[c].envelope /\ calls'[c].step = step
         /\ calls'[c].writes = writes /\ calls'[c].acks = acks /\ SameCall(c)
         /\ \A d \in Slots \ {c} : calls'[d] = calls[d]
<1> DEFINE call == [calls[c] EXCEPT !.step = step, !.writes = writes, !.acks = acks]
<1>1. calls[c] \in Calls
  BY CallFacts
<1>2. /\ call.envelope = calls[c].envelope /\ call.step = step /\ call.writes = writes
      /\ call.acks = acks /\ call.type = calls[c].type /\ call.autoAck = calls[c].autoAck
      /\ call.owner = calls[c].owner
  BY <1>1 DEF Calls
<1>3. calls' = [calls EXCEPT ![c] = call]
  BY DEF Becomes
<1> HIDE DEF call
<1>4. QED
  BY <1>2, <1>3 DEF ReceiverInv, ReceiverTypes, SameCall

(* Nothing happens to the envelope, or calls for it end.                   *)
LEMMA StoredQuietly ==
  ASSUME NEW e \in Envelopes, Settled(e), Alone(e), AllExact(e),
         storage'[e] = storage[e], delivered'[e] = delivered[e],
         \A d \in Slots : Active(d)' /\ calls'[d].envelope = e =>
            /\ Active(d) /\ calls[d].envelope = e /\ calls'[d].step = calls[d].step
            /\ calls'[d].writes = calls[d].writes /\ calls'[d].acks = calls[d].acks
  PROVE  (Settled(e) /\ Alone(e) /\ AllExact(e))'
<1>1. Settled(e)'
  BY DEF Settled
<1>2. Alone(e)'
  BY DEF Alone
<1>3. AllExact(e)'
  BY DEF AllExact
<1>4. QED
  BY <1>1, <1>2, <1>3

(* The only call for the envelope takes a step.                            *)
LEMMA StoredByOne ==
  ASSUME ReceiverInv, NEW e \in Envelopes, NEW c \in Slots, ~ Free(c), calls[c].envelope = e,
         \A d \in Slots \ {c} : ~ (Active(d) /\ calls[d].envelope = e),
         NEW step, NEW writes, NEW acks, Becomes(c, step, writes, acks),
         Settled(e)',
         step \notin {"ok", "failed"} => Exact(step, writes, acks, storage'[e])
  PROVE  (Settled(e) /\ Alone(e) /\ AllExact(e))'
<1>1. /\ calls'[c].step = step /\ calls'[c].writes = writes /\ calls'[c].acks = acks
      /\ \A d \in Slots \ {c} : calls'[d] = calls[d]
  BY BecomesFacts
<1>2. \A d \in Slots : Active(d)' /\ calls'[d].envelope = e => d = c
  BY <1>1 DEF Active, Free
<1>3. Alone(e)'
  BY <1>2 DEF Alone
<1>4. Active(c)' => step \notin {"ok", "failed"}
  BY <1>1 DEF Active
<1>5. AllExact(e)'
  BY <1>1, <1>2, <1>4 DEF AllExact
<1>6. QED
  BY <1>3, <1>5

LEMMA StoredHandle ==
  ASSUME ReceiverInv, NEW e \in Envelopes, Settled(e), Alone(e), AllExact(e),
         persister # "InMemory", NEW c \in Slots, Handle(c), calls[c].envelope = e, e \notin overlapped'
  PROVE  (Settled(e) /\ Alone(e) /\ AllExact(e))'
<1> DEFINE n == storage[e].new
           a == storage[e].acked
           i == Inserted(c)
           w == calls[c].writes
           x == calls[c].acks
<1>0. ~ Free(c)
  BY DEF Handle, DataReceivedOnChannel, Complete, Persist, At, InMemoryInsert, InMemoryAck,
     RavenInsert, RavenLoad, RavenSave, SqlExists, SqlInsert, SqlAck, SqlGivesUp,
     MessageReceivedOnChannel
<1>1. /\ n \in Nat /\ a \in Nat /\ i \in {0, 1} /\ x \in Nat
      /\ i = IF "insert" \in w THEN 1 ELSE 0
      /\ n + a <= 1 /\ delivered[e] = a /\ Fits(calls[c]) /\ storage[e] \in [new : Nat, acked : Nat]
      /\ Records(e) = n + a
  BY <1>0, CallFacts DEF Calls, Settled, Inserted, ReceiverInv, ReceiverTypes, Records
<1>2. \A d \in Slots \ {c} : ~ (Active(d) /\ calls[d].envelope = e)
  <2>1. CASE DataReceivedOnChannel(c)
    BY <2>1 DEF DataReceivedOnChannel, Twins
  <2>2. CASE ~ DataReceivedOnChannel(c)
    <3>1. Active(c)
      BY <1>0, <2>2 DEF Active, Handle, Complete, Persist, At, InMemoryInsert, InMemoryAck,
         RavenInsert, RavenLoad, RavenSave, SqlExists, SqlInsert, SqlAck, SqlGivesUp,
         MessageReceivedOnChannel
    <3>2. QED
      BY <3>1 DEF Alone
  <2>3. QED
    BY <2>1, <2>2
<1>3. ~ Locked(c)
  BY <1>2 DEF Locked, Twins
<1>4. Active(c) => Exact(calls[c].step, w, x, storage[e])
  BY DEF AllExact
<1> HIDE DEF n, a, i, w, x
<1>5. ASSUME UNCHANGED <<storage, delivered>> PROVE Settled(e)'
  BY <1>5 DEF Settled
<1>6. CASE DataReceivedOnChannel(c)
  <2>1. calls[c].step = "arrived" /\ UNCHANGED <<storage, delivered>>
        /\ \E step \in {"insert", "ack"} : Step(c, step)
    BY <1>6 DEF DataReceivedOnChannel, At
  <2>2. PICK step \in {"insert", "ack"} : Becomes(c, step, w, x)
    BY <1>0, <2>1, BecomesForms DEF w, x
  <2>3. w = {} /\ x = 0
    BY <1>1, <2>1 DEF Fits, w, x
  <2>4. Exact(step, w, x, storage[e])
    BY <1>1, <2>2, <2>3 DEF Exact, n, a
  <2>5. QED
    BY <1>0, <1>2, <1>5, <2>1, <2>2, <2>4, StoredByOne
<1>7. CASE Complete(c)
  <2>0. calls[c].step = "complete" /\ Active(c)
    BY <1>7 DEF Complete, At, Active
  <2>1. /\ n + a + i <= 1
        /\ (x = 0 /\ "send" \notin w) \/ (x = 1 /\ "send" \in w)
    BY <1>1, <1>4, <2>0 DEF Exact, n, a
  <2>2. /\ storage' = [storage EXCEPT ![e] = [new |-> n + i - x, acked |-> a + x]]
        /\ delivered' = [delivered EXCEPT ![e] = @ + IF "send" \in w THEN 1 ELSE 0]
        /\ Becomes(c, "ok", {}, 0)
    BY <1>7 DEF Complete, Becomes, n, a, i, w, x
  <2>3. storage'[e].new = n + i - x /\ storage'[e].acked = a + x
    BY <2>2 DEF ReceiverInv, ReceiverTypes
  <2>4. delivered'[e] = a + x
    <3>1. delivered'[e] = delivered[e] + IF "send" \in w THEN 1 ELSE 0
      BY <2>2 DEF ReceiverInv, ReceiverTypes
    <3>2. QED
      BY <1>1, <2>1, <3>1
  <2>5. Settled(e)'
    BY <1>1, <2>1, <2>3, <2>4 DEF Settled
  <2>6. QED
    BY <1>0, <1>2, <2>2, <2>5, StoredByOne
<1>8. CASE Persist(c)
  <2> DEFINE Good(step, writes, acks) ==
        /\ Becomes(c, step, writes, acks)
        /\ step \notin {"ok", "failed"} => Exact(step, writes, acks, storage[e])
  <2>0. Active(c) /\ UNCHANGED <<storage, delivered>>
    BY <1>8 DEF Persist, Active, At, InMemoryInsert, InMemoryAck, RavenInsert, RavenLoad, RavenSave,
       SqlExists, SqlInsert, SqlAck, SqlGivesUp, MessageReceivedOnChannel
  <2>1. Exact(calls[c].step, w, x, storage[e])
    BY <1>4, <2>0
  <2>2. SUFFICES \E step, writes, acks : Good(step, writes, acks)
    BY <1>0, <1>2, <1>5, <2>0, StoredByOne
  <2>3. AfterInsert(c) \in {"ack", "complete"}
    BY DEF AfterInsert
  <2>a. ASSUME Abort(c) PROVE Good("failed", {}, 0)
    BY <1>0, <2>a, BecomesForms
  <2>b. ASSUME NEW step, Step(c, step) PROVE Becomes(c, step, w, x)
    BY <1>0, <2>b, BecomesForms DEF w, x
  <2>c. ASSUME NEW what, NEW step, Write(c, what, step) PROVE Becomes(c, step, w \cup {what}, x)
    BY <1>0, <2>c, BecomesForms DEF w, x
  <2>4. CASE RavenInsert(c)
    <3>1. /\ calls[c].step = "insert"
          /\ \/ Records(e) > 0 /\ Step(c, AfterInsert(c))
             \/ Records(e) = 0 /\ Write(c, "insert", AfterInsert(c))
      BY <1>1, <1>3, <2>4 DEF RavenInsert, At
    <3>2. x = 0 /\ "send" \notin w /\ i = 0 /\ n + a + i <= 1
      BY <1>1, <2>1, <3>1 DEF Exact, n, a
    <3>3. CASE Step(c, AfterInsert(c))
      <4>1. Exact(AfterInsert(c), w, x, storage[e])
        BY <1>1, <2>3, <3>2 DEF Exact, n, a
      <4>2. QED
        BY <2>b, <3>3, <4>1
    <3>4. CASE Records(e) = 0 /\ Write(c, "insert", AfterInsert(c))
      <4>1. Exact(AfterInsert(c), w \cup {"insert"}, x, storage[e])
        BY <1>1, <2>3, <3>2, <3>4 DEF Exact, n, a
      <4>2. QED
        BY <2>c, <3>4, <4>1
    <3>5. QED
      BY <3>1, <3>3, <3>4
  <2>5. CASE RavenLoad(c)
    <3>1. /\ calls[c].step = "ack"
          /\ \/ Abort(c)
             \/ n + a + i > 0 /\ Step(c, IF a > 0 THEN "complete" ELSE "save")
      BY <2>5, <1>1 DEF RavenLoad, At, n, a, i
    <3>2. x = 0 /\ "send" \notin w /\ n + a + i <= 1
      BY <1>1, <2>1, <3>1 DEF Exact, n, a
    <3>3. CASE n + a + i > 0 /\ Step(c, IF a > 0 THEN "complete" ELSE "save")
      <4>1. Exact(IF a > 0 THEN "complete" ELSE "save", w, x, storage[e])
        BY <1>1, <3>2, <3>3 DEF Exact, n, a
      <4>2. QED
        BY <2>b, <3>3, <4>1
    <3>4. QED
      BY <2>a, <3>1, <3>3
  <2>6. CASE RavenSave(c)
    <3>1. calls[c].step = "save" /\ Becomes(c, "raise", w \cup {"ack"}, n + i)
      BY <1>3, <2>6 DEF RavenSave, At, Becomes, n, i, w
    <3>2. n + i = 1 /\ "send" \notin w /\ n + a + i <= 1
      BY <1>1, <2>1, <3>1 DEF Exact, n, a
    <3>3. Exact("raise", w \cup {"ack"}, n + i, storage[e])
      BY <1>1, <3>2 DEF Exact, n, a
    <3>4. QED
      BY <3>1, <3>3
  <2>7. CASE SqlExists(c)
    <3>1. calls[c].step = "insert"
          /\ Step(c, IF Records(e) = 0 THEN "insertRow" ELSE AfterInsert(c))
      BY <2>7 DEF SqlExists, At
    <3>2. x = 0 /\ "send" \notin w /\ i = 0 /\ n + a + i <= 1
      BY <1>1, <2>1, <3>1 DEF Exact, n, a
    <3>3. Exact(IF Records(e) = 0 THEN "insertRow" ELSE AfterInsert(c), w, x, storage[e])
      BY <1>1, <2>3, <3>2 DEF Exact, n, a
    <3>4. QED
      BY <2>b, <3>1, <3>3
  <2>8. CASE SqlInsert(c)
    <3>1. calls[c].step = "insertRow" /\ Write(c, "insert", AfterInsert(c))
      BY <2>8 DEF SqlInsert, At
    <3>2. x = 0 /\ "send" \notin w /\ n + a = 0
      BY <1>1, <2>1, <3>1 DEF Exact, n, a
    <3>3. Exact(AfterInsert(c), w \cup {"insert"}, x, storage[e])
      BY <1>1, <2>3, <3>2 DEF Exact, n, a
    <3>4. QED
      BY <2>c, <3>1, <3>3
  <2>9. CASE SqlAck(c)
    <3> DEFINE step == IF n + i = 1 THEN "raise" ELSE "complete"
               writes == IF n + i = 0 THEN w ELSE w \cup {"ack"}
    <3>1. calls[c].step = "ack" /\ Becomes(c, step, writes, n + i)
      BY <2>9 DEF SqlAck, At, Becomes, n, i, w
    <3>2. "send" \notin w /\ n + a + i <= 1
      BY <1>1, <2>1, <3>1 DEF Exact, n, a
    <3>3. Exact(step, writes, n + i, storage[e])
      <4>1. CASE n + i = 1
        BY <1>1, <3>2, <4>1 DEF Exact, n, a
      <4>2. CASE n + i = 0
        BY <1>1, <3>2, <4>2 DEF Exact, n, a
      <4>3. QED
        BY <1>1, <3>2, <4>1, <4>2
    <3> HIDE DEF step, writes
    <3>4. QED
      BY <3>1, <3>3
  <2>10. CASE SqlGivesUp(c)
    BY <2>a, <2>10 DEF SqlGivesUp
  <2>11. CASE MessageReceivedOnChannel(c)
    <3>1. calls[c].step = "raise" /\ Write(c, "send", "complete")
      BY <2>11 DEF MessageReceivedOnChannel, At
    <3>2. x = 1 /\ n + a + i <= 1
      BY <1>1, <2>1, <3>1 DEF Exact, n, a
    <3>3. Exact("complete", w \cup {"send"}, x, storage[e])
      BY <1>1, <3>2 DEF Exact, n, a
    <3>4. QED
      BY <2>c, <3>1, <3>3
  <2>12. QED
    BY <1>8, <2>4, <2>5, <2>6, <2>7, <2>8, <2>9, <2>10, <2>11
       DEF Persist, InMemoryInsert, InMemoryAck
<1>9. QED
  BY <1>6, <1>7, <1>8 DEF Handle

(* Handling changes what a call has reached and what it will write.        *)
LEMMA HandleBecomes ==
  ASSUME ReceiverInv, NEW c \in Slots, Handle(c)
  PROVE  ~ Free(c) /\ \E step, writes, acks : Becomes(c, step, writes, acks)
<1>0. ~ Free(c)
  BY DEF Handle, DataReceivedOnChannel, Complete, Persist, At, InMemoryInsert, InMemoryAck,
     RavenInsert, RavenLoad, RavenSave, SqlExists, SqlInsert, SqlAck, SqlGivesUp,
     MessageReceivedOnChannel
<1> DEFINE Some == \E step, writes, acks : Becomes(c, step, writes, acks)
<1>1. ASSUME NEW step, Step(c, step) PROVE Some
  BY <1>0, <1>1, BecomesForms
<1>2. ASSUME NEW what, NEW step, Write(c, what, step) PROVE Some
  BY <1>0, <1>2, BecomesForms
<1>3. Abort(c) => Some
  BY <1>0, BecomesForms
<1>4. Complete(c) \/ RavenSave(c) \/ SqlAck(c) => Some
  <2>1. Complete(c) => Becomes(c, "ok", {}, 0)
    BY DEF Complete, Becomes
  <2>2. RavenSave(c) => \/ Abort(c)
                       \/ Becomes(c, "raise", calls[c].writes \cup {"ack"},
                                  storage[calls[c].envelope].new + Inserted(c))
    BY DEF RavenSave, Becomes
  <2> DEFINE rows == storage[calls[c].envelope].new + Inserted(c)
  <2>3. SqlAck(c) => Becomes(c, IF rows = 1 THEN "raise" ELSE "complete",
             IF rows = 0 THEN calls[c].writes ELSE calls[c].writes \cup {"ack"}, rows)
    BY DEF SqlAck, Becomes
  <2>4. QED
    BY <1>3, <2>1, <2>2, <2>3
<1> HIDE DEF Some
<1>5. DataReceivedOnChannel(c) \/ InMemoryInsert(c) \/ InMemoryAck(c) \/ SqlExists(c) => Some
  BY <1>1 DEF DataReceivedOnChannel, InMemoryInsert, InMemoryAck, SqlExists
<1>6. RavenInsert(c) \/ SqlInsert(c) \/ MessageReceivedOnChannel(c) => Some
  BY <1>1, <1>2 DEF RavenInsert, SqlInsert, MessageReceivedOnChannel
<1>7. RavenLoad(c) \/ SqlGivesUp(c) => Some
  BY <1>1, <1>3 DEF RavenLoad, SqlGivesUp
<1>8. Some
  BY <1>4, <1>5, <1>6, <1>7 DEF Handle, Persist
<1>9. QED
  BY <1>0, <1>8 DEF Some

Unmoved(d) ==
  /\ calls'[d].envelope = calls[d].envelope /\ calls'[d].step = calls[d].step
  /\ calls'[d].writes = calls[d].writes /\ calls'[d].acks = calls[d].acks

(* What happens to an envelope when none of its calls is handled.          *)
LEMMA Bystanders ==
  ASSUME ReceiverInv, [Next]_vars, NEW e \in Envelopes,
         \A c \in Slots : ~ (Handle(c) /\ calls[c].envelope = e)
  PROVE  /\ \A d \in Slots : Active(d)' /\ calls'[d].envelope = e => Active(d) /\ Unmoved(d)
         /\ \A d \in Slots : Active(d) /\ calls[d].envelope = e =>
              \/ Active(d)' /\ Unmoved(d)
              \/ e \in thrown' \/ e.sites \cap restarted' # {}
         /\ delivered'[e] = delivered[e]
         /\ \/ storage'[e] = storage[e]
            \/ persister = "InMemory" /\ e.sites \cap restarted' # {}
<1>a. ASSUME UNCHANGED <<storage, delivered>>, NEW c \in Slots, ~ Active(c), ~ Active(c)',
             \A d \in Slots \ {c} : calls'[d] = calls[d]
      PROVE  /\ \A d \in Slots : Active(d)' => Active(d) /\ Unmoved(d)
             /\ \A d \in Slots : Active(d) => Active(d)' /\ Unmoved(d)
  BY <1>a DEF Active, Free, Unmoved
<1>b. ASSUME UNCHANGED <<storage, delivered, calls>>
      PROVE  /\ \A d \in Slots : Active(d)' => Active(d) /\ Unmoved(d)
             /\ \A d \in Slots : Active(d) => Active(d)' /\ Unmoved(d)
  BY <1>b DEF Active, Free, Unmoved
<1>1. ASSUME NEW c \in Slots, Handle(c), calls[c].envelope # e
      PROVE  /\ storage'[e] = storage[e] /\ delivered'[e] = delivered[e]
             /\ calls'[c].envelope # e /\ \A d \in Slots \ {c} : calls'[d] = calls[d]
  <2>0. ~ Free(c)
    BY <1>1 DEF Handle, DataReceivedOnChannel, Complete, Persist, At, InMemoryInsert, InMemoryAck,
       RavenInsert, RavenLoad, RavenSave, SqlExists, SqlInsert, SqlAck, SqlGivesUp,
       MessageReceivedOnChannel
  <2>1. storage'[e] = storage[e] /\ delivered'[e] = delivered[e]
    BY <1>1 DEF Handle, DataReceivedOnChannel, Complete, Persist, InMemoryInsert, InMemoryAck,
       RavenInsert, RavenLoad, RavenSave, SqlExists, SqlInsert, SqlAck, SqlGivesUp,
       MessageReceivedOnChannel, ReceiverInv, ReceiverTypes
  <2>2. \E step, writes, acks : Becomes(c, step, writes, acks)
    BY <1>1, HandleBecomes
  <2>3. QED
    BY <1>1, <2>0, <2>1, <2>2, BecomesFacts
<1>2. CASE \E c \in Slots : Handle(c)
  <2>1. PICK c \in Slots : Handle(c)
    BY <1>2
  <2>2. calls[c].envelope # e
    BY <2>1
  <2>3. QED
    BY <2>1, <2>2, <1>1 DEF Active, Free, Unmoved
<1>3. ASSUME NEW c \in Slots, Throws(c)
      PROVE  /\ UNCHANGED <<storage, delivered>> /\ calls[c].envelope \in thrown'
             /\ ~ Active(c)' /\ \A d \in Slots \ {c} : calls'[d] = calls[d]
  <2>1. Becomes(c, "failed", {}, 0) /\ ~ Free(c)
    BY <1>3, BecomesForms DEF Throws
  <2>2. QED
    BY <1>3, <2>1, BecomesFacts DEF Throws, Active
<1>4. CASE \E c \in Slots : Throws(c)
  BY <1>3, <1>4 DEF Active, Free, Unmoved
<1>5. CASE \E c \in Slots : Answer(c)
  <2>1. PICK c \in Slots : Answer(c)
    BY <1>5
  <2>2. /\ UNCHANGED <<storage, delivered>> /\ ~ Active(c) /\ calls'[c] = None
        /\ \A d \in Slots \ {c} : calls'[d] = calls[d]
    BY <2>1 DEF Answer, Active, ReceiverInv, ReceiverTypes
  <2>3. QED
    BY <1>a, <2>2 DEF Active, Free
<1>6. CASE (\E s \in Senders : Local(s) \/ CommitFails(s)) \/ UNCHANGED vars
  <2>1. UNCHANGED <<storage, delivered, calls>>
    BY <1>6 DEF Local, CommitFails, vars
  <2>2. QED
    BY <1>b, <2>1
<1>7. CASE (\E s \in Senders : Transmit(s)) \/ (\E w \in WebMessages : Post(w))
  <2>1. UNCHANGED <<storage, delivered>>
        /\ \E x, type, autoAck, s : Place(NewCall(x, type, autoAck, s))
    BY <1>7 DEF Transmit, Post
  <2>2. PICK x, type, autoAck, s : Place(NewCall(x, type, autoAck, s))
    BY <2>1
  <2>3. NewCall(x, type, autoAck, s).step = "arrived"
    BY DEF NewCall
  <2>4. PICK c \in Slots : Free(c) /\ calls' = [calls EXCEPT ![c] = NewCall(x, type, autoAck, s)]
    BY <2>2, PlaceFacts
  <2>5. calls'[c].step = "arrived" /\ \A d \in Slots \ {c} : calls'[d] = calls[d]
    BY <2>3, <2>4 DEF ReceiverInv, ReceiverTypes
  <2>6. QED
    BY <1>a, <2>1, <2>4, <2>5 DEF Active
<1>8. CASE \E s \in Senders, c \in Slots : NoAnswer(s, c)
  <2>1. PICK s \in Senders, c \in Slots : NoAnswer(s, c)
    BY <1>8
  <2>2. UNCHANGED <<storage, delivered>> /\ ~ Free(c) /\ calls[c] \in Calls
    BY <2>1, CallFacts DEF NoAnswer, Waiting
  <2>3. CASE calls[c].step = "arrived" /\ calls' = [calls EXCEPT ![c] = None]
    BY <1>a, <2>2, <2>3 DEF Active, Free, ReceiverInv, ReceiverTypes
  <2>4. CASE calls' = [calls EXCEPT ![c].owner = None]
    <3> DEFINE call == [calls[c] EXCEPT !.owner = None]
    <3>1. /\ call \in Calls /\ call.envelope = calls[c].envelope /\ call.step = calls[c].step
          /\ call.writes = calls[c].writes /\ call.acks = calls[c].acks
      BY <2>2 DEF Calls
    <3>2. calls' = [calls EXCEPT ![c] = call]
      BY <2>4
    <3> HIDE DEF call
    <3>3. calls'[c] = call /\ \A d \in Slots \ {c} : calls'[d] = calls[d]
      BY <3>2 DEF ReceiverInv, ReceiverTypes
    <3>4. ~ Free(c)'
      BY <3>1, <3>3, NoCallAssumption DEF Free
    <3>5. QED
      BY <2>2, <3>1, <3>3, <3>4 DEF Active, Free, Unmoved
  <2>5. QED
    BY <2>1, <2>3, <2>4 DEF NoAnswer
<1>9. CASE SenderRestarts
  <2>1. ASSUME NEW d \in Slots, ~ Free(d) PROVE ~ Free(d)' /\ Unmoved(d)
    <3> DEFINE call == [calls[d] EXCEPT !.owner = None]
    <3>1. /\ call \in Calls /\ call.envelope = calls[d].envelope /\ call.step = calls[d].step
          /\ call.writes = calls[d].writes /\ call.acks = calls[d].acks
      BY <2>1, CallFacts DEF Calls
    <3>2. calls'[d] = call
      BY <1>9, <2>1 DEF SenderRestarts
    <3> HIDE DEF call
    <3>3. QED
      BY <3>1, <3>2, NoCallAssumption DEF Free, Unmoved
  <2>2. ASSUME NEW d \in Slots, Free(d) PROVE Free(d)'
    BY <1>9, <2>2 DEF SenderRestarts, Free
  <2>3. UNCHANGED <<storage, delivered>>
    BY <1>9 DEF SenderRestarts
  <2>4. QED
    BY <2>1, <2>2, <2>3 DEF Active, Unmoved
<1>10. CASE \E k \in Addresses \cup Configured : ReceiverRestarts(k)
  <2>1. PICK k \in Addresses \cup Configured : ReceiverRestarts(k)
    BY <1>10
  <2>2. /\ UNCHANGED <<delivered>> /\ k \in restarted'
        /\ storage'[e] = IF persister = "InMemory" /\ k \in e.sites
                           THEN [new |-> 0, acked |-> 0] ELSE storage[e]
    BY <2>1 DEF ReceiverRestarts
  <2>3. ASSUME NEW d \in Slots
        PROVE  \/ calls'[d] = calls[d]
               \/ ~ Active(d)' /\ Active(d) /\ (calls[d].envelope = e => k \in e.sites)
    <3>1. CASE calls'[d] # calls[d]
      <4>1. /\ Active(d) /\ k \in calls[d].envelope.sites
            /\ calls'[d] = [calls[d] EXCEPT !.step = "failed", !.writes = {}, !.acks = 0]
        BY <2>1, <3>1 DEF ReceiverRestarts
      <4>2. [calls[d] EXCEPT !.step = "failed", !.writes = {}, !.acks = 0].step = "failed"
        BY <4>1, CallFacts DEF Active, Calls
      <4>3. QED
        BY <4>1, <4>2 DEF Active
    <3>2. QED
      BY <3>1
  <2>4. QED
    BY <2>2, <2>3 DEF Active, Free, Unmoved
<1>11. QED
  BY <1>2, <1>4, <1>5, <1>6, <1>7, <1>8, <1>9, <1>10 DEF Next, Send, Serve

LEMMA StoredNext ==
  ASSUME Basics, StoredOnce, [Next]_vars
  PROVE  StoredOnce'
<1> USE DEF Basics
<1>1. overlapped \subseteq overlapped' /\ persister' = persister
  BY DEF Next, vars, historyVars, Send, Local, CommitFails, NoAnswer, Transmit, Post, Serve,
     Handle, DataReceivedOnChannel, Persist, Complete, Answer, Throws, SenderRestarts, ReceiverRestarts
<1>2. SUFFICES ASSUME NEW e \in Envelopes, persister # "InMemory", e \notin overlapped'
               PROVE  (Settled(e) /\ Alone(e) /\ AllExact(e))'
  BY <1>1 DEF StoredOnce
<1>3. Settled(e) /\ Alone(e) /\ AllExact(e)
  BY <1>1, <1>2 DEF StoredOnce
<1>4. CASE \E c \in Slots : Handle(c) /\ calls[c].envelope = e
  BY <1>2, <1>3, <1>4, StoredHandle
<1>5. CASE \A c \in Slots : ~ (Handle(c) /\ calls[c].envelope = e)
  <2>1. /\ \A d \in Slots : Active(d)' /\ calls'[d].envelope = e => Active(d) /\ Unmoved(d)
        /\ delivered'[e] = delivered[e] /\ storage'[e] = storage[e]
    BY <1>2, <1>5, Bystanders
  <2>2. \A d \in Slots : Active(d)' /\ calls'[d].envelope = e =>
            /\ Active(d) /\ calls[d].envelope = e /\ calls'[d].step = calls[d].step
            /\ calls'[d].writes = calls[d].writes /\ calls'[d].acks = calls[d].acks
    BY <2>1 DEF Unmoved
  <2>3. QED
    BY <1>3, <2>1, <2>2, StoredQuietly
<1>6. QED
  BY <1>4, <1>5

LEMMA StillACall ==
  ASSUME ReceiverInv, NEW c \in Slots, ~ Free(c), NEW step \in Steps,
         NEW writes \in SUBSET {"insert", "ack", "send"}, NEW acks \in Nat,
         Becomes(c, step, writes, acks)
  PROVE  ~ Free(c)'
<1> DEFINE call == [calls[c] EXCEPT !.step = step, !.writes = writes, !.acks = acks]
<1>1. call \in Calls
  BY CallFacts DEF Calls
<1>2. calls'[c] = call
  BY DEF Becomes, ReceiverInv, ReceiverTypes
<1> HIDE DEF call
<1>3. QED
  BY <1>1, <1>2, NoCallAssumption DEF Free

LEMMA RememberedHandle ==
  ASSUME ReceiverInv, NEW e \in Envelopes, Kept(e), OneCarrier(e), persister = "InMemory",
         NEW c \in Slots, Handle(c), calls[c].envelope = e
  PROVE  (Kept(e) /\ OneCarrier(e))'
<1> DEFINE n == storage[e].new
           a == storage[e].acked
           w == calls[c].writes
           x == calls[c].acks
<1>0. ~ Free(c) /\ thrown' = thrown
  BY DEF Handle, DataReceivedOnChannel, Complete, Persist, At, InMemoryInsert, InMemoryAck,
     RavenInsert, RavenLoad, RavenSave, SqlExists, SqlInsert, SqlAck, SqlGivesUp,
     MessageReceivedOnChannel
<1>1. /\ n \in Nat /\ a \in Nat /\ x = 0 /\ w \subseteq {"send"} /\ Inserted(c) = 0
      /\ w # {} => calls[c].step = "complete"
      /\ storage[e] \in [new : Nat, acked : Nat] /\ delivered[e] \in Nat
      /\ n + a <= 1 /\ delivered[e] <= a /\ Records(e) = n + a
  BY <1>0, CallFacts DEF Calls, Inserted, Fits, ReceiverInv, ReceiverTypes, Kept, Records
<1>2. \A d \in Slots : Carries(d, e) => a = 1 /\ delivered[e] = 0
  BY DEF OneCarrier
<1> HIDE DEF n, a, w, x
<1>a. ASSUME NEW step, NEW writes, NEW acks, Becomes(c, step, writes, acks)
      PROVE  /\ \A d \in Slots \ {c} : Carries(d, e)' <=> Carries(d, e)
             /\ Carries(c, e)' => step = "raise" \/ "send" \in writes
             /\ ~ Free(c)' /\ (step = "raise" \/ "send" \in writes) => Carries(c, e)'
  BY <1>0, <1>a, BecomesFacts DEF Carries, Free
(* The call does not deliver the message, neither before nor after.        *)
<1>b. ASSUME NEW step, NEW writes, NEW acks, Becomes(c, step, writes, acks),
             step # "raise", "send" \notin writes, ~ Carries(c, e),
             delivered'[e] = delivered[e], storage'[e].acked = a, storage'[e].new + a <= 1
      PROVE  (Kept(e) /\ OneCarrier(e))'
  <2>1. \A d \in Slots : Carries(d, e)' <=> Carries(d, e)
    BY <1>a, <1>b
  <2>2. Kept(e)'
    BY <1>0, <1>1, <1>b, <2>1 DEF Kept, a
  <2>3. OneCarrier(e)'
    BY <1>b, <2>1 DEF OneCarrier, a
  <2>4. QED
    BY <2>2, <2>3
<1>3. CASE DataReceivedOnChannel(c)
  <2>1. calls[c].step = "arrived" /\ UNCHANGED <<storage, delivered>>
        /\ \E step \in {"insert", "ack"} : Step(c, step)
    BY <1>3 DEF DataReceivedOnChannel, At
  <2>2. PICK step \in {"insert", "ack"} : Becomes(c, step, w, x)
    BY <1>0, <2>1, BecomesForms DEF w, x
  <2>3. w = {} /\ ~ Carries(c, e)
    BY <1>1, <2>1 DEF Carries, w
  <2>4. QED
    BY <1>1, <1>b, <2>1, <2>2, <2>3 DEF n, a
<1>4. CASE InMemoryInsert(c) /\ UNCHANGED delivered
  <2>1. /\ calls[c].step = "insert" /\ Step(c, AfterInsert(c))
        /\ storage' = [storage EXCEPT ![e].new = IF n + a = 0 THEN 1 ELSE n]
    BY <1>1, <1>4 DEF InMemoryInsert, At, n
  <2>2. Becomes(c, AfterInsert(c), w, x) /\ AfterInsert(c) # "raise"
    BY <1>0, <2>1, BecomesForms DEF w, x, AfterInsert
  <2>3. w = {} /\ ~ Carries(c, e)
    BY <1>1, <2>1 DEF Carries, w
  <2>4. storage'[e].acked = a /\ storage'[e].new = IF n + a = 0 THEN 1 ELSE n
    BY <1>1, <2>1 DEF ReceiverInv, ReceiverTypes, a
  <2>5. storage'[e].new + a <= 1 /\ delivered'[e] = delivered[e]
    BY <1>1, <1>4, <2>4
  <2>6. "send" \notin w
    BY <2>3
  <2>7. QED
    BY <1>b, <2>2, <2>3, <2>4, <2>5, <2>6
<1>5. CASE InMemoryAck(c) /\ UNCHANGED delivered
  <2>1. calls[c].step = "ack" /\ w = {} /\ ~ Carries(c, e)
    BY <1>1, <1>5 DEF InMemoryAck, At, Carries, w
  <2>2. CASE UNCHANGED storage /\ Step(c, "complete")
    <3>1. Becomes(c, "complete", w, x)
      BY <1>0, <2>2, BecomesForms DEF w, x
    <3>2. QED
      BY <1>1, <1>5, <1>b, <2>1, <2>2, <3>1 DEF n, a
  <2>3. CASE n > 0 /\ storage' = [storage EXCEPT ![e] = [new |-> 0, acked |-> 1]] /\ Step(c, "raise")
    <3>1. Becomes(c, "raise", w, x)
      BY <1>0, <2>3, BecomesForms DEF w, x
    <3>2. a = 0 /\ delivered[e] = 0 /\ \A d \in Slots : ~ Carries(d, e)
      BY <1>1, <1>2, <2>3
    <3>3. storage'[e].new = 0 /\ storage'[e].acked = 1 /\ delivered'[e] = 0
      BY <1>5, <2>3, <3>2 DEF ReceiverInv, ReceiverTypes
    <3>4. ~ Free(c)'
      BY <1>0, <1>1, <2>1, <3>1, StillACall DEF Steps
    <3>5. Carries(c, e)' /\ \A d \in Slots \ {c} : ~ Carries(d, e)'
      BY <1>a, <3>1, <3>2, <3>4
    <3>6. Kept(e)' /\ OneCarrier(e)'
      BY <3>3, <3>5 DEF Kept, OneCarrier
    <3>7. QED
      BY <3>6
  <2>4. QED
    BY <1>5, <2>2, <2>3 DEF InMemoryAck, n
<1>6. CASE MessageReceivedOnChannel(c) /\ UNCHANGED <<storage, delivered>>
  <2>1. calls[c].step = "raise" /\ Write(c, "send", "complete")
    BY <1>6 DEF MessageReceivedOnChannel, At
  <2>2. Becomes(c, "complete", w \cup {"send"}, x) /\ Carries(c, e)
    BY <1>0, <2>1, BecomesForms DEF Carries, w, x
  <2>3. ~ Free(c)'
    <3>1. w \cup {"send"} \in SUBSET {"insert", "ack", "send"} /\ x \in Nat
      BY <1>1
    <3>2. QED
      BY <1>0, <2>2, <3>1, StillACall DEF Steps
  <2>4. \A d \in Slots : Carries(d, e)' <=> Carries(d, e)
    BY <1>a, <2>2, <2>3
  <2>5. Kept(e)' /\ OneCarrier(e)'
    BY <1>0, <1>6, <2>4 DEF Kept, OneCarrier
  <2>6. QED
    BY <2>5
<1>7. CASE Complete(c)
  <2>0. calls[c].step = "complete"
    BY <1>7 DEF Complete, At
  <2>1. /\ storage' = [storage EXCEPT ![e] = [new |-> n + 0 - 0, acked |-> a + 0]]
        /\ delivered' = [delivered EXCEPT ![e] = @ + IF "send" \in w THEN 1 ELSE 0]
        /\ Becomes(c, "ok", {}, 0)
    BY <1>1, <1>7 DEF Complete, Becomes, n, a, w, x
  <2>2. storage'[e].new = n /\ storage'[e].acked = a
    BY <1>1, <2>1 DEF ReceiverInv, ReceiverTypes
  <2>3. delivered'[e] = delivered[e] + IF "send" \in w THEN 1 ELSE 0
    BY <2>1 DEF ReceiverInv, ReceiverTypes
  <2>4. CASE "send" \in w
    <3>1. Carries(c, e)
      BY <1>0, <2>4 DEF Carries, w
    <3>2. a = 1 /\ delivered[e] = 0 /\ \A d \in Slots \ {c} : ~ Carries(d, e)
      BY <1>2, <3>1 DEF OneCarrier
    <3>3. \A d \in Slots : ~ Carries(d, e)'
      BY <1>a, <2>1, <3>2
    <3>4. delivered'[e] = 1
      BY <2>3, <2>4, <3>2
    <3>5. Kept(e)' /\ OneCarrier(e)'
      BY <1>1, <2>2, <3>2, <3>3, <3>4 DEF Kept, OneCarrier
    <3>6. QED
      BY <3>5
  <2>5. CASE "send" \notin w
    <3>1. ~ Carries(c, e)
      BY <2>0, <2>5 DEF Carries, w
    <3>2. delivered'[e] = delivered[e] /\ storage'[e].new + a <= 1
      BY <1>1, <2>2, <2>3, <2>5
    <3>3. QED
      BY <1>b, <2>1, <2>2, <3>1, <3>2
  <2>6. QED
    BY <2>4, <2>5
<1>8. CASE Persist(c)
  BY <1>4, <1>5, <1>6, <1>8 DEF Persist, RavenInsert, RavenLoad, RavenSave, SqlExists, SqlInsert, SqlAck,
     SqlGivesUp, MessageReceivedOnChannel
<1>9. QED
  BY <1>3, <1>7, <1>8 DEF Handle

LEMMA RememberedNext ==
  ASSUME Basics, Remembered, [Next]_vars
  PROVE  Remembered'
<1> USE DEF Basics
<1>1. restarted \subseteq restarted' /\ persister' = persister /\ thrown \subseteq thrown'
  BY DEF Next, vars, historyVars, Send, Local, CommitFails, NoAnswer, Transmit, Post, Serve,
     Handle, DataReceivedOnChannel, Persist, Complete, Answer, Throws, SenderRestarts, ReceiverRestarts
<1>2. SUFFICES ASSUME NEW e \in Envelopes, persister = "InMemory", e.sites \cap restarted' = {}
               PROVE  (Kept(e) /\ OneCarrier(e))'
  BY <1>1 DEF Remembered
<1>3. Kept(e) /\ OneCarrier(e)
  BY <1>1, <1>2 DEF Remembered
<1>4. CASE \E c \in Slots : Handle(c) /\ calls[c].envelope = e
  BY <1>2, <1>3, <1>4, RememberedHandle
<1>5. CASE \A c \in Slots : ~ (Handle(c) /\ calls[c].envelope = e)
  <2>1. /\ \A d \in Slots : Active(d)' /\ calls'[d].envelope = e => Active(d) /\ Unmoved(d)
        /\ \A d \in Slots : Active(d) /\ calls[d].envelope = e =>
             \/ Active(d)' /\ Unmoved(d)
             \/ e \in thrown'
        /\ delivered'[e] = delivered[e] /\ storage'[e] = storage[e]
    BY <1>2, <1>5, Bystanders
  <2>2. \A d \in Slots : Carries(d, e) => Active(d)
    BY CallFacts DEF Carries, Active, Fits
  <2>3. ReceiverInv'
    BY ReceiverNext
  <2>4. \A d \in Slots : Carries(d, e)' => Active(d)'
    <3>1. \A d \in Slots : ~ Free(d)' => Fits(calls[d])'
      BY <2>3 DEF ReceiverInv, Transactions
    <3>2. QED
      BY <3>1 DEF Carries, Active, Fits
  <2>5. \A d \in Slots : Carries(d, e)' => Carries(d, e)
    BY <2>1, <2>4 DEF Carries, Unmoved, Active
  <2>6. \A d \in Slots : Carries(d, e) => Carries(d, e)' \/ e \in thrown'
    BY <2>1, <2>2 DEF Carries, Unmoved, Active
  <2>7. Kept(e)'
    BY <1>1, <1>3, <2>1, <2>6 DEF Kept
  <2>8. OneCarrier(e)'
    BY <1>3, <2>1, <2>5 DEF OneCarrier
  <2>9. QED
    BY <2>7, <2>8
<1>6. QED
  BY <1>4, <1>5

Account == Basics /\ StoredOnce /\ Remembered

LEMMA AccountNext == Account /\ [Next]_vars => Account'
<1>1. Basics /\ [Next]_vars => Basics'
  BY SenderNext, ReceiverNext, HistoryNext DEF Basics
<1>2. QED
  BY <1>1, StoredNext, RememberedNext DEF Account

LEMMA AccountInit == Init => Account
<1> SUFFICES ASSUME Init PROVE Account
  OBVIOUS
<1>1. \A e \in Envelopes : storage[e].new = 0 /\ storage[e].acked = 0 /\ delivered[e] = 0
  BY DEF Init
<1>2. \A c \in Slots : Free(c)
  BY DEF Init, Free
<1>3. StoredOnce
  BY <1>1, <1>2 DEF StoredOnce, Settled, Alone, AllExact, Active
<1>4. Remembered
  <2>1. \A e \in Envelopes : Kept(e) /\ OneCarrier(e)
    BY <1>1, <1>2 DEF Kept, OneCarrier, Carries
  <2>2. QED
    BY <2>1 DEF Remembered
<1>5. HistoryTypes
  BY GatewayAssumption DEF Init, HistoryTypes
<1>6. QED
  BY <1>3, <1>4, <1>5, SenderInit, ReceiverInit DEF Account, Basics

LEMMA AccountHolds == Spec => []Account
  BY AccountInit, AccountNext, PTL DEF Spec

(* A message is put in the endpoint's queue once, however often its calls  *)
(* are repeated, lost or answered late, for every number of senders and    *)
(* calls (InsertMessage, AckMessage).                                      *)
THEOREM AtMostOnceCorrect == Spec => []AtMostOnce
<1>1. Account => AtMostOnce
  <2> SUFFICES ASSUME Account, NEW e \in Envelopes, ~ RepeatExcused(e) PROVE ~ (delivered[e] > 1)
    BY DEF AtMostOnce
  <2>1. delivered[e] \in Nat /\ storage[e].new \in Nat /\ storage[e].acked \in Nat
    BY DEF Account, Basics, ReceiverInv, ReceiverTypes
  <2>2. CASE persister = "InMemory"
    BY <2>1, <2>2 DEF Account, Remembered, Kept, RepeatExcused
  <2>3. CASE persister # "InMemory"
    BY <2>1, <2>3 DEF Account, StoredOnce, Settled, RepeatExcused
  <2>4. QED
    BY <2>2, <2>3
<1>2. QED
  BY <1>1, AccountHolds, PTL

(* What is acknowledged was sent and what was sent is acknowledged, also   *)
(* after rollbacks (the TransactionScope of DataReceivedOnChannel).        *)
THEOREM RecordsAgreeCorrect == Spec => []RecordsAgree
<1>1. Account => RecordsAgree
  <2> SUFFICES ASSUME Account, NEW e \in Envelopes, ~ RepeatExcused(e), ~ LossExcused(e),
                      ~ \E c \in Slots : Active(c) /\ calls[c].envelope = e
               PROVE  delivered[e] = storage[e].acked
    BY DEF RecordsAgree
  <2>1. CASE persister = "InMemory"
    <3>1. Kept(e)
      BY <2>1 DEF Account, Remembered, RepeatExcused
    <3>2. \A c \in Slots : ~ Carries(c, e)
      BY CallFacts DEF Account, Basics, Carries, Active, Fits
    <3>3. e \notin thrown
      BY <2>1 DEF LossExcused
    <3>4. QED
      BY <3>1, <3>2, <3>3 DEF Kept
  <2>2. CASE persister # "InMemory"
    BY <2>2 DEF Account, StoredOnce, Settled, RepeatExcused
  <2>3. QED
    BY <2>1, <2>2
<1>2. QED
  BY <1>1, AccountHolds, PTL

-----------------------------------------------------------------------------
(* No destination is forgotten.                                            *)

(* The keys that splitting a message keeps: those of the first router that *)
(* knows any.                                                              *)
Served(sites) ==
  IF ByPrefix(sites) # {} THEN ByPrefix(sites) ELSE ByConfiguration(sites)

(* The keys of a message are known to one router only.                     *)
Unmixed(sites) == ByPrefix(sites) = {} \/ ByConfiguration(sites) = {}

(* What the receiving site has done when it answers Submit, and when it    *)
(* answers Ack.                                                            *)
Held(e) == LossExcused(e) \/ persister = "Raven" \/ Records(e) > 0

Acked(e) ==
  \/ LossExcused(e)
  \/ persister = "InMemory" /\ storage[e].acked > 0
  \/ persister # "InMemory" /\ delivered[e] > 0

Submitting(call) ==
  call.type = "Submit" /\ ~ call.autoAck =>
    /\ call.step \in {"arrived", "insert", "insertRow", "complete", "ok", "failed"}
    /\ call.step = "complete" => "insert" \in call.writes \/ Held(call.envelope)
    /\ call.step = "ok" => Held(call.envelope)

Acking(call) ==
  call.type = "Ack" =>
    /\ Held(call.envelope)
    /\ call.step \in {"arrived", "ack", "save", "raise", "complete", "ok", "failed"}
    /\ call.step = "raise" /\ persister = "InMemory" => Acked(call.envelope)
    /\ call.step = "complete" =>
         Acked(call.envelope) \/ (persister # "InMemory" /\ "send" \in call.writes)
    /\ call.step = "ok" => Acked(call.envelope)

Progress == \A c \in Slots : ~ Free(c) => Submitting(calls[c]) /\ Acking(calls[c])

(* Raven acknowledges a document in the transaction that sends the message.*)
Sends(call) ==
  call.acks > 0 => call.step = "raise" \/ (call.step = "complete" /\ "send" \in call.writes)

RavenSends == persister = "Raven" =>
  /\ \A c \in Slots : ~ Free(c) => Sends(calls[c])
  /\ \A e \in Envelopes : storage[e].acked > 0 => delivered[e] > 0

(* The call a sender waits for is about the message in its hand.           *)
Linked ==
  \A c \in Slots : ~ Free(c) /\ calls[c].owner # None =>
    /\ calls[c].envelope = hand[calls[c].owner] /\ ~ calls[c].autoAck
    /\ calls[c].type = "Submit" => pc[calls[c].owner] = "submitting"
    /\ calls[c].type = "Ack" => pc[calls[c].owner] = "acking"

(* What a sender knows of the message in its hand.                         *)
Knows(s) ==
  /\ pc[s] \in {"ack", "acking"} => Held(hand[s])
  /\ pc[s] = "forwarded" => Acked(hand[s])
  /\ pc[s] = "split" => \A k \in Served(hand[s].sites) :
                          Clone(hand[s].id, k) \in outgoing[s]
  /\ pc[s] \notin {"idle", "route"} => GetDestinationSitesFor(hand[s].sites) # {}

Traced ==
  /\ \A e \in audit : Acked(e)
  /\ \A m \in Messages : \A k \in Served(SitesOf[m]) :
       \E e \in queue \cup errors \cup audit : e.id = m /\ k \in e.sites
  /\ \A m \in Messages :
       GetDestinationSitesFor(SitesOf[m]) = {} => Original(m) \in queue \cup errors

(* The keys the first router returns are no keys of the second.            *)
LEMMA SplitComplete ==
  ASSUME NEW sites, NEW found \in SplitOver(sites)
  PROVE  Served(sites) \subseteq found
<1>1. CASE ByPrefix(sites) = {}
  BY <1>1 DEF SplitOver, Overwritten, Served
<1>2. CASE ByPrefix(sites) # {}
  BY <1>2 DEF SplitOver, Served
<1>3. QED
  BY <1>1, <1>2

(* The copy of a message that lists a key serves it.                       *)
LEMMA ServedByCopy ==
  ASSUME NEW e \in Queueable, NEW k \in e.sites, NEW m \in Messages, e.id = m,
         k \in Served(SitesOf[m])
  PROVE  k \in Served(e.sites)
<1>1. CASE \E n \in Messages : e = Original(n)
  BY <1>1 DEF Original, Envelope
<1>2. CASE \E nl \in Messages \X Keys : e = Clone(nl[1], nl[2])
  <2>1. e.sites = {k}
    BY <1>2 DEF Clone, Envelope
  <2>2. QED
    BY <2>1 DEF Served, ByPrefix, ByConfiguration
<1>3. QED
  BY <1>1, <1>2 DEF Queueable

(* What handling a call does to its envelope is not taken back.            *)
LEMMA HandleWrites ==
  ASSUME ReceiverInv, NEW c \in Slots, Handle(c), NEW e, e = calls[c].envelope
  PROVE  /\ Records(e) > 0 => Records(e)' > 0
         /\ storage[e].acked > 0 => storage'[e].acked > 0
         /\ delivered[e] > 0 => delivered'[e] > 0
<1>0. ~ Free(c)
  BY HandleBecomes
<1>1. /\ e \in Envelopes /\ calls[c].acks \in Nat /\ Inserted(c) \in {0, 1}
      /\ storage[e].new \in Nat /\ storage[e].acked \in Nat /\ delivered[e] \in Nat
      /\ calls[c].acks <= storage[e].new + Inserted(c)
      /\ Records(e) = storage[e].new + storage[e].acked
      /\ Records(e)' = storage'[e].new + storage'[e].acked
  BY <1>0, CallFacts DEF Calls, Covered, ReceiverInv, ReceiverTypes, Records
<1> DEFINE n == storage[e].new
           a == storage[e].acked
           x == calls[c].acks
<1>2. CASE Complete(c)
  <2>1. /\ storage' = [storage EXCEPT ![e] = [new |-> n + Inserted(c) - x, acked |-> a + x]]
        /\ delivered' = [delivered EXCEPT ![e] = @ + IF "send" \in calls[c].writes THEN 1 ELSE 0]
    BY <1>2 DEF Complete
  <2>2. storage'[e].new = n + Inserted(c) - x /\ storage'[e].acked = a + x
    BY <1>1, <2>1 DEF ReceiverInv, ReceiverTypes
  <2>3. delivered'[e] = delivered[e] + IF "send" \in calls[c].writes THEN 1 ELSE 0
    BY <1>1, <2>1 DEF ReceiverInv, ReceiverTypes
  <2> HIDE DEF n, a, x
  <2>4. QED
    BY <1>1, <2>2, <2>3 DEF n, a, x
<1>3. CASE InMemoryInsert(c) /\ UNCHANGED delivered
  <2>1. storage' = [storage EXCEPT ![e].new = IF Records(e) = 0 THEN 1 ELSE @]
    BY <1>3 DEF InMemoryInsert
  <2>2. storage'[e].new = (IF Records(e) = 0 THEN 1 ELSE n) /\ storage'[e].acked = a
    BY <1>1, <2>1 DEF ReceiverInv, ReceiverTypes
  <2>3. QED
    BY <1>1, <1>3, <2>2
<1>4. CASE InMemoryAck(c) /\ UNCHANGED delivered
  <2>1. UNCHANGED storage \/ storage' = [storage EXCEPT ![e] = [new |-> 0, acked |-> 1]]
    BY <1>4 DEF InMemoryAck
  <2>2. storage'[e] = storage[e] \/ (storage'[e].new = 0 /\ storage'[e].acked = 1)
    BY <1>1, <2>1 DEF ReceiverInv, ReceiverTypes
  <2>3. QED
    BY <1>1, <1>4, <2>2
<1>5. CASE UNCHANGED <<storage, delivered>>
  BY <1>5 DEF Records
<1>6. QED
  BY <1>2, <1>3, <1>4, <1>5 DEF Handle, DataReceivedOnChannel, Persist, RavenInsert, RavenLoad,
     RavenSave, SqlExists, SqlInsert, SqlAck, SqlGivesUp, MessageReceivedOnChannel

LEMMA AnswersKept ==
  ASSUME Account, [Next]_vars, NEW e \in Envelopes
  PROVE  (Held(e) => Held(e)') /\ (Acked(e) => Acked(e)')
<1> USE DEF Account, Basics
<1>1. /\ restarted \subseteq restarted' /\ persister' = persister /\ thrown \subseteq thrown'
      /\ overlapped \subseteq overlapped'
  BY DEF Next, vars, historyVars, Send, Local, CommitFails, NoAnswer, Transmit, Post, Serve,
     Handle, DataReceivedOnChannel, Persist, Complete, Answer, Throws, SenderRestarts, ReceiverRestarts
<1>2. LossExcused(e) => LossExcused(e)'
  BY <1>1 DEF LossExcused
<1>3. CASE \E c \in Slots : Handle(c) /\ calls[c].envelope = e
  <2>1. PICK c \in Slots : Handle(c) /\ calls[c].envelope = e
    BY <1>3
  <2>2. QED
    BY <1>1, <1>2, <2>1, HandleWrites DEF Held, Acked
<1>4. CASE \A c \in Slots : ~ (Handle(c) /\ calls[c].envelope = e)
  <2>1. /\ delivered'[e] = delivered[e]
        /\ storage'[e] = storage[e] \/ (persister = "InMemory" /\ e.sites \cap restarted' # {})
    BY <1>4, Bystanders
  <2>2. storage'[e] = storage[e] \/ LossExcused(e)'
    BY <1>1, <2>1 DEF LossExcused
  <2>3. QED
    BY <1>1, <1>2, <2>1, <2>2 DEF Held, Acked, Records
<1>5. QED
  BY <1>3, <1>4

-----------------------------------------------------------------------------
(* A call that was there continues, or a new one arrives.                  *)
Continues(d) ==
  /\ ~ Free(d) /\ calls'[d].envelope = calls[d].envelope
  /\ calls'[d].type = calls[d].type /\ calls'[d].autoAck = calls[d].autoAck
  /\ calls'[d].owner \in {calls[d].owner, None}
  /\ \/ Handle(d) \/ Unmoved(d)
     \/ calls'[d].step = "failed" /\ calls'[d].acks = 0

Arrives(d) ==
  /\ calls'[d].step = "arrived" /\ calls'[d].acks = 0
  /\ \/ calls'[d].type = "Submit" /\ calls'[d].autoAck /\ calls'[d].owner = None
     \/ /\ calls'[d].owner \in Senders /\ Transmit(calls'[d].owner)
        /\ calls'[d].envelope = hand[calls'[d].owner] /\ ~ calls'[d].autoAck
        /\ \/ calls'[d].type = "Submit" /\ pc[calls'[d].owner] = "submit"
           \/ calls'[d].type = "Ack" /\ pc[calls'[d].owner] = "ack"

LEMMA CallsFrame ==
  ASSUME Basics, [Next]_vars, NEW d \in Slots, ~ Free(d)'
  PROVE  Continues(d) \/ Arrives(d)
<1> USE DEF Basics
<1>a. calls'[d] = calls[d] => Continues(d)
  BY DEF Continues, Free, Unmoved
<1>b. ASSUME NEW c \in Slots, NEW call, Free(c), calls' = [calls EXCEPT ![c] = call]
      PROVE  calls'[d] = calls[d] \/ (d = c /\ calls'[d] = call)
  BY <1>b DEF ReceiverInv, ReceiverTypes
<1>1. ASSUME NEW c \in Slots, Handle(c) PROVE Continues(d)
  <2>1. PICK step, writes, acks : Becomes(c, step, writes, acks)
    BY <1>1, HandleBecomes
  <2>2. ~ Free(c)
    BY <1>1, HandleBecomes
  <2>3. /\ SameCall(c) /\ calls'[c].envelope = calls[c].envelope
        /\ \A b \in Slots \ {c} : calls'[b] = calls[b]
    BY <2>1, <2>2, BecomesFacts
  <2>4. QED
    BY <1>1, <1>a, <2>2, <2>3 DEF Continues, SameCall
<1>2. ASSUME NEW c \in Slots, Throws(c) PROVE Continues(d)
  <2>1. Becomes(c, "failed", {}, 0) /\ ~ Free(c)
    BY <1>2, BecomesForms DEF Throws
  <2>2. /\ SameCall(c) /\ calls'[c].envelope = calls[c].envelope /\ calls'[c].step = "failed"
        /\ calls'[c].acks = 0 /\ \A b \in Slots \ {c} : calls'[b] = calls[b]
    BY <2>1, BecomesFacts
  <2>3. QED
    BY <1>a, <2>1, <2>2 DEF Continues, SameCall
<1>3. ASSUME NEW c \in Slots, Answer(c) PROVE Continues(d)
  <2>1. calls' = [calls EXCEPT ![c] = None]
    BY <1>3 DEF Answer
  <2>2. QED
    BY <1>a, <2>1 DEF Free, ReceiverInv, ReceiverTypes
<1>4. CASE (\E s \in Senders : Local(s) \/ CommitFails(s)) \/ UNCHANGED vars
  BY <1>4, <1>a DEF Local, CommitFails, vars
<1>5. ASSUME NEW s \in Senders, Transmit(s) PROVE Continues(d) \/ Arrives(d)
  <2> DEFINE call(type) == NewCall(hand[s], type, FALSE, s)
  <2>1. PICK type \in CallTypes :
          /\ Place(call(type))
          /\ (type = "Submit" /\ pc[s] = "submit") \/ (type = "Ack" /\ pc[s] = "ack")
    BY <1>5 DEF Transmit, CallTypes
  <2>2. /\ call(type).step = "arrived" /\ call(type).acks = 0 /\ call(type).owner = s
        /\ call(type).envelope = hand[s] /\ ~ call(type).autoAck /\ call(type).type = type
    BY DEF NewCall
  <2>3. PICK c \in Slots : Free(c) /\ calls' = [calls EXCEPT ![c] = call(type)]
    BY <2>1, PlaceFacts
  <2> HIDE DEF call
  <2>4. calls'[d] = calls[d] \/ calls'[d] = call(type)
    BY <1>b, <2>3
  <2>5. CASE calls'[d] = call(type)
    BY <1>5, <2>1, <2>2, <2>5 DEF Arrives
  <2>6. QED
    BY <1>a, <2>4, <2>5
<1>6. ASSUME NEW w \in WebMessages, Post(w) PROVE Continues(d) \/ Arrives(d)
  <2> DEFINE call == NewCall(Posted(w), "Submit", TRUE, None)
  <2>1. /\ call.step = "arrived" /\ call.acks = 0 /\ call.owner = None
        /\ call.autoAck /\ call.type = "Submit"
    BY DEF NewCall
  <2>2. PICK c \in Slots : Free(c) /\ calls' = [calls EXCEPT ![c] = call]
    BY <1>6, PlaceFacts DEF Post
  <2> HIDE DEF call
  <2>3. calls'[d] = calls[d] \/ calls'[d] = call
    BY <1>b, <2>2
  <2>4. CASE calls'[d] = call
    BY <2>1, <2>4 DEF Arrives
  <2>5. QED
    BY <1>a, <2>3, <2>4
<1>7. ASSUME NEW s \in Senders, NEW c \in Slots, NoAnswer(s, c) PROVE Continues(d)
  <2>1. ~ Free(c) /\ calls[c] \in Calls
    BY <1>7, CallFacts DEF NoAnswer, Waiting
  <2>2. CASE calls' = [calls EXCEPT ![c] = None]
    BY <1>a, <2>2 DEF Free, ReceiverInv, ReceiverTypes
  <2>3. CASE calls' = [calls EXCEPT ![c].owner = None]
    <3> DEFINE call == [calls[c] EXCEPT !.owner = None]
    <3>1. /\ call.envelope = calls[c].envelope /\ call.step = calls[c].step
          /\ call.writes = calls[c].writes /\ call.acks = calls[c].acks
          /\ call.type = calls[c].type /\ call.autoAck = calls[c].autoAck /\ call.owner = None
      BY <2>1 DEF Calls
    <3>2. calls' = [calls EXCEPT ![c] = call]
      BY <2>3
    <3> HIDE DEF call
    <3>3. calls'[c] = call /\ \A b \in Slots \ {c} : calls'[b] = calls[b]
      BY <3>2 DEF ReceiverInv, ReceiverTypes
    <3>4. QED
      BY <1>a, <2>1, <3>1, <3>3 DEF Continues, Unmoved
  <2>4. QED
    BY <1>7, <2>2, <2>3 DEF NoAnswer
<1>8. CASE SenderRestarts
  <2> DEFINE call == [calls[d] EXCEPT !.owner = None]
  <2>1. ~ Free(d) /\ calls'[d] = call
    BY <1>8 DEF SenderRestarts, Free
  <2>2. /\ call.envelope = calls[d].envelope /\ call.step = calls[d].step
        /\ call.writes = calls[d].writes /\ call.acks = calls[d].acks
        /\ call.type = calls[d].type /\ call.autoAck = calls[d].autoAck /\ call.owner = None
    BY <2>1, CallFacts DEF Calls
  <2> HIDE DEF call
  <2>3. QED
    BY <2>1, <2>2 DEF Continues, Unmoved
<1>9. ASSUME NEW k, ReceiverRestarts(k) PROVE Continues(d)
  <2> DEFINE call == [calls[d] EXCEPT !.step = "failed", !.writes = {}, !.acks = 0]
  <2>1. calls'[d] = calls[d] \/ (~ Free(d) /\ calls'[d] = call)
    BY <1>9 DEF ReceiverRestarts, Active
  <2>2. CASE ~ Free(d) /\ calls'[d] = call
    <3>1. /\ call.envelope = calls[d].envelope /\ call.step = "failed" /\ call.acks = 0
          /\ call.type = calls[d].type /\ call.autoAck = calls[d].autoAck
          /\ call.owner = calls[d].owner
      BY <2>2, CallFacts DEF Calls
    <3> HIDE DEF call
    <3>2. QED
      BY <2>2, <3>1 DEF Continues
  <2>3. QED
    BY <1>a, <2>1, <2>2
<1>10. QED
  BY <1>1, <1>2, <1>3, <1>4, <1>5, <1>6, <1>7, <1>8, <1>9 DEF Next, Send, Serve

(* What a step may be for a sender.                                        *)
Answered(s) ==
  \E c \in Slots : /\ ~ Free(c) /\ calls[c].owner = s /\ calls[c].step = "ok"
                   /\ pc'[s] = IF pc[s] = "submitting" THEN "ack" ELSE "forwarded"
                   /\ hand'[s] = hand[s]

Waits(s) == pc'[s] = pc[s] /\ hand'[s] = hand[s] /\ outgoing'[s] = outgoing[s]

LEMMA SenderFrame ==
  ASSUME Basics, [Next]_vars, NEW s \in Senders
  PROVE  \/ Waits(s) \/ pc'[s] \in {"idle", "route"}
         \/ Split(s) \/ OneDestination(s) \/ Transmit(s) \/ Answered(s)
<1> USE DEF Basics, SenderInv
<1>a. UNCHANGED senderVars => Waits(s)
  BY DEF senderVars, Waits
<1>b. ASSUME NEW t \in Senders, Drop(t) PROVE Waits(s) \/ pc'[s] \in {"idle", "route"}
  BY <1>b DEF Drop, Goto, Waits, SenderTypes
<1>c. ASSUME NEW t \in Senders, NEW l, Advance(t, l)
      PROVE  IF s = t THEN pc'[s] = l /\ hand'[s] = hand[s] ELSE Waits(s)
  BY <1>c DEF Advance, Goto, Waits, SenderTypes
<1>1. ASSUME NEW t \in Senders, Local(t)
      PROVE  Waits(s) \/ pc'[s] \in {"idle", "route"} \/ Split(s) \/ OneDestination(s)
  <2>1. CASE Receive(t)
    BY <2>1 DEF Receive, Goto, Waits, SenderTypes
  <2>2. CASE HandledMaxRetries(t)
    BY <2>2 DEF HandledMaxRetries, Waits
  <2>3. CASE Split(t)
    <3>1. CASE s = t
      BY <2>3, <3>1
    <3>2. CASE s # t
      BY <2>3, <3>2 DEF Split, Goto, Waits, SenderTypes
    <3>3. QED
      BY <3>1, <3>2
  <2>4. CASE OneDestination(t)
    BY <2>4, <1>c DEF OneDestination
  <2>5. CASE NoDestination(t) \/ CommitSplit(t) \/ CommitForwarded(t)
    BY <2>5, <1>b DEF NoDestination, Rollback, CommitSplit, CommitForwarded
  <2>6. QED
    BY <1>1, <2>1, <2>2, <2>3, <2>4, <2>5 DEF Local
<1>2. ASSUME NEW t \in Senders, CommitFails(t) \/ \E c \in Slots : NoAnswer(t, c)
      PROVE  Waits(s) \/ pc'[s] \in {"idle", "route"}
  BY <1>2, <1>b DEF CommitFails, NoAnswer, Rollback
<1>3. ASSUME NEW t \in Senders, Transmit(t) PROVE Waits(s) \/ Transmit(s)
  BY <1>3, <1>c DEF Transmit
<1>4. ASSUME NEW c \in Slots, Answer(c)
      PROVE  Waits(s) \/ pc'[s] \in {"idle", "route"} \/ Answered(s)
  <2> DEFINE t == calls[c].owner
  <2>1. CASE t = None
    BY <1>4, <1>a, <2>1 DEF Answer
  <2>2. CASE t # None
    <3>1. t \in Senders /\ ~ Free(c) /\ calls[c].step \in {"ok", "failed"}
      BY <1>4, <2>2, CallFacts DEF Answer, Calls
    <3>2. \/ Rollback(t)
          \/ /\ calls[c].step # "failed"
             /\ Advance(t, IF pc[t] = "submitting" THEN "ack" ELSE "forwarded")
      BY <1>4, <2>2 DEF Answer
    <3>3. CASE Rollback(t)
      BY <1>b, <3>1, <3>3 DEF Rollback
    <3>4. CASE calls[c].step = "ok"
               /\ Advance(t, IF pc[t] = "submitting" THEN "ack" ELSE "forwarded")
      BY <1>c, <3>1, <3>4 DEF Answered
    <3>5. QED
      BY <3>1, <3>2, <3>3, <3>4
  <2>3. QED
    BY <2>1, <2>2
<1>5. CASE SenderRestarts
  BY <1>5 DEF SenderRestarts
<1>6. ASSUME \/ \E w \in WebMessages : Post(w)
             \/ \E c \in Slots : Handle(c) \/ Throws(c)
             \/ \E k \in Addresses \cup Configured : ReceiverRestarts(k)
             \/ UNCHANGED vars
      PROVE  Waits(s)
  BY <1>6, <1>a DEF Post, Handle, Throws, ReceiverRestarts, vars
<1>7. QED
  BY <1>1, <1>2, <1>3, <1>4, <1>5, <1>6 DEF Next, Send, Serve
-----------------------------------------------------------------------------
(* A call that is handled.                                                 *)

LEMMA SubmitHandled ==
  ASSUME Account, [Next]_vars, NEW c \in Slots, Handle(c), Submitting(calls[c]),
         NEW e, e = calls[c].envelope
  PROVE  Submitting(calls[c])'
<1> USE DEF Account, Basics
<1> DEFINE Good(step, writes) ==
             /\ step \in {"insert", "insertRow", "complete", "ok", "failed"}
             /\ step = "complete" => "insert" \in writes \/ Held(e)'
             /\ step = "ok" => Held(e)'
           Done == \E step, writes, acks : Becomes(c, step, writes, acks) /\ Good(step, writes)
<1>0. ~ Free(c)
  BY HandleBecomes
<1>1. calls'[c].envelope = e /\ SameCall(c)
  BY <1>0, HandleBecomes, BecomesFacts
<1>2. SUFFICES ASSUME calls[c].type = "Submit", ~ calls[c].autoAck PROVE Submitting(calls[c])'
  BY <1>1 DEF Submitting, SameCall
<1>3. SUFFICES Done
  BY <1>0, <1>1, BecomesFacts DEF Submitting
<1>4. /\ calls[c].step \in {"arrived", "insert", "insertRow", "complete", "ok", "failed"}
      /\ calls[c].step = "complete" => "insert" \in calls[c].writes \/ Held(e)
      /\ AfterInsert(c) = "complete"
  BY <1>2 DEF Submitting, AfterInsert
<1>5. e \in Envelopes /\ (Held(e) => Held(e)') /\ persister' = persister
  BY <1>0, CallFacts, AnswersKept DEF Calls, Handle
<1>a. Abort(c) => Done
  BY <1>0, BecomesForms
<1>b. ASSUME NEW step, Step(c, step), Good(step, calls[c].writes) PROVE Done
  BY <1>0, <1>b, BecomesForms
<1>c. ASSUME NEW step, NEW what, Write(c, what, step), Good(step, calls[c].writes \cup {what})
      PROVE  Done
  BY <1>0, <1>c, BecomesForms
<1>d. Records(e)' > 0 => Held(e)'
  BY DEF Held
<1> HIDE DEF Done
<1>6. CASE DataReceivedOnChannel(c)
  BY <1>2, <1>6, <1>b DEF DataReceivedOnChannel
<1>7. CASE InMemoryInsert(c)
  <2>1. /\ Step(c, "complete")
        /\ storage' = [storage EXCEPT ![e].new = IF Records(e) = 0 THEN 1 ELSE @]
    BY <1>4, <1>7 DEF InMemoryInsert
  <2>2. storage[e].new \in Nat /\ storage[e].acked \in Nat
    BY <1>0, CallFacts
  <2>3. storage'[e].new = (IF Records(e) = 0 THEN 1 ELSE storage[e].new)
        /\ storage'[e].acked = storage[e].acked
    BY <1>5, <2>1, <2>2 DEF ReceiverInv, ReceiverTypes
  <2>4. Records(e)' > 0
    <3>1. Records(e)' = storage'[e].new + storage'[e].acked
      BY <1>1 DEF Records
    <3>2. QED
      BY <2>2, <2>3, <3>1 DEF Records
  <2>5. QED
    BY <1>b, <1>d, <2>1, <2>4
<1>8. CASE RavenInsert(c)
  <2>1. Held(e)'
    BY <1>5, <1>8 DEF RavenInsert, Held
  <2>2. QED
    BY <1>4, <1>8, <1>b, <1>c, <2>1 DEF RavenInsert
<1>9. CASE SqlExists(c) /\ UNCHANGED storage
  <2>1. CASE Records(e) = 0
    BY <1>9, <1>b, <2>1 DEF SqlExists
  <2>2. CASE Records(e) # 0
    <3>1. Held(e)
      <4>1. Records(e) \in Nat
        BY <1>0, CallFacts DEF Records
      <4>2. QED
        BY <2>2, <4>1 DEF Held
    <3>2. Step(c, "complete")
      BY <1>4, <1>9, <2>2 DEF SqlExists
    <3>3. QED
      BY <1>5, <1>b, <3>1, <3>2
  <2>3. QED
    BY <2>1, <2>2
<1>10. CASE SqlInsert(c)
  BY <1>4, <1>10, <1>c DEF SqlInsert
<1>11. CASE SqlGivesUp(c)
  BY <1>11, <1>a DEF SqlGivesUp
<1>12. CASE Complete(c)
  <2>1. calls[c].step = "complete" /\ Becomes(c, "ok", {}, 0)
    BY <1>12 DEF Complete, At, Becomes
  <2>2. CASE "insert" \in calls[c].writes
    <3> DEFINE x == calls[c].acks
               n == storage[e].new
               a == storage[e].acked
    <3>1. n \in Nat /\ a \in Nat /\ x \in Nat /\ Inserted(c) = 1 /\ x <= n + 1
      BY <1>0, <2>2, CallFacts DEF Calls, Covered, Inserted
    <3>2. storage' = [storage EXCEPT ![e] = [new |-> n + Inserted(c) - x, acked |-> a + x]]
      BY <1>12 DEF Complete
    <3>3. storage'[e].new = n + Inserted(c) - x /\ storage'[e].acked = a + x
      BY <1>5, <3>2 DEF ReceiverInv, ReceiverTypes
    <3>4. Records(e)' = storage'[e].new + storage'[e].acked
      BY <1>1 DEF Records
    <3> HIDE DEF n, a, x
    <3>5. Records(e)' > 0
      BY <3>1, <3>3, <3>4
    <3>6. QED
      BY <1>d, <2>1, <3>5 DEF Done
  <2>3. CASE Held(e)
    BY <1>5, <2>1, <2>3 DEF Done
  <2>4. QED
    BY <1>4, <2>1, <2>2, <2>3
<1>13. QED
  BY <1>4, <1>6, <1>7, <1>8, <1>9, <1>10, <1>11, <1>12
     DEF Handle, Persist, At, InMemoryAck, RavenLoad, RavenSave, SqlExists, SqlAck, SqlGivesUp,
     MessageReceivedOnChannel

LEMMA AckHandled ==
  ASSUME Account, RavenSends, [Next]_vars, NEW c \in Slots, Handle(c), Acking(calls[c]),
         NEW e, e = calls[c].envelope
  PROVE  Acking(calls[c])'
<1> USE DEF Account, Basics
<1> DEFINE Good(step, writes) ==
             /\ step \in {"ack", "save", "raise", "complete", "ok", "failed"}
             /\ step = "raise" /\ persister = "InMemory" => Acked(e)'
             /\ step = "complete" => Acked(e)' \/ (persister # "InMemory" /\ "send" \in writes)
             /\ step = "ok" => Acked(e)'
           Done == \E step, writes, acks : Becomes(c, step, writes, acks) /\ Good(step, writes)
<1>0. ~ Free(c) /\ persister' = persister
  BY HandleBecomes DEF Handle
<1>1. calls'[c].envelope = e /\ SameCall(c)
  BY <1>0, HandleBecomes, BecomesFacts
<1>2. SUFFICES ASSUME calls[c].type = "Ack" PROVE Acking(calls[c])'
  BY <1>1 DEF Acking, SameCall
<1>5. e \in Envelopes /\ (Held(e) => Held(e)') /\ (Acked(e) => Acked(e)')
  BY <1>0, CallFacts, AnswersKept DEF Calls
<1>4. /\ calls[c].step \in {"arrived", "ack", "save", "raise", "complete", "ok", "failed"}
      /\ calls[c].step = "raise" /\ persister = "InMemory" => Acked(e)
      /\ calls[c].step = "complete" =>
           Acked(e) \/ (persister # "InMemory" /\ "send" \in calls[c].writes)
      /\ Held(e)
  BY <1>2 DEF Acking
<1>3. SUFFICES Done
  BY <1>0, <1>1, <1>4, <1>5, BecomesFacts DEF Acking
<1>6. /\ storage[e].new \in Nat /\ storage[e].acked \in Nat /\ delivered[e] \in Nat
      /\ Records(e) = storage[e].new + storage[e].acked
      /\ Inserted(c) \in {0, 1} /\ Inserted(c) = IF "insert" \in calls[c].writes THEN 1 ELSE 0
  BY <1>0, <1>5, CallFacts DEF ReceiverInv, ReceiverTypes, Records, Inserts
<1>a. Abort(c) => Done
  BY <1>0, BecomesForms
<1>b. ASSUME NEW step, Step(c, step), Good(step, calls[c].writes) PROVE Done
  BY <1>0, <1>b, BecomesForms
<1>c. ASSUME NEW step, NEW what, Write(c, what, step), Good(step, calls[c].writes \cup {what})
      PROVE  Done
  BY <1>0, <1>c, BecomesForms
<1> HIDE DEF Done
<1>7. CASE DataReceivedOnChannel(c)
  BY <1>2, <1>7, <1>b DEF DataReceivedOnChannel
<1>8. CASE InMemoryAck(c)
  <2>1. CASE storage[e].new = 0 /\ UNCHANGED storage /\ Step(c, "complete")
    <3>1. Acked(e)
      BY <1>4, <1>6, <1>8, <2>1 DEF InMemoryAck, Held, Acked
    <3>2. QED
      BY <1>5, <1>b, <2>1, <3>1
  <2>2. CASE storage' = [storage EXCEPT ![e] = [new |-> 0, acked |-> 1]] /\ Step(c, "raise")
    <3>1. storage'[e].acked = 1
      BY <1>5, <2>2 DEF ReceiverInv, ReceiverTypes
    <3>2. Acked(e)'
      BY <1>0, <1>8, <1>1, <3>1 DEF InMemoryAck, Acked
    <3>3. QED
      BY <1>b, <2>2, <3>2
  <2>3. QED
    BY <1>8, <2>1, <2>2 DEF InMemoryAck
<1>9. CASE RavenLoad(c)
  <2>1. CASE storage[e].acked > 0 /\ Step(c, "complete")
    <3>1. Acked(e)
      BY <1>5, <1>9, <2>1 DEF RavenLoad, RavenSends, Acked
    <3>2. QED
      BY <1>5, <1>b, <2>1, <3>1
  <2>2. CASE Step(c, "save")
    BY <1>b, <2>2
  <2>3. QED
    BY <1>9, <1>a, <2>1, <2>2 DEF RavenLoad
<1>10. CASE RavenSave(c)
  <2>1. CASE ~ Abort(c)
    <3>1. Becomes(c, "raise", calls[c].writes \cup {"ack"},
                  storage[calls[c].envelope].new + Inserted(c))
      BY <1>10, <2>1 DEF RavenSave, Becomes
    <3>2. persister # "InMemory"
      BY <1>10 DEF RavenSave
    <3>3. QED
      BY <3>1, <3>2 DEF Done
  <2>2. QED
    BY <1>a, <2>1
<1>11. CASE SqlAck(c)
  <2> DEFINE rows == storage[e].new + Inserted(c)
             step == IF rows = 1 THEN "raise" ELSE "complete"
             writes == IF rows = 0 THEN calls[c].writes ELSE calls[c].writes \cup {"ack"}
  <2>1. Becomes(c, step, writes, rows) /\ persister = "Sql" /\ Active(c)
    BY <1>0, <1>11 DEF SqlAck, Becomes, At, Active
  <2>2. rows # 1 => Acked(e)
    <3>1. SUFFICES ASSUME rows # 1, ~ LossExcused(e) PROVE delivered[e] > 0
      BY <2>1 DEF Acked
    <3>2. e \notin overlapped
      BY <2>1, <3>1 DEF LossExcused
    <3>3. Settled(e) /\ Exact(calls[c].step, calls[c].writes, calls[c].acks, storage[e])
      BY <1>5, <2>1, <3>2 DEF StoredOnce, AllExact
    <3>4. storage[e].new + storage[e].acked + Inserted(c) <= 1
      BY <1>6, <3>3 DEF Exact
    <3>5. Records(e) > 0
      BY <1>4, <2>1, <3>1 DEF Held
    <3>6. storage[e].acked > 0
      BY <1>6, <3>1, <3>4, <3>5
    <3>7. QED
      BY <3>3, <3>6 DEF Settled
  <2>3. Good(step, writes)
    BY <1>5, <2>1, <2>2
  <2> HIDE DEF step, writes, rows
  <2>4. QED
    BY <2>1, <2>3 DEF Done
<1>12. CASE SqlGivesUp(c)
  BY <1>12, <1>a DEF SqlGivesUp
<1>13. CASE MessageReceivedOnChannel(c)
  <2>1. calls[c].step = "raise" /\ Write(c, "send", "complete")
    BY <1>13 DEF MessageReceivedOnChannel, At
  <2>2. Acked(e)' \/ persister # "InMemory"
    BY <1>4, <1>5, <2>1
  <2>3. QED
    BY <1>c, <2>1, <2>2
<1>14. CASE Complete(c)
  <2>1. calls[c].step = "complete" /\ Becomes(c, "ok", {}, 0)
    BY <1>14 DEF Complete, At, Becomes
  <2>2. Acked(e)'
    <3>1. CASE Acked(e)
      BY <1>5, <3>1
    <3>2. CASE persister # "InMemory" /\ "send" \in calls[c].writes
      <4>1. delivered' = [delivered EXCEPT ![e] = @ + 1]
        BY <1>14, <3>2 DEF Complete
      <4>2. delivered'[e] = delivered[e] + 1
        BY <1>5, <4>1 DEF ReceiverInv, ReceiverTypes
      <4>3. QED
        BY <1>0, <1>1, <1>6, <3>2, <4>2 DEF Acked
    <3>3. QED
      BY <1>4, <2>1, <3>1, <3>2
  <2>3. QED
    BY <2>1, <2>2 DEF Done
<1>15. QED
  BY <1>4, <1>7, <1>8, <1>9, <1>10, <1>11, <1>12, <1>13, <1>14
     DEF Handle, Persist, At, InMemoryInsert, RavenInsert, SqlExists, SqlInsert, SqlGivesUp
LEMMA RavenHandled ==
  ASSUME ReceiverInv, persister = "Raven", NEW c \in Slots, Handle(c), Sends(calls[c])
  PROVE  Sends(calls[c])'
<1> DEFINE Good(step, writes, acks) ==
             acks > 0 => step = "raise" \/ (step = "complete" /\ "send" \in writes)
           Done == \E step, writes, acks : Becomes(c, step, writes, acks) /\ Good(step, writes, acks)
<1>0. ~ Free(c) /\ calls[c].acks \in Nat
  BY HandleBecomes, CallFacts DEF Calls
<1>1. SUFFICES Done
  BY <1>0, BecomesFacts DEF Sends
<1>a. Abort(c) => Done
  BY <1>0, BecomesForms
<1>b. ASSUME NEW step, Step(c, step), calls[c].acks = 0 PROVE Done
  BY <1>0, <1>b, BecomesForms
<1>c. ASSUME NEW step, NEW what, Write(c, what, step),
             calls[c].acks = 0 \/ (step = "complete" /\ what = "send")
      PROVE  Done
  <2>1. Becomes(c, step, calls[c].writes \cup {what}, calls[c].acks)
    BY <1>0, <1>c, BecomesForms
  <2>2. Good(step, calls[c].writes \cup {what}, calls[c].acks)
    BY <1>c
  <2> HIDE DEF Good
  <2>3. QED
    BY <2>1, <2>2
<1> HIDE DEF Done
<1>2. CASE DataReceivedOnChannel(c)
  <2>1. calls[c].acks = 0
    BY <1>0, <1>2, CallFacts DEF DataReceivedOnChannel, At, Fits
  <2>2. QED
    BY <1>2, <1>b, <2>1 DEF DataReceivedOnChannel
<1>3. CASE RavenInsert(c) \/ RavenLoad(c)
  <2>1. calls[c].acks = 0
    BY <1>0, <1>3 DEF RavenInsert, RavenLoad, At, Sends
  <2>2. QED
    BY <1>3, <1>a, <1>b, <1>c, <2>1 DEF RavenInsert, RavenLoad
<1>4. CASE RavenSave(c)
  <2>1. CASE ~ Abort(c)
    <3>1. Becomes(c, "raise", calls[c].writes \cup {"ack"},
                  storage[calls[c].envelope].new + Inserted(c))
      BY <1>4, <2>1 DEF RavenSave, Becomes
    <3>2. QED
      BY <3>1 DEF Done
  <2>2. QED
    BY <1>a, <2>1
<1>5. CASE MessageReceivedOnChannel(c)
  BY <1>5, <1>c DEF MessageReceivedOnChannel
<1>6. CASE Complete(c)
  <2>1. Becomes(c, "ok", {}, 0)
    BY <1>6 DEF Complete, Becomes
  <2>2. QED
    BY <2>1 DEF Done
<1>7. QED
  BY <1>2, <1>3, <1>4, <1>5, <1>6
     DEF Handle, Persist, InMemoryInsert, InMemoryAck, SqlExists, SqlInsert, SqlAck, SqlGivesUp

LEMMA RavenNext ==
  ASSUME Account, RavenSends, [Next]_vars
  PROVE  RavenSends'
<1> USE DEF Account, Basics
<1>0. persister' = persister
  BY DEF Next, vars, Send, Local, CommitFails, NoAnswer, Transmit, Post, Serve, Handle, Answer,
     Throws, SenderRestarts, ReceiverRestarts
<1>1. SUFFICES ASSUME persister = "Raven"
               PROVE  /\ \A c \in Slots : ~ Free(c)' => Sends(calls[c])'
                      /\ \A e \in Envelopes : storage'[e].acked > 0 => delivered'[e] > 0
  BY <1>0 DEF RavenSends
<1>2. ASSUME NEW c \in Slots, ~ Free(c)' PROVE Sends(calls[c])'
  <2>1. CASE Continues(c)
    <3>1. Sends(calls[c])
      BY <1>1, <2>1 DEF RavenSends, Continues
    <3>2. CASE Handle(c)
      BY <1>1, <3>1, <3>2, RavenHandled
    <3>3. CASE Unmoved(c) \/ calls'[c].acks = 0
      BY <3>1, <3>3 DEF Sends, Unmoved
    <3>4. QED
      BY <2>1, <3>2, <3>3 DEF Continues
  <2>2. CASE Arrives(c)
    BY <2>2 DEF Arrives, Sends
  <2>3. QED
    BY <1>2, <2>1, <2>2, CallsFrame
<1>3. ASSUME NEW e \in Envelopes, storage'[e].acked > 0 PROVE delivered'[e] > 0
  <2>1. CASE \E c \in Slots : Handle(c) /\ calls[c].envelope = e
    <3>1. PICK c \in Slots : Handle(c) /\ calls[c].envelope = e
      BY <2>1
    <3>2. ~ Free(c)
      BY <3>1, HandleBecomes
    <3>3. CASE storage[e].acked > 0
      BY <1>1, <3>1, <3>3, HandleWrites DEF RavenSends
    <3>4. CASE ~ (storage[e].acked > 0)
      <4>1. storage[e].acked \in Nat /\ calls[c].acks \in Nat /\ delivered[e] \in Nat
        BY <3>1, <3>2, CallFacts DEF Calls, ReceiverInv, ReceiverTypes
      <4>2. Complete(c)
        BY <1>1, <1>3, <3>1, <3>4 DEF Handle, DataReceivedOnChannel, Persist, InMemoryInsert,
           InMemoryAck, RavenInsert, RavenLoad, RavenSave, SqlExists, SqlInsert, SqlAck, SqlGivesUp,
           MessageReceivedOnChannel
      <4>3. storage' = [storage EXCEPT ![e] = [new |-> storage[e].new + Inserted(c) - calls[c].acks,
                                               acked |-> storage[e].acked + calls[c].acks]]
        BY <3>1, <4>2 DEF Complete
      <4>4. storage'[e].acked = storage[e].acked + calls[c].acks
        BY <4>3 DEF ReceiverInv, ReceiverTypes
      <4>5. calls[c].acks > 0
        BY <1>3, <3>4, <4>1, <4>4
      <4>6. "send" \in calls[c].writes
        BY <1>1, <3>2, <4>2, <4>5 DEF RavenSends, Sends, Complete, At
      <4>7. delivered'[e] = delivered[e] + 1
        BY <3>1, <4>2, <4>6 DEF Complete, ReceiverInv, ReceiverTypes
      <4>8. QED
        BY <4>1, <4>7
    <3>5. QED
      BY <3>3, <3>4
  <2>2. CASE \A c \in Slots : ~ (Handle(c) /\ calls[c].envelope = e)
    <3>1. delivered'[e] = delivered[e] /\ storage'[e] = storage[e]
      BY <1>1, <2>2, Bystanders
    <3>2. QED
      BY <1>1, <1>3, <3>1 DEF RavenSends
  <2>3. QED
    BY <2>1, <2>2
<1>4. QED
  BY <1>2, <1>3

-----------------------------------------------------------------------------
(* The sender and its call.                                                *)

LEMMA EnvelopeInHand ==
  ASSUME Basics, NEW s \in Senders, pc[s] # "idle"
  PROVE  hand[s] \in Queueable /\ hand[s] \in Envelopes
  BY EnvelopeFacts DEF Basics, SenderInv, Hands

LEMMA ProgressNext ==
  ASSUME Account, RavenSends, Progress, [Next]_vars, \A s \in Senders : Knows(s)
  PROVE  Progress'
<1> USE DEF Account, Basics
<1>1. ASSUME NEW c \in Slots, ~ Free(c)' PROVE Submitting(calls[c])' /\ Acking(calls[c])'
  <2>1. CASE Continues(c)
    <3>1. Submitting(calls[c]) /\ Acking(calls[c])
      BY <2>1 DEF Progress, Continues
    <3>2. CASE Handle(c)
      BY <3>1, <3>2, SubmitHandled, AckHandled
    <3>3. PICK e \in Envelopes : e = calls[c].envelope
      BY <2>1, CallFacts DEF Calls, Continues
    <3>4. (Held(e) => Held(e)') /\ (Acked(e) => Acked(e)')
      BY <3>3, AnswersKept
    <3>5. calls'[c].envelope = e /\ calls[c].envelope = e /\ persister' = persister
      BY <2>1, <3>3 DEF Continues, Next, vars, Send, Local, CommitFails, NoAnswer, Transmit, Post, Serve,
         Handle, Answer, Throws, SenderRestarts, ReceiverRestarts
    <3>6. CASE Unmoved(c) \/ calls'[c].step = "failed"
      <4>1. /\ calls'[c].type = calls[c].type /\ calls'[c].autoAck = calls[c].autoAck
            /\ \/ calls'[c].step = calls[c].step /\ calls'[c].writes = calls[c].writes
               \/ calls'[c].step = "failed"
        BY <2>1, <3>6 DEF Continues, Unmoved
      <4>2. Submitting(calls[c])'
        BY <3>1, <3>4, <3>5, <4>1 DEF Submitting
      <4>3. Acking(calls[c])'
        BY <3>1, <3>4, <3>5, <4>1 DEF Acking
      <4>4. QED
        BY <4>2, <4>3
    <3>7. QED
      BY <2>1, <3>2, <3>6 DEF Continues
  <2>2. CASE Arrives(c)
    <3>1. calls'[c].type = "Ack" => Held(calls[c].envelope)'
      <4>1. SUFFICES ASSUME NEW s \in Senders, pc[s] = "ack", calls'[c].envelope = hand[s]
                     PROVE  Held(calls[c].envelope)'
        BY <2>2 DEF Arrives
      <4>2. PICK e \in Envelopes : e = hand[s]
        BY <4>1, EnvelopeInHand
      <4>3. Held(e)
        BY <4>1, <4>2 DEF Knows
      <4>4. Held(e)'
        BY <4>3, AnswersKept
      <4>5. QED
        BY <4>1, <4>2, <4>4
    <3>2. QED
      BY <2>2, <3>1 DEF Arrives, Submitting, Acking
  <2>3. QED
    BY <1>1, <2>1, <2>2, CallsFrame
<1>2. QED
  BY <1>1 DEF Progress

LEMMA LinkedNext ==
  ASSUME Basics, Basics', Linked, [Next]_vars
  PROVE  Linked'
<1> USE DEF Basics, SenderInv
<1>1. SUFFICES ASSUME NEW c \in Slots, ~ Free(c)', calls'[c].owner # None
               PROVE  /\ calls'[c].envelope = hand'[calls'[c].owner] /\ ~ calls'[c].autoAck
                      /\ calls'[c].type = "Submit" => pc'[calls'[c].owner] = "submitting"
                      /\ calls'[c].type = "Ack" => pc'[calls'[c].owner] = "acking"
  BY DEF Linked
<1> DEFINE s == calls'[c].owner
<1>2. CASE Continues(c)
  <2>1. ~ Free(c) /\ s = calls[c].owner /\ calls[c] \in Calls
    BY <1>1, <1>2, CallFacts DEF Continues
  <2>2. s \in Senders /\ pc[s] \in {"submitting", "acking"} /\ pc'[s] \in {"submitting", "acking"}
    BY <1>1, <2>1 DEF Owners, Calls
  <2> HIDE DEF s
  <2>3. Waits(s)
    <3>1. ~ Split(s) /\ ~ OneDestination(s) /\ ~ Transmit(s)
      BY <2>2 DEF Split, OneDestination, Transmit
    <3>2. ~ Answered(s)
      BY <2>2 DEF Answered
    <3>3. QED
      BY <2>2, <3>1, <3>2, SenderFrame
  <2>4. QED
    BY <1>1, <1>2, <2>1, <2>2, <2>3 DEF Linked, Continues, Waits, s
<1>3. CASE Arrives(c)
  <2>1. /\ s \in Senders /\ Transmit(s) /\ calls'[c].envelope = hand[s] /\ ~ calls'[c].autoAck
        /\ \/ calls'[c].type = "Submit" /\ pc[s] = "submit"
           \/ calls'[c].type = "Ack" /\ pc[s] = "ack"
    BY <1>1, <1>3 DEF Arrives
  <2> HIDE DEF s
  <2>2. hand'[s] = hand[s] /\ pc'[s] = IF pc[s] = "submit" THEN "submitting" ELSE "acking"
    BY <2>1 DEF Transmit, Advance, Goto, SenderTypes
  <2>3. QED
    BY <2>1, <2>2 DEF s
<1>4. QED
  BY <1>1, <1>2, <1>3, CallsFrame

LEMMA KnowsNext ==
  ASSUME Account, Progress, Linked, [Next]_vars, NEW s \in Senders, Knows(s)
  PROVE  Knows(s)'
<1> USE DEF Account, Basics
<1>1. SUFFICES ASSUME pc'[s] \notin {"idle", "route"} PROVE Knows(s)'
  BY DEF Knows
<1>0. Cardinality({}) = 0
  BY FS_EmptySet
<1>2. CASE Split(s)
  <2>1. PICK found \in SplitOver(hand[s].sites) :
          outgoing' = [outgoing EXCEPT ![s] = {Clone(hand[s].id, k) : k \in found}]
    BY <1>2 DEF Split
  <2>2. hand'[s] = hand[s] /\ pc'[s] = "split" /\ hand[s] \in Queueable
        /\ outgoing'[s] = {Clone(hand[s].id, k) : k \in found}
    BY <1>2, <2>1 DEF Split, Goto, SenderInv, SenderTypes, Hands
  <2>3. Served(hand[s].sites) \subseteq found
    BY <2>1, <2>2, SplitComplete
  <2>4. GetDestinationSitesFor(hand[s].sites) # {}
    BY <1>0, <1>2 DEF Split
  <2>5. QED
    BY <2>2, <2>3, <2>4 DEF Knows
<1>3. CASE OneDestination(s)
  <2>1. hand'[s] = hand[s] /\ pc'[s] = "submit"
    BY <1>3 DEF OneDestination, Advance, Goto, SenderInv, SenderTypes
  <2>2. GetDestinationSitesFor(hand[s].sites) # {}
    BY <1>0, <1>3 DEF OneDestination
  <2>3. QED
    BY <2>1, <2>2 DEF Knows
(* The message stays in hand.                                              *)
<1>4. ASSUME pc[s] \notin {"idle", "route"}, hand'[s] = hand[s]
      PROVE  /\ (Held(hand[s]) => Held(hand[s])') /\ (Acked(hand[s]) => Acked(hand[s])')
             /\ GetDestinationSitesFor(hand'[s].sites) # {}
  <2>1. PICK e \in Envelopes : e = hand[s]
    BY <1>4, EnvelopeInHand
  <2>2. (Held(e) => Held(e)') /\ (Acked(e) => Acked(e)')
    BY <2>1, AnswersKept
  <2>3. QED
    BY <1>4, <2>1, <2>2 DEF Knows
<1>5. CASE Waits(s)
  BY <1>1, <1>4, <1>5 DEF Waits, Knows
<1>6. CASE Transmit(s)
  <2>1. /\ pc[s] \in {"submit", "ack"} /\ hand'[s] = hand[s]
        /\ pc'[s] = IF pc[s] = "submit" THEN "submitting" ELSE "acking"
    BY <1>6 DEF Transmit, Advance, Goto, SenderInv, SenderTypes
  <2>2. QED
    BY <1>4, <2>1 DEF Knows
<1>7. CASE Answered(s)
  <2>1. PICK c \in Slots : /\ ~ Free(c) /\ calls[c].owner = s /\ calls[c].step = "ok"
                           /\ pc'[s] = IF pc[s] = "submitting" THEN "ack" ELSE "forwarded"
                           /\ hand'[s] = hand[s]
    BY <1>7 DEF Answered
  <2>2. s # None /\ calls[c].type \in {"Submit", "Ack"}
    BY <2>1, EnvelopeFacts, CallFacts DEF Calls, CallTypes
  <2>3. /\ calls[c].envelope = hand[s] /\ ~ calls[c].autoAck
        /\ calls[c].type = "Submit" => pc[s] = "submitting"
        /\ calls[c].type = "Ack" => pc[s] = "acking"
    BY <2>1, <2>2 DEF Linked
  <2>4. Submitting(calls[c]) /\ Acking(calls[c])
    BY <2>1 DEF Progress
  <2>5. IF pc[s] = "submitting" THEN Held(hand[s]) ELSE pc[s] = "acking" /\ Acked(hand[s])
    BY <2>1, <2>2, <2>3, <2>4 DEF Submitting, Acking
  <2>6. QED
    BY <1>4, <2>1, <2>5 DEF Knows
<1>8. QED
  BY <1>1, <1>2, <1>3, <1>5, <1>6, <1>7, SenderFrame
-----------------------------------------------------------------------------
(* Where the destinations of a message are.                                *)

LEMMA TracedNext ==
  ASSUME Account, Traced, [Next]_vars, \A s \in Senders : Knows(s)
  PROVE  Traced'
<1> USE DEF Account, Basics
<1>a. \A e \in Envelopes : Acked(e) => Acked(e)'
  BY AnswersKept
<1>b. queue \subseteq Queueable /\ errors \subseteq Queueable /\ audit \subseteq Queueable
  BY DEF SenderInv, SenderTypes
<1>1. ASSUME UNCHANGED audit, queue \cup errors \subseteq queue' \cup errors' PROVE Traced'
  <2>1. \A e \in audit' : Acked(e)'
    BY <1>1, <1>a, <1>b, EnvelopeFacts DEF Traced
  <2>2. QED
    BY <1>1, <2>1 DEF Traced
<1>2. ASSUME NEW s \in Senders, pc[s] \in {"split", "forwarded"}, UNCHANGED errors,
             queue \ {hand[s]} \subseteq queue', audit \subseteq audit',
             audit' \subseteq audit \cup {hand[s]},
             hand[s] \in audit' => Acked(hand[s]) \/ hand[s] \in audit,
             \A k \in Served(hand[s].sites) :
               \E e \in queue' \cup audit' : e.id = hand[s].id /\ k \in e.sites
      PROVE  Traced'
  <2>1. GetDestinationSitesFor(hand[s].sites) # {}
    BY <1>2 DEF Knows
  <2>2. \A e \in audit' : Acked(e)'
    <3>1. \A e \in audit' : e \in Envelopes /\ Acked(e)
      BY <1>2, <1>b, EnvelopeInHand, EnvelopeFacts DEF Traced
    <3>2. QED
      BY <3>1, <1>a
  <2>3. ASSUME NEW m \in Messages, NEW k \in Served(SitesOf[m])
        PROVE  \E e \in queue' \cup errors' \cup audit' : e.id = m /\ k \in e.sites
    <3>1. PICK e \in queue \cup errors \cup audit : e.id = m /\ k \in e.sites
      BY <2>3 DEF Traced
    <3>2. CASE e = hand[s]
      <4>1. k \in Served(hand[s].sites)
        BY <1>2, <1>b, <2>3, <3>1, <3>2, ServedByCopy, EnvelopeInHand
      <4>2. QED
        BY <1>2, <3>1, <3>2, <4>1
    <3>3. CASE e # hand[s]
      BY <1>2, <3>1, <3>3
    <3>4. QED
      BY <3>2, <3>3
  <2>4. ASSUME NEW m \in Messages, GetDestinationSitesFor(SitesOf[m]) = {}
        PROVE  Original(m) \in queue' \cup errors'
    <3>1. Original(m) # hand[s]
      BY <2>1, <2>4 DEF Original, Envelope
    <3>2. Original(m) \in queue \cup errors
      BY <2>4 DEF Traced
    <3>3. QED
      BY <1>2, <3>1, <3>2
  <2>5. QED
    BY <2>2, <2>3, <2>4 DEF Traced
<1>3. ASSUME NEW s \in Senders, CommitSplit(s) PROVE Traced'
  <2>1. /\ pc[s] = "split" /\ UNCHANGED <<errors, audit>>
        /\ queue' = (queue \ {hand[s]}) \cup outgoing[s]
    BY <1>3 DEF CommitSplit
  <2>2. hand[s].id \in Messages /\ hand[s] \in Queueable
    BY <2>1, EnvelopeInHand, EnvelopeFacts
  <2>3. ASSUME NEW k \in Served(hand[s].sites)
        PROVE  \E e \in queue' \cup audit' : e.id = hand[s].id /\ k \in e.sites
    <3>1. Clone(hand[s].id, k) \in queue'
      BY <2>1, <2>3 DEF Knows
    <3>2. Clone(hand[s].id, k).id = hand[s].id /\ Clone(hand[s].id, k).sites = {k}
      BY DEF Clone, Envelope
    <3>3. QED
      BY <3>1, <3>2
  <2>4. QED
    BY <1>2, <2>1, <2>3
<1>4. ASSUME NEW s \in Senders, CommitForwarded(s) PROVE Traced'
  <2>1. /\ pc[s] = "forwarded" /\ UNCHANGED errors
        /\ queue' = queue \ {hand[s]} /\ audit' = audit \cup {hand[s]}
    BY <1>4 DEF CommitForwarded
  <2>2. Acked(hand[s])
    BY <2>1 DEF Knows
  <2>3. \A k \in Served(hand[s].sites) :
          \E e \in queue' \cup audit' : e.id = hand[s].id /\ k \in e.sites
    BY <2>1 DEF Served, ByPrefix, ByConfiguration
  <2>4. QED
    BY <1>2, <2>1, <2>2, <2>3
<1>5. ASSUME NEW s \in Senders, HandledMaxRetries(s) PROVE Traced'
  BY <1>1, <1>5 DEF HandledMaxRetries
<1>6. CASE UNCHANGED <<queue, errors, audit>>
  BY <1>1, <1>6
<1>7. QED
  BY <1>3, <1>4, <1>5, <1>6 DEF Next, vars, senderVars, Send, Local, Receive, Split, NoDestination,
     OneDestination, Rollback, Advance, CommitFails, NoAnswer, Transmit, Post, Serve, Handle, Answer,
     Throws, SenderRestarts, ReceiverRestarts

Forwarding ==
  /\ Account /\ RavenSends /\ Progress /\ Linked /\ Traced
  /\ \A s \in Senders : Knows(s)

(* Where the messages of m for its destinations are to be: the property    *)
(* NoDestinationForgotten, but for the keys that only the second router    *)
(* knows when the first one knows others.                                  *)
ServedNotForgotten ==
  \A m \in Messages :
    /\ GetDestinationSitesFor(SitesOf[m]) = {} => Original(m) \in queue \cup errors
    /\ \A k \in Served(SitesOf[m]) : Pending(m, k) \/ Reached(m, k)

(* Whatever the keys of a message are, mixed or not, the destinations the  *)
(* first router that knows any returns are served, and a message without   *)
(* destinations stays: the header that CloneAndSendLocal overwrites        *)
(* (GatewaySender.cs:92) costs a message the keys of the section           *)
(* GatewayConfig listed beside an address, and nothing else.               *)
THEOREM OnlyConfiguredForgotten == Spec => []ServedNotForgotten
<1>1. Init => Forwarding
  <2> SUFFICES ASSUME Init PROVE Forwarding
    OBVIOUS
  <2>1. Account
    BY AccountInit
  <2>2. RavenSends /\ Progress /\ Linked
    BY DEF Init, RavenSends, Progress, Linked, Free
  <2>3. \A s \in Senders : Knows(s)
    BY DEF Init, Knows
  <2>4. Traced
    <3>1. ASSUME NEW m \in Messages, NEW k \in Served(SitesOf[m])
          PROVE  \E e \in queue : e.id = m /\ k \in e.sites
      <4>1. Original(m).id = m /\ Original(m).sites = SitesOf[m] /\ k \in SitesOf[m]
        BY <3>1 DEF Original, Envelope, Served, ByPrefix, ByConfiguration
      <4>2. Original(m) \in queue
        BY DEF Init
      <4>3. QED
        BY <4>1, <4>2
    <3>2. QED
      BY <3>1 DEF Init, Traced
  <2>5. QED
    BY <2>1, <2>2, <2>3, <2>4 DEF Forwarding
<1>2. Forwarding /\ [Next]_vars => Forwarding'
  <2> SUFFICES ASSUME Forwarding, [Next]_vars PROVE Forwarding'
    OBVIOUS
  <2> USE DEF Forwarding
  <2>1. Account'
    BY AccountNext
  <2>2. Basics /\ Basics'
    BY <2>1 DEF Account
  <2>3. QED
    BY <2>1, <2>2, RavenNext, ProgressNext, LinkedNext, KnowsNext, TracedNext
<1>3. Forwarding => ServedNotForgotten
  <2> SUFFICES ASSUME Forwarding PROVE ServedNotForgotten
    OBVIOUS
  <2> USE DEF Forwarding, Account, Basics
  <2>1. ASSUME NEW e \in audit PROVE delivered[e] > 0 \/ Underway(e) \/ LossExcused(e)
    <3>1. Acked(e) /\ e \in Envelopes
      BY <2>1, EnvelopeFacts DEF Traced, SenderInv, SenderTypes
    <3>2. CASE persister = "InMemory" /\ storage[e].acked > 0 /\ ~ LossExcused(e)
      <4>1. Kept(e) /\ e \notin thrown
        BY <3>1, <3>2 DEF Remembered, LossExcused
      <4>2. \A c \in Slots : Carries(c, e) => Active(c)
        BY CallFacts DEF Carries, Active, Fits
      <4>3. (\E c \in Slots : Carries(c, e)) => Underway(e)
        BY <4>2 DEF Carries, Underway
      <4>4. QED
        BY <3>2, <4>1, <4>3 DEF Kept
    <3>3. QED
      BY <3>1, <3>2 DEF Acked
  <2>2. ASSUME NEW m \in Messages, NEW k \in Served(SitesOf[m])
        PROVE  Pending(m, k) \/ Reached(m, k)
    <3>1. PICK e \in queue \cup errors \cup audit : e.id = m /\ k \in e.sites
      BY <2>2 DEF Traced
    <3>2. QED
      BY <2>1, <3>1 DEF Pending, Reached
  <2>3. \A m \in Messages :
          GetDestinationSitesFor(SitesOf[m]) = {} => Original(m) \in queue \cup errors
    BY DEF Traced
  <2>4. QED
    BY <2>2, <2>3 DEF ServedNotForgotten
<1>4. QED
  BY <1>1, <1>2, <1>3, PTL DEF Spec

(* Every destination of a message whose keys are known to one router only  *)
(* is served: the message or its clone is in a queue, or it was forwarded  *)
(* and has been, or is being, delivered (GatewaySender, and the handling of*)
(* Submit and Ack by each persister), for every number of senders and calls.*)
THEOREM NoDestinationForgottenCorrect ==
  ASSUME \A m \in Messages : Unmixed(SitesOf[m])
  PROVE  Spec => []NoDestinationForgotten
<1>1. \A m \in Messages : Served(SitesOf[m]) = GetDestinationSitesFor(SitesOf[m])
  BY DEF Unmixed, Served, GetDestinationSitesFor
<1>2. ServedNotForgotten => NoDestinationForgotten
  BY <1>1 DEF ServedNotForgotten, NoDestinationForgotten
<1>3. QED
  BY <1>2, OnlyConfiguredForgotten, PTL
=============================================================================
