----------------------------- MODULE WebhooksProofs -----------------------------
(***************************************************************************)
(* Safety of Webhooks for any labels, senders, deliveries and faults.      *)
(***************************************************************************)
EXTENDS Webhooks, SequenceTheorems, TLAPS

------------------------------------------------------------------------------
(* The store. *)

\* What a step may make of a record when it saves r for d.
Rewritten(d, r) ==
  \A x \in Deliveries : rec'[x] = Absent \/ rec'[x] = rec[x] \/ (x = d /\ rec'[x] = r)
\* And of the record of d itself.
Overwritten(d, r) == rec'[d] = r \/ rec'[d] = Absent

\* Save keeps the types, touches no record but one and the evicted one.
LEMMA SaveWrites ==
  ASSUME TypeOK, NEW d \in Deliveries, NEW r \in Records, Save(d, r)
  PROVE  /\ stored' \in Seq(Deliveries) /\ Len(stored') <= MaxStored
         /\ rec' \in [Deliveries -> Records]
         /\ Rewritten(d, r) /\ Overwritten(d, r)
<1> DEFINE over == Len(Listed(d)) > MaxStored
<1> USE SizesAssumption
<1>1. Listed(d) \in Seq(Deliveries) /\ Len(Listed(d)) <= MaxStored + 1
  BY DEF TypeOK, Listed
<1>2. Absent \in Records
  BY DEF Absent, Records
<1>3. stored' = IF over THEN Tail(Listed(d)) ELSE Listed(d)
  BY DEF Save
<1>4. rec' = IF over THEN [rec EXCEPT ![d] = r, ![Head(Listed(d))] = Absent] ELSE [rec EXCEPT ![d] = r]
  BY DEF Save
<1>5. stored' \in Seq(Deliveries) /\ Len(stored') <= MaxStored
  <2>1. CASE over
    <3>1. Listed(d) # << >>
      BY <2>1
    <3> HIDE DEF over
    <3> QED
      BY <1>1, <1>3, <2>1, <3>1
  <2>2. CASE ~over
    BY <1>1, <1>3, <2>2
  <2> QED
    BY <2>1, <2>2
<1>6. /\ rec' \in [Deliveries -> Records]
      /\ \A x \in Deliveries : rec'[x] = Absent \/ (IF x = d THEN rec'[x] = r ELSE rec'[x] = rec[x])
  <2> HIDE DEF over
  <2> QED
    BY <1>2, <1>4 DEF TypeOK
<1> QED
  BY <1>5, <1>6 DEF Rewritten, Overwritten

\* Persist keeps them too.
LEMMA PersistTyped ==
  ASSUME TypeOK, Persist,
         stored' \in Seq(Deliveries), Len(stored') <= MaxStored, rec' \in [Deliveries -> Records]
  PROVE  /\ file'.stored \in Seq(Deliveries) /\ Len(file'.stored) <= MaxStored
         /\ file'.rec \in [Deliveries -> Records]
         /\ unsaved' \in BOOLEAN /\ faults' \in 0..MaxFaults
<1>1. unsaved' \in BOOLEAN
  BY DEF TypeOK, Persist
<1> QED
  BY <1>1, SizesAssumption DEF TypeOK, Persist

\* A record that is found, or made, and changed in some of its fields.
LEMMA FoundTyped ==
  ASSUME TypeOK, NEW d \in Deliveries
  PROVE  /\ Found(d) \in Records
         /\ [Found(d) EXCEPT !.known = TRUE] \in Records
         /\ \A v \in {"denied", "allowed"} : [Found(d) EXCEPT !.decision = v] \in Records
         /\ \A t \in Receipts : [Found(d) EXCEPT !.decision = "allowed", !.stem = t] \in Records
<1>1. rec[d] \in Records
  BY DEF TypeOK
<1>2. Found(d) \in Records
  BY <1>1 DEF Found, Absent, Records
<1> QED
  BY <1>2 DEF Records

------------------------------------------------------------------------------
(* Types. *)

\* Each receipt that has come in is that of a delivery that was sent.
Assigned ==
  /\ \A t \in Receipts : at[t] # "none" => of[t] \in 1..Len(sent)
  /\ \A d \in Deliveries : rec[d].decision # "none" \/ file.rec[d].decision # "none" => d \in 1..Len(sent)
  /\ \A t \in started : at[t] # "none"

\* The typed values of at.
States == {"none"} \cup Underway \cup Over

\* A step that moves one receipt keeps the type of at.
LEMMA GoTyped ==
  ASSUME TypeOK, NEW t \in Receipts, NEW to \in States, at' = [at EXCEPT ![t] = to]
  PROVE  at' \in [Receipts -> States]
BY DEF TypeOK, States

\* A receipt that is somewhere has a delivery.
LEMMA HasDelivery ==
  ASSUME TypeOK, Assigned, NEW t \in Receipts, at[t] # "none"
  PROVE  of[t] \in Deliveries /\ of[t] \in 1..Len(sent)
BY SizesAssumption DEF TypeOK, Assigned, Deliveries

\* Steps of the workspace write no store.
LEMMA PrepareTyped ==
  ASSUME TypeOK, NEW t \in Receipts, PrepareStep(t)
  PROVE  TypeOK'
<1> USE SizesAssumption DEF TypeOK, HasGit, Go, Prepared, store, github, space, Underway, InHandler, InPool, Preparing
<1>1. CASE Look(t)
  BY <1>1 DEF Look
<1>2. CASE Clear(t)
  BY <1>2 DEF Clear
<1>3. CASE CloneBegins(t)
  BY <1>3 DEF CloneBegins
<1>4. CASE CloneRefused(t)
  BY <1>4 DEF CloneRefused
<1>5. CASE CloneEnds(t)
  BY <1>5 DEF CloneEnds
<1>6. CASE CloneFails(t)
  BY <1>6 DEF CloneFails
<1>7. CASE MakeDirectory(t)
  BY <1>7 DEF MakeDirectory
<1>8. CASE InitRepository(t)
  BY <1>8 DEF InitRepository
<1>9. CASE InitRefused(t)
  BY <1>9 DEF InitRefused
<1>10. CASE Exclude(t)
  BY <1>10 DEF Exclude
<1>11. CASE Sync(t)
  BY <1>11 DEF Sync
<1>12. CASE PrepareFails(t)
  <2>1. cutShort' \in {cutShort, TRUE} /\ dir' \in {dir, "broken"} /\ cloner' = cloner
    BY <1>12 DEF PrepareFails, PrepareFailsTo, HalfDone
  <2>2. /\ at' = [at EXCEPT ![t] = "start"] /\ faults' \in 0..MaxFaults
        /\ UNCHANGED <<github, of, store, ensured, started, overlapped, restarts>>
    BY <1>12 DEF PrepareFails, PrepareFailsTo
  <2>3. cutShort' \in BOOLEAN
    BY <2>1
  <2> QED
    BY <2>1, <2>2, <2>3
<1>13. CASE CloneBreaks(t)
  <2>1. cutShort' \in BOOLEAN
    BY <1>13 DEF CloneBreaks
  <2>2. /\ at' = [at EXCEPT ![t] = "start"] /\ dir' \in {dir, "broken"} /\ faults' \in 0..MaxFaults
        /\ UNCHANGED <<github, of, store, ensured, started, overlapped, restarts, cloner>>
    BY <1>13 DEF CloneBreaks
  <2> QED
    BY <2>1, <2>2
<1> QED
  BY <1>1, <1>2, <1>3, <1>4, <1>5, <1>6, <1>7, <1>8, <1>9, <1>10, <1>11, <1>12, <1>13 DEF PrepareStep, CloneStep

\* The steps that write the store: a receipt moves on, and one record is saved.
LEMMA StoreTyped ==
  ASSUME TypeOK, NEW t \in Receipts, NEW d \in Deliveries, NEW r \in Records, NEW to \in States,
         Save(d, r), at' = [at EXCEPT ![t] = to], of' = of \/ of' = [of EXCEPT ![t] = d],
         UNCHANGED <<github, space, ensured, started, overlapped, restarts>>
  PROVE  TypeOK'
<1>1. /\ stored' \in Seq(Deliveries) /\ Len(stored') <= MaxStored
      /\ rec' \in [Deliveries -> Records]
  BY SaveWrites
<1>2. Persist
  BY DEF Save
<1>3. /\ file'.stored \in Seq(Deliveries) /\ Len(file'.stored) <= MaxStored
      /\ file'.rec \in [Deliveries -> Records]
      /\ unsaved' \in BOOLEAN /\ faults' \in 0..MaxFaults
  BY <1>1, <1>2, PersistTyped
<1>4. at' \in [Receipts -> States] /\ of' \in [Receipts -> Deliveries \cup {0}]
  BY GoTyped DEF TypeOK
<1> QED
  BY <1>1, <1>3, <1>4 DEF TypeOK, States, github, space

\* What Reload makes of the store.
LEMMA ReloadTyped ==
  ASSUME TypeOK, NEW n \in 0..Len(file.stored), Reload(n)
  PROVE  /\ stored' \in Seq(Deliveries) /\ Len(stored') <= MaxStored
         /\ rec' \in [Deliveries -> Records]
         /\ \A x \in Deliveries : rec'[x] = Absent \/ rec'[x] = file.rec[x]
<1>1. file.stored \in Seq(Deliveries) /\ Len(file.stored) \in Nat /\ Len(file.stored) <= MaxStored
  BY DEF TypeOK
<1>2. \A i \in n + 1..Len(file.stored) : file.stored[i] \in Deliveries
  BY <1>1
<1>3. stored' \in Seq(Deliveries) /\ Len(stored') <= MaxStored
  BY <1>1, <1>2, SubSeqProperties, SizesAssumption DEF Reload
<1>4. Absent \in Records
  BY DEF Absent, Records
<1>5. rec' = [d \in Deliveries |-> IF d \in Range(stored') THEN file.rec[d] ELSE Absent]
  BY DEF Reload
<1>6. file.rec \in [Deliveries -> Records]
  BY DEF TypeOK
<1> QED
  BY <1>3, <1>4, <1>5, <1>6

\* Every step keeps the types.
LEMMA TypeStep ==
  ASSUME TypeOK, Assigned, [Next]_vars
  PROVE  TypeOK'
<1>1. CASE \E labeled \in BOOLEAN, s \in Senders, l \in Labels : IssueChanges(labeled, s, l)
  <2>1. PICK labeled \in BOOLEAN, s \in Senders, l \in Labels : IssueChanges(labeled, s, l)
    BY <1>1
  <2>2. onIssue' \subseteq Labels
    BY <2>1 DEF IssueChanges, TypeOK
  <2>3. [labeled |-> labeled, sender |-> s, label |-> l, labels |-> onIssue'] \in Payloads
    BY <2>2 DEF Payloads
  <2>4. sent' \in Seq(Payloads) /\ Len(sent') <= MaxDeliveries
    BY <2>1, <2>3, SizesAssumption DEF IssueChanges, TypeOK
  <2> QED
    BY <2>1, <2>2, <2>4 DEF IssueChanges, TypeOK, store, space
<1>2. ASSUME NEW t \in Receipts, NEW d \in 1..Len(sent), Receive(t, d) PROVE TypeOK'
  <2>1. d \in Deliveries
    BY SizesAssumption DEF TypeOK, Deliveries
  <2>2. [Found(d) EXCEPT !.known = TRUE] \in Records
    BY <2>1, FoundTyped
  <2>3. "received" \in States
    BY DEF States, Underway, InHandler
  <2> QED
    BY <1>2, <2>1, <2>2, <2>3, StoreTyped DEF Receive
<1>3. ASSUME NEW t \in Receipts, Deny(t) PROVE TypeOK'
  <2>1. of[t] \in Deliveries
    BY <1>3, HasDelivery DEF Deny, Go
  <2>2. [Found(of[t]) EXCEPT !.decision = "denied"] \in Records
    BY <2>1, FoundTyped
  <2>3. "ignored" \in States
    BY DEF States, Over
  <2> QED
    BY <1>3, <2>1, <2>2, <2>3, StoreTyped DEF Deny, Go
<1>4. ASSUME NEW t \in Receipts, Allow(t) PROVE TypeOK'
  <2>1. of[t] \in Deliveries
    BY <1>4, HasDelivery DEF Allow, Go
  <2>2. [Found(of[t]) EXCEPT !.decision = "allowed"] \in Records
    BY <2>1, FoundTyped
  <2>3. "allowed" \in States
    BY DEF States, Underway, InHandler
  <2> QED
    BY <1>4, <2>1, <2>2, <2>3, StoreTyped DEF Allow, Go
<1>5. ASSUME NEW t \in Receipts, RecordRun(t) PROVE TypeOK'
  <2>1. of[t] \in Deliveries
    BY <1>5, HasDelivery DEF RecordRun, Go
  <2>2. [Found(of[t]) EXCEPT !.decision = "allowed", !.stem = t] \in Records
    BY <2>1, FoundTyped
  <2>3. "done" \in States
    BY DEF States, Over
  <2> QED
    BY <1>5, <2>1, <2>2, <2>3, StoreTyped DEF RecordRun, Go
<1>6. ASSUME NEW t \in Receipts, PrepareStep(t) PROVE TypeOK'
  BY <1>6, PrepareTyped
<1>7. ASSUME NEW t \in Receipts, Accept(t) \/ AcceptFails(t) \/ Begin(t) \/ StartRun(t) \/ StartFails(t)
      PROVE TypeOK'
  <2> USE SizesAssumption DEF TypeOK, Go, store, github, space, Underway, InHandler, InPool, Preparing, Over
  <2>1. CASE Accept(t)
    BY <2>1 DEF Accept
  <2>2. CASE AcceptFails(t)
    BY <2>2 DEF AcceptFails
  <2>3. CASE Begin(t)
    <3>1. overlapped' \in BOOLEAN
      BY <2>3 DEF Begin
    <3> QED
      BY <2>3, <3>1 DEF Begin
  <2>4. CASE StartRun(t)
    BY <2>4 DEF StartRun
  <2>5. CASE StartFails(t)
    BY <2>5 DEF StartFails, StartFailsTo
  <2> QED
    BY <1>7, <2>1, <2>2, <2>3, <2>4, <2>5
<1>8. CASE Restart
  <2>1. PICK n \in 0..Len(file.stored) : Reload(n)
    BY <1>8 DEF Restart
  <2>2. /\ stored' \in Seq(Deliveries) /\ Len(stored') <= MaxStored
        /\ rec' \in [Deliveries -> Records]
    BY <2>1, ReloadTyped
  <2>3. /\ file'.stored \in Seq(Deliveries) /\ Len(file'.stored) <= MaxStored
        /\ file'.rec \in [Deliveries -> Records]
        /\ unsaved' \in BOOLEAN /\ faults' \in 0..MaxFaults
    BY <2>1, <2>2, PersistTyped DEF Reload
  <2>4. at' \in [Receipts -> States]
    BY <1>8 DEF Restart, TypeOK, States, Over
  <2>5. restarts' \in 0..MaxRestarts
    BY <1>8, SizesAssumption DEF Restart, TypeOK
  <2>6. cutShort' \in BOOLEAN
    BY <1>8, Zenon DEF Restart, TypeOK
  <2> QED
    BY <1>8, <2>2, <2>3, <2>4, <2>5, <2>6 DEF Restart, TypeOK, States, HasGit, github
<1>9. CASE UNCHANGED vars
  BY <1>9 DEF TypeOK, vars, store, github, space
<1> QED
  BY <1>1, <1>2, <1>3, <1>4, <1>5, <1>6, <1>7, <1>8, <1>9 DEF Next, Step, HandlerStep, RunStep

------------------------------------------------------------------------------
(* Two kinds of step. *)

\* What was sent stays, and so do the runs that were started and whose they are.
Remembered ==
  /\ Len(sent) <= Len(sent') /\ \A d \in 1..Len(sent) : sent'[d] = sent[d]
  /\ started \subseteq started'
  /\ \A t \in Receipts : at[t] # "none" => of'[t] = of[t] /\ at'[t] # "none"

Accepted == (Underway \ {"received"}) \cup {"done", "failed"}

\* A receipt that was accepted moves on, and nothing is written.
Quiet(t) ==
  /\ UNCHANGED <<sent, of, stored, rec, file, unsaved, restarts>>
  /\ at[t] \in Accepted
  /\ at' = [at EXCEPT ![t] = at'[t]] /\ at'[t] \in (Underway \ {"received"}) \cup {"failed"}
  /\ started' = started \/ (at[t] = "start" /\ started' = started \cup {t})
  /\ at'[t] = "record" => t \in started'

\* Those are the steps of the workspace, and the others below.
LEMMA QuietSteps ==
  ASSUME TypeOK, NEW t \in Receipts,
         PrepareStep(t) \/ Accept(t) \/ AcceptFails(t) \/ Begin(t) \/ StartRun(t) \/ StartFails(t)
  PROVE  Quiet(t)
<1> USE DEF TypeOK, Go, Quiet, Accepted, store, github, space, Underway, InHandler, InPool, Preparing, Prepared
<1>1. CASE Accept(t)
  BY <1>1 DEF Accept
<1>2. CASE AcceptFails(t)
  BY <1>2 DEF AcceptFails
<1>3. CASE Begin(t)
  BY <1>3 DEF Begin
<1>4. CASE StartRun(t)
  BY <1>4 DEF StartRun
<1>5. CASE StartFails(t)
  BY <1>5 DEF StartFails, StartFailsTo
<1>6. CASE CloneStep(t)
  BY <1>6 DEF CloneStep, Look, Clear, CloneBegins, CloneRefused, CloneEnds, CloneFails, CloneBreaks
<1>7. CASE MakeDirectory(t) \/ InitRepository(t) \/ InitRefused(t) \/ Exclude(t) \/ Sync(t)
  BY <1>7 DEF MakeDirectory, InitRepository, InitRefused, Exclude, Sync
<1>8. CASE PrepareFails(t)
  BY <1>8 DEF PrepareFails, PrepareFailsTo, HalfDone
<1> QED
  BY <1>1, <1>2, <1>3, <1>4, <1>5, <1>6, <1>7, <1>8 DEF PrepareStep

\* The other steps of a receipt save a record.
Written(t, d, from, to, r) ==
  /\ at[t] = from /\ at' = [at EXCEPT ![t] = to]
  /\ Rewritten(d, r) /\ Overwritten(d, r) /\ r \in Records
  /\ Persist
  /\ UNCHANGED <<sent, started, restarts>>

\* Each of them does so for its delivery, which was sent.
LEMMA WritingSteps ==
  ASSUME TypeOK, Assigned, NEW t \in Receipts
  PROVE  /\ \A d \in 1..Len(sent) : Receive(t, d) =>
              /\ d \in Deliveries /\ of' = [of EXCEPT ![t] = d]
              /\ Written(t, d, "none", "received", [Found(d) EXCEPT !.known = TRUE])
         /\ Deny(t) => /\ of[t] \in Deliveries /\ of[t] \in 1..Len(sent) /\ of' = of
                       /\ Written(t, of[t], "received", "ignored", [Found(of[t]) EXCEPT !.decision = "denied"])
         /\ Allow(t) => /\ of[t] \in Deliveries /\ of[t] \in 1..Len(sent) /\ of' = of
                        /\ Written(t, of[t], "received", "allowed", [Found(of[t]) EXCEPT !.decision = "allowed"])
         /\ RecordRun(t) => /\ of[t] \in Deliveries /\ of[t] \in 1..Len(sent) /\ of' = of
                            /\ Written(t, of[t], "record", "done",
                                       [Found(of[t]) EXCEPT !.decision = "allowed", !.stem = t])
<1> USE DEF Written, Save, github
<1>1. ASSUME NEW d \in 1..Len(sent), Receive(t, d)
      PROVE  /\ d \in Deliveries /\ of' = [of EXCEPT ![t] = d]
             /\ Written(t, d, "none", "received", [Found(d) EXCEPT !.known = TRUE])
  <2>1. d \in Deliveries
    BY SizesAssumption DEF TypeOK, Deliveries
  <2>2. [Found(d) EXCEPT !.known = TRUE] \in Records
    BY <2>1, FoundTyped
  <2>3. Rewritten(d, [Found(d) EXCEPT !.known = TRUE]) /\ Overwritten(d, [Found(d) EXCEPT !.known = TRUE])
    BY <1>1, <2>1, <2>2, SaveWrites DEF Receive
  <2> QED
    BY <1>1, <2>1, <2>2, <2>3 DEF Receive
<1>2. ASSUME Deny(t)
      PROVE  /\ of[t] \in Deliveries /\ of[t] \in 1..Len(sent) /\ of' = of
             /\ Written(t, of[t], "received", "ignored", [Found(of[t]) EXCEPT !.decision = "denied"])
  <2> DEFINE r == [Found(of[t]) EXCEPT !.decision = "denied"]
  <2>1. of[t] \in Deliveries /\ of[t] \in 1..Len(sent)
    BY <1>2, HasDelivery DEF Deny, Go
  <2>2. r \in Records
    BY <2>1, FoundTyped
  <2>3. Rewritten(of[t], r) /\ Overwritten(of[t], r)
    BY <1>2, <2>1, <2>2, SaveWrites DEF Deny
  <2> QED
    BY <1>2, <2>1, <2>2, <2>3 DEF Deny, Go
<1>3. ASSUME Allow(t)
      PROVE  /\ of[t] \in Deliveries /\ of[t] \in 1..Len(sent) /\ of' = of
             /\ Written(t, of[t], "received", "allowed", [Found(of[t]) EXCEPT !.decision = "allowed"])
  <2> DEFINE r == [Found(of[t]) EXCEPT !.decision = "allowed"]
  <2>1. of[t] \in Deliveries /\ of[t] \in 1..Len(sent)
    BY <1>3, HasDelivery DEF Allow, Go
  <2>2. r \in Records
    BY <2>1, FoundTyped
  <2>3. Rewritten(of[t], r) /\ Overwritten(of[t], r)
    BY <1>3, <2>1, <2>2, SaveWrites DEF Allow
  <2> QED
    BY <1>3, <2>1, <2>2, <2>3 DEF Allow, Go
<1>4. ASSUME RecordRun(t)
      PROVE  /\ of[t] \in Deliveries /\ of[t] \in 1..Len(sent) /\ of' = of
             /\ Written(t, of[t], "record", "done", [Found(of[t]) EXCEPT !.decision = "allowed", !.stem = t])
  <2> DEFINE r == [Found(of[t]) EXCEPT !.decision = "allowed", !.stem = t]
  <2>1. of[t] \in Deliveries /\ of[t] \in 1..Len(sent)
    BY <1>4, HasDelivery DEF RecordRun, Go
  <2>2. r \in Records
    BY <2>1, FoundTyped
  <2>3. Rewritten(of[t], r) /\ Overwritten(of[t], r)
    BY <1>4, <2>1, <2>2, SaveWrites DEF RecordRun
  <2> QED
    BY <1>4, <2>1, <2>2, <2>3 DEF RecordRun, Go
<1> QED
  BY <1>1, <1>2, <1>3, <1>4

\* Every step is quiet, or one of the others by name.
LEMMA StepKinds ==
  ASSUME TypeOK, [Next]_vars
  PROVE  \/ \E labeled \in BOOLEAN, s \in Senders, l \in Labels : IssueChanges(labeled, s, l)
         \/ \E t \in Receipts : \/ Quiet(t)
                                \/ \E d \in 1..Len(sent) : Receive(t, d)
                                \/ Deny(t) \/ Allow(t) \/ RecordRun(t)
         \/ Restart
         \/ UNCHANGED vars
BY QuietSteps DEF Next, Step, HandlerStep, RunStep

\* A restart forgets no delivery and no run, only where the receipts were.
LEMMA RestartLoses ==
  ASSUME TypeOK, Restart
  PROVE  /\ UNCHANGED <<sent, of, started>> /\ restarts' > 0
         /\ at' = [t \in Receipts |-> IF at[t] \in Underway THEN "lost" ELSE at[t]]
         /\ \A x \in Deliveries : rec'[x] = Absent \/ rec'[x] = file.rec[x]
         /\ Persist
<1>1. PICK n \in 0..Len(file.stored) : Reload(n)
  BY DEF Restart
<1> QED
  BY <1>1, ReloadTyped, SizesAssumption DEF Restart, Reload, github, TypeOK

\* What is past stays past.
LEMMA RememberedStep ==
  ASSUME TypeOK, Assigned, [Next]_vars
  PROVE  Remembered
<1> USE DEF Remembered
<1>1. ASSUME NEW labeled \in BOOLEAN, NEW s \in Senders, NEW l \in Labels, IssueChanges(labeled, s, l)
      PROVE Remembered
  BY <1>1 DEF IssueChanges, TypeOK
<1>2. ASSUME NEW t \in Receipts, Quiet(t) PROVE Remembered
  <2>1. UNCHANGED <<sent, of>> /\ started \subseteq started'
    BY <1>2 DEF Quiet
  <2>2. \A u \in Receipts : at[u] # "none" => at'[u] # "none"
    BY <1>2 DEF Quiet, TypeOK, Underway, InHandler, InPool, Preparing
  <2>3. Len(sent) <= Len(sent')
    BY <2>1 DEF TypeOK
  <2> QED
    BY <2>1, <2>2, <2>3
<1>3. ASSUME NEW t \in Receipts, NEW d \in 1..Len(sent), Receive(t, d) PROVE Remembered
  BY <1>3 DEF Receive, github, TypeOK
<1>4. ASSUME NEW t \in Receipts, Deny(t) \/ Allow(t) \/ RecordRun(t) PROVE Remembered
  BY <1>4 DEF Deny, Allow, RecordRun, Go, github, TypeOK
<1>5. CASE Restart
  BY <1>5, RestartLoses DEF TypeOK
<1>6. CASE UNCHANGED vars
  BY <1>6 DEF vars, github, TypeOK
<1> QED
  BY <1>1, <1>2, <1>3, <1>4, <1>5, <1>6, StepKinds

\* The file is what was written, or what was there.
LEMMA Persisted ==
  ASSUME Persist
  PROVE  \/ /\ file' = [stored |-> stored', rec |-> rec'] /\ file'.rec = rec'
            /\ unsaved' = unsaved
         \/ file' = file /\ unsaved' = TRUE
<1>1. [stored |-> stored', rec |-> rec'].rec = rec'
  OBVIOUS
<1> QED
  BY <1>1 DEF Persist

\* What is new in a step is of a delivery that was sent.
OnlySent ==
  /\ \A t \in Receipts : at'[t] # "none" /\ at[t] = "none" => of'[t] \in 1..Len(sent)
  /\ \A d \in Deliveries : rec'[d].decision # "none" =>
       rec[d].decision # "none" \/ file.rec[d].decision # "none" \/ d \in 1..Len(sent)
  /\ file' = file \/ file'.rec = rec'
  /\ \A t \in started' : t \in started \/ at'[t] # "none"

\* That is so when a record is saved.
LEMMA SavedOnlySent ==
  ASSUME TypeOK, NEW t \in Receipts, NEW d \in Deliveries, d \in 1..Len(sent),
         NEW from, NEW to, NEW r, Written(t, d, from, to, r), of'[t] = d
  PROVE  OnlySent
<1>1. \A u \in Receipts : at'[u] # "none" /\ at[u] = "none" => u = t
  BY DEF Written, TypeOK
<1>2. \A x \in Deliveries : rec'[x].decision # "none" => rec[x].decision # "none" \/ x = d
  BY DEF Written, Rewritten, Absent
<1>3. file' = file \/ file'.rec = rec'
  BY Persisted DEF Written
<1>4. started' = started
  BY DEF Written
<1> QED
  BY <1>1, <1>2, <1>3, <1>4 DEF OnlySent

\* Receipts and records are always those of deliveries.
LEMMA AssignedStep ==
  ASSUME TypeOK, Assigned, [Next]_vars
  PROVE  Assigned'
<1>1. Remembered
  BY RememberedStep
<1>2. 1..Len(sent) \subseteq 1..Len(sent')
  <2>1. Len(sent) \in Nat
    BY DEF TypeOK
  <2>2. TypeOK'
    BY TypeStep
  <2>3. Len(sent') \in Nat
    BY <2>2 DEF TypeOK
  <2> QED
    BY <1>1, <2>1, <2>3 DEF Remembered
<1>3. SUFFICES OnlySent
  <2>1. \A t \in Receipts : at'[t] # "none" => of'[t] \in 1..Len(sent)
    BY <1>1, <1>3 DEF Remembered, Assigned, OnlySent
  <2>2. \A d \in Deliveries : rec'[d].decision # "none" => d \in 1..Len(sent)
    BY <1>3 DEF Assigned, OnlySent
  <2>3. \A d \in Deliveries : file'.rec[d].decision # "none" => d \in 1..Len(sent)
    BY <1>3, <2>2 DEF Assigned, OnlySent
  <2>4. \A t \in started' : at'[t] # "none"
    BY <1>1, <1>3 DEF Remembered, Assigned, TypeOK, OnlySent
  <2> QED
    BY <1>2, <2>1, <2>2, <2>3, <2>4 DEF Assigned
<1>4. ASSUME NEW labeled \in BOOLEAN, NEW s \in Senders, NEW l \in Labels, IssueChanges(labeled, s, l)
      PROVE OnlySent
  BY <1>4 DEF IssueChanges, store, OnlySent
<1>5. ASSUME NEW t \in Receipts, Quiet(t) PROVE OnlySent
  <2>1. \A u \in Receipts : at[u] = "none" => at'[u] = "none"
    BY <1>5 DEF Quiet, TypeOK, Accepted, Underway, InHandler, InPool, Preparing
  <2>2. at'[t] # "none"
    BY <1>5 DEF Quiet, Underway, InHandler, InPool, Preparing
  <2>3. UNCHANGED <<rec, file>> /\ (started' = started \/ started' = started \cup {t})
    BY <1>5 DEF Quiet
  <2> QED
    BY <2>1, <2>2, <2>3 DEF OnlySent
<1>6. ASSUME NEW t \in Receipts, NEW d \in 1..Len(sent), Receive(t, d) PROVE OnlySent
  <2>1. /\ d \in Deliveries /\ of' = [of EXCEPT ![t] = d]
        /\ Written(t, d, "none", "received", [Found(d) EXCEPT !.known = TRUE])
    BY <1>6, WritingSteps
  <2>2. of'[t] = d
    BY <2>1 DEF TypeOK
  <2> QED
    BY <2>1, <2>2, SavedOnlySent
<1>7. ASSUME NEW t \in Receipts, Deny(t) \/ Allow(t) \/ RecordRun(t) PROVE OnlySent
  <2>1. of[t] \in Deliveries /\ of[t] \in 1..Len(sent) /\ of'[t] = of[t]
    BY <1>7, WritingSteps
  <2>2. Deny(t) => OnlySent
    BY <2>1, WritingSteps, SavedOnlySent
  <2>3. Allow(t) => OnlySent
    BY <2>1, WritingSteps, SavedOnlySent
  <2>4. ASSUME RecordRun(t) PROVE OnlySent
    <3>1. Written(t, of[t], "record", "done", [Found(of[t]) EXCEPT !.decision = "allowed", !.stem = t])
      BY <2>4, WritingSteps
    <3>2. \E r : Written(t, of[t], "record", "done", r)
      BY <3>1
    <3> QED
      BY <2>1, <3>2, SavedOnlySent
  <2> QED
    BY <1>7, <2>2, <2>3, <2>4
<1>8. CASE Restart
  <2>1. file' = file \/ file'.rec = rec'
    BY <1>8, RestartLoses, Persisted
  <2>2. \A d \in Deliveries : rec'[d].decision # "none" => file.rec[d].decision # "none"
    BY <1>8, RestartLoses DEF Absent
  <2>3. \A t \in Receipts : at[t] = "none" => at'[t] = "none"
    BY <1>8, RestartLoses DEF Underway, InHandler, InPool, Preparing
  <2>4. started' = started
    BY <1>8, RestartLoses
  <2> QED
    BY <2>1, <2>2, <2>3, <2>4 DEF OnlySent
<1>9. CASE UNCHANGED vars
  BY <1>9 DEF vars, store, OnlySent
<1> QED
  BY <1>4, <1>5, <1>6, <1>7, <1>8, <1>9, StepKinds

------------------------------------------------------------------------------
(* The gate. *)

\* What is on its way to a run, or has one, has passed the gate.
Gated ==
  /\ \A t \in Receipts : at[t] \in Accepted => ShouldDispatch(sent[of[t]])
  /\ \A t \in started : ShouldDispatch(sent[of[t]])
  /\ \A t \in Receipts : at[t] = "record" => t \in started

\* The payload of a receipt does not change.
LEMMA SamePayload ==
  ASSUME TypeOK, Assigned, Remembered, NEW t \in Receipts, at[t] # "none"
  PROVE  of'[t] = of[t] /\ sent'[of'[t]] = sent[of[t]]
BY DEF Assigned, Remembered

\* The gate is passed before the run, and once.
LEMMA GatedStep ==
  ASSUME TypeOK, Assigned, Gated, [Next]_vars
  PROVE  Gated'
<1>1. Remembered
  BY RememberedStep
<1>2. \A t \in Receipts : at[t] # "none" => sent'[of'[t]] = sent[of[t]]
  BY <1>1, SamePayload
<1>3. "none" \notin Accepted /\ \A t \in started : t \in Receipts /\ at[t] # "none"
  BY DEF Accepted, Underway, InHandler, InPool, Preparing, Assigned, TypeOK
<1>4. SUFFICES /\ \A t \in Receipts : at'[t] \in Accepted =>
                    at[t] # "none" /\ (at[t] \in Accepted \/ ShouldDispatch(sent[of[t]]))
               /\ \A t \in started' : t \in started \/ at[t] \in Accepted
               /\ \A t \in Receipts : at'[t] = "record" => at[t] = "record" \/ t \in started'
  <2>1. \A t \in Receipts : at'[t] \in Accepted => ShouldDispatch(sent'[of'[t]])
    BY <1>2, <1>4 DEF Gated
  <2>2. \A t \in Receipts : at'[t] = "record" => t \in started'
    BY <1>1, <1>4 DEF Gated, Remembered
  <2>3. started' \subseteq Receipts
    <3>1. TypeOK'
      BY TypeStep
    <3> QED
      BY <3>1 DEF TypeOK
  <2>4. \A t \in started' : ShouldDispatch(sent'[of'[t]])
    BY <1>2, <1>3, <1>4, <2>3 DEF Gated
  <2> QED
    BY <2>1, <2>2, <2>4 DEF Gated, Accepted, Underway, InHandler, InPool, Preparing
<1>5. ASSUME NEW labeled \in BOOLEAN, NEW s \in Senders, NEW l \in Labels, IssueChanges(labeled, s, l)
      PROVE UNCHANGED <<at, started>>
  BY <1>5 DEF IssueChanges
<1>6. ASSUME NEW t \in Receipts, Quiet(t) PROVE <1>4!1
  BY <1>3, <1>6 DEF Quiet, TypeOK
<1>7. ASSUME NEW t \in Receipts, NEW d \in 1..Len(sent), Receive(t, d) PROVE <1>4!1
  <2>1. at' = [at EXCEPT ![t] = "received"] /\ started' = started
    BY <1>7 DEF Receive
  <2>2. "received" \notin Accepted
    BY DEF Accepted
  <2> QED
    BY <1>3, <2>1, <2>2 DEF TypeOK
<1>8. ASSUME NEW t \in Receipts, Deny(t) \/ Allow(t) \/ RecordRun(t) PROVE <1>4!1
  <2>1. "ignored" \notin Accepted /\ "record" \in Accepted
    BY DEF Accepted, Underway, InHandler, InPool, Preparing
  <2> QED
    BY <1>3, <1>8, <2>1 DEF Deny, Allow, RecordRun, Go, TypeOK
<1>9. ASSUME Restart PROVE <1>4!1
  <2>1. "lost" \notin Accepted
    BY DEF Accepted, Underway, InHandler, InPool, Preparing
  <2> QED
    BY <1>3, <1>9, <2>1, RestartLoses
<1>10. ASSUME UNCHANGED <<at, started>> PROVE <1>4!1
  BY <1>3, <1>10
<1>11. CASE UNCHANGED vars
  BY <1>10, <1>11 DEF vars
<1> QED
  BY <1>5, <1>6, <1>7, <1>8, <1>9, <1>10, <1>11, StepKinds

------------------------------------------------------------------------------
(* The records. *)

\* What it means that a record is true after the step.
Later(d, r) ==
  /\ r.decision = "denied" => ~ShouldDispatch(sent'[d])
  /\ r.decision = "allowed" => ShouldDispatch(sent'[d])
  /\ r.stem # 0 => r.decision = "allowed" /\ r.stem \in started' /\ of'[r.stem] = d
  /\ r.decision = "pending" => Awaited(d)'

\* A true record stays true, if it is not one that waits for its handler.
LEMMA StillTrue ==
  ASSUME TypeOK, Assigned, Remembered, NEW d \in Deliveries, NEW r \in Records,
         TrueOf(d, r), r.decision # "none" => d \in 1..Len(sent),
         r.decision = "pending" => Awaited(d)'
  PROVE  Later(d, r)
<1>1. r.decision # "none" => sent'[d] = sent[d]
  BY DEF Remembered
<1>2. r.stem # 0 => r.stem \in started' /\ of'[r.stem] = d
  <2> SUFFICES ASSUME r.stem # 0 PROVE r.stem \in started' /\ of'[r.stem] = d
    OBVIOUS
  <2>1. r.stem \in started /\ of[r.stem] = d
    BY DEF TrueOf
  <2>2. r.stem \in Receipts /\ at[r.stem] # "none"
    BY <2>1 DEF TypeOK, Assigned
  <2> QED
    BY <2>1, <2>2 DEF Remembered
<1> QED
  BY <1>1, <1>2 DEF TrueOf, Later

\* The records after a step that saves one.
LEMMA SavedTrue ==
  ASSUME TypeOK, Assigned, Remembered, RecordsAreTrue, NEW t \in Receipts, NEW d \in Deliveries,
         NEW from, NEW to, NEW r, Written(t, d, from, to, r), Later(d, r),
         \A x \in Deliveries \ {d} : Awaited(x) => Awaited(x)'
  PROVE  RecordsAreTrue'
<1>1. \A x \in Deliveries : Later(x, Absent)
  BY DEF Later, Absent
<1>2. ASSUME NEW x \in Deliveries PROVE Later(x, rec'[x])
  <2>1. CASE rec'[x] = Absent
    BY <1>1, <2>1
  <2>2. CASE x = d /\ rec'[x] # Absent
    BY <2>2 DEF Written, Overwritten
  <2>3. CASE x # d /\ rec'[x] # Absent
    <3>1. rec'[x] = rec[x]
      BY <2>3 DEF Written, Rewritten
    <3>2. rec[x] \in Records /\ TrueOf(x, rec[x]) /\ (rec[x].decision # "none" => x \in 1..Len(sent))
      BY DEF TypeOK, RecordsAreTrue, Assigned
    <3>3. rec[x].decision = "pending" => Awaited(x)'
      BY <2>3, <3>2 DEF TrueOf
    <3>4. Later(x, rec[x])
      BY <3>2, <3>3, StillTrue
    <3> QED
      BY <3>1, <3>4
  <2> QED
    BY <2>1, <2>2, <2>3
<1>3. ASSUME NEW x \in Deliveries PROVE Later(x, file'.rec[x])
  <2>1. CASE file'.rec = rec'
    BY <1>2, <2>1
  <2>2. CASE file' = file /\ unsaved' = TRUE
    <3>1. file.rec[x] \in Records /\ TrueOf(x, file.rec[x]) /\ (file.rec[x].decision # "none" => x \in 1..Len(sent))
      BY DEF TypeOK, RecordsAreTrue, Assigned
    <3>2. Awaited(x)'
      BY <2>2 DEF Awaited
    <3> QED
      BY <2>2, <3>1, <3>2, StillTrue
  <2> QED
    BY <2>1, <2>2, Persisted DEF Written
<1> QED
  BY <1>2, <1>3 DEF RecordsAreTrue, TrueOf, Later

\* The records after a step that writes none, or makes memory what the file says.
LEMMA KeptTrue ==
  ASSUME TypeOK, Assigned, Remembered, RecordsAreTrue,
         \A x \in Deliveries : rec'[x] = Absent \/ rec'[x] = rec[x] \/ rec'[x] = file.rec[x],
         file' = file \/ file'.rec = rec',
         \A x \in Deliveries : Awaited(x) => Awaited(x)'
  PROVE  RecordsAreTrue'
<1>1. ASSUME NEW x \in Deliveries
      PROVE Later(x, Absent) /\ Later(x, rec[x]) /\ Later(x, file.rec[x])
  <2>1. rec[x] \in Records /\ TrueOf(x, rec[x]) /\ (rec[x].decision # "none" => x \in 1..Len(sent))
    BY DEF TypeOK, RecordsAreTrue, Assigned
  <2>2. file.rec[x] \in Records /\ TrueOf(x, file.rec[x]) /\ (file.rec[x].decision # "none" => x \in 1..Len(sent))
    BY DEF TypeOK, RecordsAreTrue, Assigned
  <2>3. /\ rec[x].decision = "pending" => Awaited(x)'
        /\ file.rec[x].decision = "pending" => Awaited(x)'
    BY <2>1, <2>2 DEF TrueOf
  <2>4. Later(x, Absent)
    BY DEF Later, Absent
  <2> QED
    BY <2>1, <2>2, <2>3, <2>4, StillTrue
<1>2. ASSUME NEW x \in Deliveries PROVE Later(x, rec'[x]) /\ Later(x, file'.rec[x])
  BY <1>1
<1> QED
  BY <1>2 DEF RecordsAreTrue, TrueOf, Later

\* A handler that is still there is awaited as before.
LEMMA StillAwaited ==
  ASSUME restarts \in Nat, restarts' = restarts, unsaved' = unsaved \/ unsaved' = TRUE, of' = of,
         NEW x, Awaited(x), \A u \in Receipts : at[u] = "received" /\ of[u] = x => at'[u] = "received"
  PROVE  Awaited(x)'
BY DEF Awaited

\* Records say what was decided and done.
LEMMA RecordsStep ==
  ASSUME TypeOK, Assigned, Gated, RecordsAreTrue, [Next]_vars
  PROVE  RecordsAreTrue'
<1>1. Remembered
  BY RememberedStep
<1>2. restarts \in Nat
  BY SizesAssumption DEF TypeOK
<1>3. ASSUME NEW labeled \in BOOLEAN, NEW s \in Senders, NEW l \in Labels, IssueChanges(labeled, s, l)
      PROVE RecordsAreTrue'
  <2>1. UNCHANGED <<at, of, rec, file, unsaved, restarts>>
    BY <1>3 DEF IssueChanges, store
  <2>2. \A x \in Deliveries : Awaited(x) => Awaited(x)'
    BY <1>2, <2>1, StillAwaited
  <2> QED
    BY <1>1, <2>1, <2>2, KeptTrue
<1>4. ASSUME NEW t \in Receipts, Quiet(t) PROVE RecordsAreTrue'
  <2>1. \A u \in Receipts : at[u] = "received" => at'[u] = "received"
    BY <1>4 DEF Quiet, Accepted, TypeOK
  <2>2. UNCHANGED <<of, rec, file, unsaved, restarts>>
    BY <1>4 DEF Quiet
  <2>3. \A x \in Deliveries : Awaited(x) => Awaited(x)'
    BY <1>2, <2>1, <2>2, StillAwaited
  <2> QED
    BY <1>1, <2>2, <2>3, KeptTrue
<1>5. ASSUME NEW t \in Receipts, NEW d \in 1..Len(sent), Receive(t, d) PROVE RecordsAreTrue'
  <2> DEFINE r == [Found(d) EXCEPT !.known = TRUE]
  <2>1. d \in Deliveries /\ of' = [of EXCEPT ![t] = d] /\ Written(t, d, "none", "received", r)
    BY <1>5, WritingSteps
  <2>2. at'[t] = "received" /\ of'[t] = d
    BY <2>1 DEF Written, TypeOK
  <2>3. Awaited(d)'
    BY <2>2 DEF Awaited
  <2>4. ASSUME NEW x \in Deliveries, Awaited(x) PROVE Awaited(x)'
    <3>1. \A u \in Receipts : at[u] = "received" => at'[u] = "received" /\ of'[u] = of[u]
      BY <2>1 DEF Written, TypeOK
    <3>2. restarts' = restarts /\ (unsaved' = unsaved \/ unsaved' = TRUE)
      BY <2>1, Persisted DEF Written
    <3> QED
      BY <2>4, <3>1, <3>2 DEF Awaited
  <2>5. Found(d) \in Records /\ TrueOf(d, rec[d])
    BY <2>1, FoundTyped DEF RecordsAreTrue
  <2>6. sent'[d] = sent[d]
    BY <1>1 DEF Remembered
  <2>7. r.decision = Found(d).decision /\ r.stem = Found(d).stem
    BY <2>5 DEF Records
  <2>8. CASE rec[d].decision = "none"
    <3>1. Found(d).decision = "pending" /\ Found(d).stem = 0
      BY <2>8 DEF Found, Absent
    <3>2. Later(d, r)
      BY <2>3, <2>7, <3>1 DEF Later
    <3> HIDE DEF r
    <3> QED
      BY <1>1, <2>1, <2>4, <3>2, SavedTrue
  <2>9. CASE rec[d].decision # "none"
    <3>1. Found(d) = rec[d]
      BY <2>9 DEF Found
    <3>2. Later(d, rec[d])
      BY <1>1, <2>1, <2>3, <2>5, <3>1, StillTrue
    <3>3. Later(d, r)
      BY <2>7, <3>1, <3>2 DEF Later
    <3> HIDE DEF r
    <3> QED
      BY <1>1, <2>1, <2>4, <3>3, SavedTrue
  <2> QED
    BY <2>8, <2>9
<1>6. ASSUME NEW t \in Receipts, NEW d \in Deliveries, d \in 1..Len(sent), of[t] = d, of' = of,
             NEW from, NEW to, NEW r, Written(t, d, from, to, r), Later(d, r)
      PROVE RecordsAreTrue'
  <2>1. restarts' = restarts /\ (unsaved' = unsaved \/ unsaved' = TRUE)
    BY <1>6, Persisted DEF Written
  <2>2. \A x \in Deliveries \ {d} : Awaited(x) => Awaited(x)'
    <3> TAKE x \in Deliveries \ {d}
    <3>1. \A u \in Receipts : at[u] = "received" /\ of[u] = x => at'[u] = "received"
      BY <1>6 DEF Written, TypeOK
    <3> QED
      BY <1>2, <1>6, <2>1, <3>1, StillAwaited
  <2> QED
    BY <1>1, <1>6, <2>2, SavedTrue
<1>7. ASSUME NEW t \in Receipts, Deny(t) \/ Allow(t) \/ RecordRun(t)
      PROVE /\ of[t] \in Deliveries /\ of[t] \in 1..Len(sent) /\ of' = of
            /\ Found(of[t]) \in Records /\ sent'[of[t]] = sent[of[t]]
            /\ Found(of[t]).stem # 0 => /\ ShouldDispatch(sent[of[t]])
                                        /\ Found(of[t]).stem \in started'
                                        /\ of'[Found(of[t]).stem] = of[t]
  <2>1. of[t] \in Deliveries /\ of[t] \in 1..Len(sent) /\ of' = of
    BY <1>7, WritingSteps
  <2>2. TrueOf(of[t], rec[of[t]])
    BY <2>1 DEF RecordsAreTrue
  <2>3. Found(of[t]).stem # 0 => Found(of[t]) = rec[of[t]]
    BY DEF Found, Absent
  <2>4. started \subseteq started'
    BY <1>1 DEF Remembered
  <2> QED
    BY <1>1, <2>1, <2>2, <2>3, <2>4, FoundTyped DEF Remembered, TrueOf
<1>8. ASSUME NEW t \in Receipts, Deny(t) PROVE RecordsAreTrue'
  <2> DEFINE r == [Found(of[t]) EXCEPT !.decision = "denied"]
  <2>1. ~ShouldDispatch(sent[of[t]]) /\ Written(t, of[t], "received", "ignored", r)
    BY <1>8, WritingSteps DEF Deny
  <2>2. r.decision = "denied" /\ r.stem = Found(of[t]).stem
    BY <1>7, <1>8 DEF Records
  <2>3. Later(of[t], r)
    BY <1>7, <1>8, <2>1, <2>2 DEF Later
  <2> HIDE DEF r
  <2> QED
    BY <1>6, <1>7, <1>8, <2>1, <2>3
<1>9. ASSUME NEW t \in Receipts, Allow(t) PROVE RecordsAreTrue'
  <2> DEFINE r == [Found(of[t]) EXCEPT !.decision = "allowed"]
  <2>1. ShouldDispatch(sent[of[t]]) /\ Written(t, of[t], "received", "allowed", r)
    BY <1>9, WritingSteps DEF Allow
  <2>2. r.decision = "allowed" /\ r.stem = Found(of[t]).stem
    BY <1>7, <1>9 DEF Records
  <2>3. Later(of[t], r)
    BY <1>7, <1>9, <2>1, <2>2 DEF Later
  <2> HIDE DEF r
  <2> QED
    BY <1>6, <1>7, <1>9, <2>1, <2>3
<1>10. ASSUME NEW t \in Receipts, RecordRun(t) PROVE RecordsAreTrue'
  <2> DEFINE r == [Found(of[t]) EXCEPT !.decision = "allowed", !.stem = t]
  <2>1. Written(t, of[t], "record", "done", r)
    BY <1>10, WritingSteps
  <2>2. r.decision = "allowed" /\ r.stem = t
    BY <1>7, <1>10 DEF Records
  <2>3. t \in started'
    BY <1>1, <2>1 DEF Gated, Written, Remembered
  <2>4. ShouldDispatch(sent[of[t]])
    BY <2>1 DEF Gated, Written
  <2>5. Later(of[t], r)
    BY <1>7, <1>10, <2>2, <2>3, <2>4 DEF Later
  <2> HIDE DEF r
  <2> QED
    BY <1>6, <1>7, <1>10, <2>1, <2>5
<1>11. CASE Restart
  <2>1. restarts' > 0
    BY <1>11, RestartLoses
  <2>2. \A x \in Deliveries : Awaited(x)'
    BY <2>1 DEF Awaited
  <2>3. file' = file \/ file'.rec = rec'
    BY <1>11, RestartLoses, Persisted
  <2> QED
    BY <1>1, <1>11, <2>2, <2>3, RestartLoses, KeptTrue
<1>12. CASE UNCHANGED vars
  <2>1. UNCHANGED <<at, of, rec, file, unsaved, restarts>>
    BY <1>12 DEF vars, store
  <2>2. \A x \in Deliveries : Awaited(x) => Awaited(x)'
    BY <1>2, <2>1, StillAwaited
  <2> QED
    BY <1>1, <2>1, <2>2, KeptTrue
<1> QED
  BY <1>3, <1>4, <1>5, <1>8, <1>9, <1>10, <1>11, <1>12, StepKinds

\* Unless a write failed, the file is the memory.
FileCurrent == ~unsaved => file = [stored |-> stored, rec |-> rec] /\ file.rec = rec

\* Each write makes it so.
LEMMA FileStep ==
  ASSUME TypeOK, Assigned, FileCurrent, [Next]_vars
  PROVE  FileCurrent'
<1>1. Persist => FileCurrent'
  BY Persisted DEF FileCurrent
<1>2. UNCHANGED <<stored, rec, file, unsaved>> => FileCurrent'
  BY DEF FileCurrent
<1>3. ASSUME NEW labeled \in BOOLEAN, NEW s \in Senders, NEW l \in Labels, IssueChanges(labeled, s, l)
      PROVE FileCurrent'
  BY <1>2, <1>3 DEF IssueChanges, store
<1>4. ASSUME NEW t \in Receipts, Quiet(t) PROVE FileCurrent'
  BY <1>2, <1>4 DEF Quiet
<1>5. ASSUME NEW t \in Receipts, NEW d \in 1..Len(sent), Receive(t, d) PROVE FileCurrent'
  BY <1>1, <1>5 DEF Receive, Save
<1>6. ASSUME NEW t \in Receipts, Deny(t) \/ Allow(t) \/ RecordRun(t) PROVE FileCurrent'
  BY <1>1, <1>6 DEF Deny, Allow, RecordRun, Save
<1>7. CASE Restart
  BY <1>1, <1>7, RestartLoses
<1>8. CASE UNCHANGED vars
  BY <1>2, <1>8 DEF vars, store
<1> QED
  BY <1>3, <1>4, <1>5, <1>6, <1>7, <1>8, StepKinds

\* A receipt of the delivery accounts for its missing run.
Explained(d) ==
  unsaved \/ \E t \in Receipts : of[t] = d /\ at[t] \in Underway \cup {"failed", "lost"}

\* Explanations outlive any step that takes no receipt of the delivery to its end.
LEMMA StillExplained ==
  ASSUME unsaved' = unsaved \/ unsaved' = TRUE, NEW d, Explained(d),
         \A t \in Receipts : of[t] = d /\ at[t] \in Underway \cup {"failed", "lost"} =>
           of'[t] = d /\ at'[t] \in Underway \cup {"failed", "lost"}
  PROVE  Explained(d)'
BY DEF Explained

\* A link that is missing has its reason.
LEMMA UnlinkedStep ==
  ASSUME TypeOK, Assigned, FileCurrent, UnlinkedIsExplained, [Next]_vars
  PROVE  UnlinkedIsExplained'
<1> DEFINE Unlinked(r) == r.decision = "allowed" /\ r.stem = 0
<1>1. \A d \in Deliveries : Unlinked(rec[d]) => Explained(d)
  BY DEF UnlinkedIsExplained, Explained
<1>2. SUFFICES \A d \in Deliveries : Unlinked(rec'[d]) => Explained(d)'
  BY DEF UnlinkedIsExplained, Explained
<1>3. ~Unlinked(Absent)
  BY DEF Absent
<1>4. {"none", "ignored", "done"} \cap (Underway \cup {"failed", "lost"}) = {}
  BY DEF Underway, InHandler, InPool, Preparing
<1> HIDE DEF Unlinked
<1>5. ASSUME UNCHANGED <<at, of, rec, unsaved>>
      PROVE \A d \in Deliveries : Unlinked(rec'[d]) => Explained(d)'
  BY <1>1, <1>5 DEF Explained
<1>6. ASSUME NEW labeled \in BOOLEAN, NEW s \in Senders, NEW l \in Labels, IssueChanges(labeled, s, l)
      PROVE \A d \in Deliveries : Unlinked(rec'[d]) => Explained(d)'
  BY <1>5, <1>6 DEF IssueChanges, store
<1>7. ASSUME NEW t \in Receipts, Quiet(t)
      PROVE \A d \in Deliveries : Unlinked(rec'[d]) => Explained(d)'
  <2>1. \A u \in Receipts : at[u] \in Underway \cup {"failed", "lost"} => at'[u] \in Underway \cup {"failed", "lost"}
    BY <1>7 DEF Quiet, TypeOK
  <2>2. UNCHANGED <<of, rec, unsaved>>
    BY <1>7 DEF Quiet
  <2> QED
    BY <1>1, <2>1, <2>2, StillExplained
<1>8. ASSUME NEW t \in Receipts, NEW d \in Deliveries, NEW from, NEW to, NEW r, Written(t, d, from, to, r),
             Unlinked(r) => Explained(d)',
             \A u \in Receipts : u # t => of'[u] = of[u], from = "none" \/ of[t] = d
      PROVE \A x \in Deliveries : Unlinked(rec'[x]) => Explained(x)'
  <2> TAKE x \in Deliveries
  <2>1. CASE x = d
    BY <1>3, <1>8, <2>1 DEF Written, Overwritten
  <2>2. CASE x # d
    <3> SUFFICES ASSUME Unlinked(rec'[x]) PROVE Explained(x)'
      OBVIOUS
    <3>1. Explained(x)
      BY <1>1, <1>3, <1>8, <2>2 DEF Written, Rewritten
    <3>2. unsaved' = unsaved \/ unsaved' = TRUE
      BY <1>8, Persisted DEF Written
    <3>3. \A u \in Receipts : of[u] = x /\ at[u] \in Underway \cup {"failed", "lost"} => u # t
      BY <1>4, <1>8, <2>2 DEF Written
    <3>4. \A u \in Receipts : u # t => at'[u] = at[u]
      BY <1>8 DEF Written, TypeOK
    <3> QED
      BY <1>8, <3>1, <3>2, <3>3, <3>4, StillExplained
  <2> QED
    BY <2>1, <2>2
<1>9. ASSUME NEW t \in Receipts, NEW d \in 1..Len(sent), Receive(t, d)
      PROVE \A x \in Deliveries : Unlinked(rec'[x]) => Explained(x)'
  <2> DEFINE r == [Found(d) EXCEPT !.known = TRUE]
  <2>1. d \in Deliveries /\ of' = [of EXCEPT ![t] = d] /\ Written(t, d, "none", "received", r)
    BY <1>9, WritingSteps
  <2>2. of'[t] = d /\ at'[t] = "received"
    BY <2>1 DEF Written, TypeOK
  <2>3. Explained(d)'
    BY <2>2 DEF Explained, Underway, InHandler
  <2>4. \A u \in Receipts : u # t => of'[u] = of[u]
    BY <2>1 DEF TypeOK
  <2> HIDE DEF r
  <2> QED
    BY <1>8, <2>1, <2>3, <2>4
<1>10. ASSUME NEW t \in Receipts, Deny(t) \/ Allow(t) \/ RecordRun(t)
       PROVE of[t] \in Deliveries /\ of' = of /\ Found(of[t]) \in Records
  BY <1>10, WritingSteps, FoundTyped
<1>11. ASSUME NEW t \in Receipts, Deny(t)
       PROVE \A x \in Deliveries : Unlinked(rec'[x]) => Explained(x)'
  <2> DEFINE r == [Found(of[t]) EXCEPT !.decision = "denied"]
  <2>1. Written(t, of[t], "received", "ignored", r)
    BY <1>11, WritingSteps
  <2>2. ~Unlinked(r)
    BY <1>10, <1>11 DEF Unlinked, Records
  <2> HIDE DEF r
  <2> QED
    BY <1>8, <1>10, <1>11, <2>1, <2>2
<1>12. ASSUME NEW t \in Receipts, Allow(t)
       PROVE \A x \in Deliveries : Unlinked(rec'[x]) => Explained(x)'
  <2> DEFINE r == [Found(of[t]) EXCEPT !.decision = "allowed"]
  <2>1. Written(t, of[t], "received", "allowed", r)
    BY <1>12, WritingSteps
  <2>2. at'[t] = "allowed"
    BY <2>1 DEF Written, TypeOK
  <2>3. Explained(of[t])'
    BY <1>10, <1>12, <2>2 DEF Explained, Underway, InHandler
  <2> HIDE DEF r
  <2> QED
    BY <1>8, <1>10, <1>12, <2>1, <2>3
<1>13. ASSUME NEW t \in Receipts, RecordRun(t)
       PROVE \A x \in Deliveries : Unlinked(rec'[x]) => Explained(x)'
  <2> DEFINE r == [Found(of[t]) EXCEPT !.decision = "allowed", !.stem = t]
  <2>1. Written(t, of[t], "record", "done", r)
    BY <1>13, WritingSteps
  <2>2. r.stem = t /\ t # 0
    BY <1>10, <1>13 DEF Records, Receipts
  <2>3. ~Unlinked(r)
    BY <2>2 DEF Unlinked
  <2> HIDE DEF r
  <2> QED
    BY <1>8, <1>10, <1>13, <2>1, <2>3
<1>14. ASSUME Restart
       PROVE \A x \in Deliveries : Unlinked(rec'[x]) => Explained(x)'
  <2> TAKE x \in Deliveries
  <2> SUFFICES ASSUME Unlinked(rec'[x]), ~unsaved' PROVE Explained(x)'
    BY DEF Explained
  <2>1. ~unsaved /\ unsaved' = unsaved
    BY <1>14, RestartLoses, Persisted DEF TypeOK
  <2>2. rec'[x] = rec[x]
    BY <1>3, <1>14, <2>1, RestartLoses DEF FileCurrent
  <2>3. Explained(x)
    BY <1>1, <2>2
  <2>4. \A u \in Receipts : at[u] \in Underway \cup {"failed", "lost"} => at'[u] \in Underway \cup {"failed", "lost"}
    BY <1>14, RestartLoses
  <2> QED
    BY <1>14, <2>1, <2>3, <2>4, RestartLoses, StillExplained
<1>15. CASE UNCHANGED vars
  BY <1>5, <1>15 DEF vars, store
<1> QED
  BY <1>6, <1>7, <1>9, <1>11, <1>12, <1>13, <1>14, <1>15, StepKinds

------------------------------------------------------------------------------
(* The workspace. *)

\* Where a preparation is says what is in the directory.
InPlace(t) ==
  /\ at[t] = "clear" => dir \in {"absent", "empty"}
  /\ at[t] = "clone" => dir = "absent"
  /\ at[t] = "cloning" => OwnClone(t)
  /\ at[t] = "exclude" => dir \in Whole

\* While preparations do not meet, each finds and leaves what it should.
Sound ==
  \/ overlapped \/ cutShort
  \/ /\ dir # "broken"
     /\ ensured # {} => dir \in Whole
     /\ \A t, u \in PreparingNow : t = u
     /\ dir = "cloning" => cloner \in Receipts /\ at[cloner] = "cloning"
     /\ \A t \in Receipts : InPlace(t)

\* A step of a receipt that is not preparing, and does not begin to.
Aside ==
  /\ \A t \in Receipts : at[t] \in Preparing \/ at'[t] \in Preparing => at'[t] = at[t]
  /\ UNCHANGED <<dir, cloner, ensured, overlapped, cutShort>>

\* It changes nothing for the others.
LEMMA AsideSound ==
  ASSUME Sound, Aside
  PROVE  Sound'
BY DEF Sound, Aside, InPlace, OwnClone, PreparingNow, Preparing

\* All steps but those of the workspace, the beginning and a restart are such.
LEMMA AsideSteps ==
  ASSUME TypeOK, [Next]_vars
  PROVE  \/ Aside \/ Restart
         \/ \E t \in Receipts : Begin(t) \/ PrepareStep(t)
<1> USE DEF Preparing, space
<1>1. ASSUME NEW labeled \in BOOLEAN, NEW s \in Senders, NEW l \in Labels, IssueChanges(labeled, s, l)
      PROVE Aside
  BY <1>1 DEF IssueChanges, Aside
<1>2. ASSUME NEW t \in Receipts, NEW d \in 1..Len(sent), Receive(t, d) PROVE Aside
  BY <1>2 DEF Receive, Aside, TypeOK
<1>3. ASSUME NEW t \in Receipts, HandlerStep(t) PROVE Aside
  BY <1>3 DEF HandlerStep, Deny, Allow, Accept, AcceptFails, Go, Aside, TypeOK
<1>4. ASSUME NEW t \in Receipts, RunStep(t) PROVE Aside
  BY <1>4 DEF RunStep, StartRun, StartFails, StartFailsTo, RecordRun, Go, Aside, TypeOK
<1>5. CASE UNCHANGED vars
  BY <1>5 DEF vars, Aside
<1> QED
  BY <1>1, <1>2, <1>3, <1>4, <1>5 DEF Next, Step

\* The workspace of preparations that do not meet is sound.
LEMMA SoundStep ==
  ASSUME TypeOK, Sound, [Next]_vars
  PROVE  Sound'
<1>1. CASE Aside
  BY <1>1, AsideSound
<1>2. CASE Restart
  <2>1. /\ at' = [t \in Receipts |-> IF at[t] \in Underway THEN "lost" ELSE at[t]]
        /\ UNCHANGED <<ensured, overlapped>>
        /\ cutShort' = TRUE \/ UNCHANGED <<dir, cutShort>>
    BY <1>2 DEF Restart
  <2>2. \A t \in Receipts : at'[t] \notin Preparing
    BY <2>1 DEF TypeOK, Underway, InPool, Preparing, InHandler, Over
  <2>3. CASE cutShort'
    BY <2>3 DEF Sound
  <2>4. CASE UNCHANGED <<dir, cutShort>>
    <3>1. (PreparingNow' = {} /\ dir # "cloning") \/ cutShort \/ overlapped
      BY <1>2, <2>2, <2>4 DEF Restart, HalfWay, PreparingNow, Sound
    <3>2. (dir # "broken" /\ (ensured # {} => dir \in Whole)) \/ cutShort \/ overlapped
      BY DEF Sound
    <3> QED
      BY <2>1, <2>2, <2>4, <3>1, <3>2 DEF Sound, InPlace, PreparingNow, Preparing
  <2> QED
    BY <2>1, <2>3, <2>4
<1>3. ASSUME NEW t \in Receipts, Begin(t) PROVE Sound'
  <2>1. /\ overlapped' = (overlapped \/ PreparingNow # {})
        /\ at' = [at EXCEPT ![t] = IF of[t] \in WithoutUrl THEN "mkdir" ELSE "look"]
        /\ UNCHANGED <<dir, cloner, cutShort, ensured>>
    BY <1>3 DEF Begin, Go, space
  <2> SUFFICES ASSUME ~overlapped', ~cutShort' PROVE Sound'
    BY DEF Sound
  <2>2. PreparingNow = {}
    BY <2>1
  <2>3. \A u \in Receipts : u # t => at'[u] = at[u] /\ at'[u] \notin Preparing
    BY <2>1, <2>2 DEF PreparingNow, TypeOK
  <2>4. at'[t] \in {"mkdir", "look"}
    BY <2>1 DEF TypeOK
  <2>5. dir # "cloning"
    BY <2>1, <2>2 DEF Sound, PreparingNow, Preparing
  <2> QED
    BY <2>1, <2>3, <2>4, <2>5 DEF Sound, InPlace, PreparingNow, Preparing
<1>4. ASSUME NEW t \in Receipts, PrepareStep(t) PROVE Sound'
  <2>1. /\ overlapped' = overlapped /\ (cutShort => cutShort')
        /\ at[t] \in Preparing /\ at' = [at EXCEPT ![t] = at'[t]]
        /\ at'[t] \in Preparing \cup {"start"}
    BY <1>4 DEF PrepareStep, CloneStep, Look, Clear, CloneBegins, CloneRefused, CloneEnds, CloneFails, CloneBreaks,
                MakeDirectory, InitRepository, InitRefused, Exclude, Sync, PrepareFails, PrepareFailsTo, HalfDone,
                Go, Prepared, space, Preparing, TypeOK
  <2> SUFFICES ASSUME ~overlapped, ~cutShort, ~cutShort' PROVE Sound'
    BY <2>1 DEF Sound
  <2>2. \A u \in Receipts : u # t => at[u] \notin Preparing /\ at'[u] = at[u]
    BY <2>1 DEF Sound, PreparingNow, TypeOK
  <2>3. \A u, v \in PreparingNow' : u = v
    BY <2>2 DEF PreparingNow
  <2>4. \A u \in Receipts : u # t => InPlace(u)'
    BY <2>2 DEF InPlace, Preparing
  <2>5. /\ dir # "broken" /\ (ensured # {} => dir \in Whole)
        /\ dir = "cloning" => cloner = t /\ at[t] = "cloning"
        /\ InPlace(t)
    BY <2>2 DEF Sound, Preparing
  <2>6. SUFFICES /\ dir' # "broken" /\ (ensured' # {} => dir' \in Whole)
                 /\ dir' = "cloning" => cloner' = t /\ at'[t] = "cloning"
                 /\ InPlace(t)'
    BY <2>3, <2>4, <2>6 DEF Sound
  <2> USE DEF Go, Prepared, space, InPlace, OwnClone, Whole, HasGit
  <2>7. CASE Look(t)
    BY <2>5, <2>7 DEF Look, TypeOK
  <2>8. CASE Clear(t)
    BY <2>5, <2>8 DEF Clear, TypeOK
  <2>9. CASE CloneBegins(t)
    BY <2>5, <2>9 DEF CloneBegins, TypeOK
  <2>10. CASE CloneRefused(t)
    BY <2>5, <2>10 DEF CloneRefused, TypeOK
  <2>11. CASE CloneEnds(t)
    BY <2>5, <2>11 DEF CloneEnds, TypeOK
  <2>12. CASE CloneFails(t) \/ CloneBreaks(t)
    BY <2>5, <2>12 DEF CloneFails, CloneBreaks, TypeOK
  <2>13. CASE MakeDirectory(t)
    BY <2>5, <2>13 DEF MakeDirectory, TypeOK
  <2>14. CASE InitRepository(t)
    BY <2>5, <2>14 DEF InitRepository, TypeOK
  <2>15. CASE InitRefused(t)
    BY <2>5, <2>15 DEF InitRefused, TypeOK
  <2>16. CASE Exclude(t)
    BY <2>5, <2>16 DEF Exclude, TypeOK
  <2>17. CASE Sync(t)
    BY <2>5, <2>17 DEF Sync, TypeOK
  <2>18. CASE PrepareFails(t)
    BY <2>5, <2>18 DEF PrepareFails, PrepareFailsTo, HalfDone, TypeOK
  <2> QED
    BY <1>4, <2>7, <2>8, <2>9, <2>10, <2>11, <2>12, <2>13, <2>14, <2>15, <2>16, <2>17, <2>18
       DEF PrepareStep, CloneStep
<1> QED
  BY <1>1, <1>2, <1>3, <1>4, AsideSteps

\* A whole repository that nobody is about to remove or to clone again.
Settled == dir \in Whole /\ \A t \in Receipts : at[t] \notin {"clear", "clone", "cloning"}

\* It stays that, whoever prepares it.
LEMMA SettledStep ==
  ASSUME TypeOK, Settled, [Next]_vars
  PROVE  Settled'
<1> USE DEF Settled, Whole, HasGit, Go, Prepared, space, TypeOK
<1>1. CASE Aside
  BY <1>1 DEF Aside, Preparing
<1>2. CASE Restart
  BY <1>2 DEF Restart, HalfWay
<1>3. ASSUME NEW t \in Receipts, Begin(t) PROVE Settled'
  BY <1>3 DEF Begin
<1>4. ASSUME NEW t \in Receipts, CloneStep(t) PROVE Settled'
  BY <1>4 DEF CloneStep, Look, Clear, CloneBegins, CloneRefused, CloneEnds, CloneFails, CloneBreaks
<1>5. ASSUME NEW t \in Receipts, MakeDirectory(t) \/ InitRepository(t) \/ InitRefused(t) \/ Sync(t) PROVE Settled'
  BY <1>5 DEF MakeDirectory, InitRepository, InitRefused, Sync
<1>6. ASSUME NEW t \in Receipts, Exclude(t) \/ PrepareFails(t) PROVE Settled'
  BY <1>6 DEF Exclude, PrepareFails, PrepareFailsTo, HalfDone
<1> QED
  BY <1>1, <1>2, <1>3, <1>4, <1>5, <1>6, AsideSteps DEF PrepareStep

------------------------------------------------------------------------------
(* The invariant and what follows. *)

IInv ==
  /\ TypeOK
  /\ Assigned
  /\ Gated
  /\ RecordsAreTrue
  /\ FileCurrent
  /\ UnlinkedIsExplained
  /\ Sound

\* Nothing has been sent or received in the beginning.
LEMMA InitHolds == Init => IInv
<1> SUFFICES ASSUME Init PROVE IInv
  OBVIOUS
<1>1. Absent \in Records
  BY DEF Absent, Records
<1>2. file.stored = << >> /\ file.rec = rec
  BY DEF Init
<1>3. \A t \in Receipts : at[t] = "none"
  BY DEF Init
<1>4. \A d \in Deliveries : rec[d] = Absent
  BY DEF Init
<1>5. TypeOK
  <2>1. /\ onIssue \subseteq Labels
        /\ sent \in Seq(Payloads) /\ Len(sent) <= MaxDeliveries
    BY SizesAssumption DEF Init
  <2>2. at \in [Receipts -> {"none"} \cup Underway \cup Over] /\ of \in [Receipts -> Deliveries \cup {0}]
    BY DEF Init
  <2>3. stored \in Seq(Deliveries) /\ Len(stored) <= MaxStored /\ rec \in [Deliveries -> Records]
    BY <1>1, SizesAssumption DEF Init
  <2>4. dir \in {"absent", "empty"} \cup HasGit /\ cloner \in Receipts \cup {0}
    BY DEF Init, HasGit, Whole
  <2>5. overlapped \in BOOLEAN /\ cutShort \in BOOLEAN /\ unsaved \in BOOLEAN
    BY Zenon DEF Init
  <2>6. /\ ensured \subseteq Receipts /\ started \subseteq Receipts
        /\ restarts \in 0..MaxRestarts /\ faults \in 0..MaxFaults
    BY SizesAssumption DEF Init
  <2>7. /\ file.stored \in Seq(Deliveries) /\ Len(file.stored) <= MaxStored
        /\ file.rec \in [Deliveries -> Records]
    BY <1>2, <2>3, SizesAssumption
  <2> QED
    BY <2>1, <2>2, <2>3, <2>4, <2>5, <2>6, <2>7 DEF TypeOK
<1>6. Assigned /\ Gated
  BY <1>2, <1>3, <1>4 DEF Init, Assigned, Gated, Absent, Accepted, Underway, InHandler, InPool, Preparing
<1>7. RecordsAreTrue /\ UnlinkedIsExplained
  BY <1>2, <1>4 DEF RecordsAreTrue, TrueOf, UnlinkedIsExplained, Absent
<1>8. FileCurrent
  BY <1>2 DEF Init, FileCurrent
<1>9. Sound
  BY <1>3 DEF Init, Sound, InPlace, PreparingNow, Preparing, Whole
<1> QED
  BY <1>5, <1>6, <1>7, <1>8, <1>9 DEF IInv

\* Every step preserves it.
LEMMA Inductive == IInv /\ [Next]_vars => IInv'
<1> SUFFICES ASSUME IInv, [Next]_vars PROVE IInv'
  OBVIOUS
<1> QED
  BY TypeStep, AssignedStep, GatedStep, RecordsStep, FileStep, UnlinkedStep, SoundStep DEF IInv

\* The invariant holds of every behaviour.
THEOREM Invariance == Spec => []IInv
<1>1. Init => IInv
  BY InitHolds
<1>2. IInv /\ [Next]_vars => IInv'
  BY Inductive
<1> QED
  BY <1>1, <1>2, PTL DEF Spec

\* Whatever GitHub delivers and the workspace does, every variable keeps its type
\* and neither memory nor file outgrows the cap.
THEOREM TypeCorrect == Spec => []TypeOK
<1>1. IInv => TypeOK
  BY DEF IInv
<1> QED
  BY <1>1, Invariance, PTL

\* No run that may execute an issue's body was triggered by somebody who is not on
\* the list: should_dispatch looks at all labels of the issue.
THEOREM VerbatimRunsAreTrusted == Spec => []VerbatimIsTrusted
<1>1. IInv => VerbatimIsTrusted
  BY DEF IInv, Gated, VerbatimIsTrusted, ShouldDispatch
<1> QED
  BY <1>1, Invariance, PTL

\* Memory and file say of a delivery what was decided and which run was started,
\* through evictions, redeliveries, failed writes and restarts.
THEOREM RecordsStayTrue == Spec => []RecordsAreTrue
<1>1. IInv => RecordsAreTrue
  BY DEF IInv
<1> QED
  BY <1>1, Invariance, PTL

\* An allowed delivery without a run is on its way, or has a reason.
THEOREM UnlinkedAreExplained == Spec => []UnlinkedIsExplained
<1>1. IInv => UnlinkedIsExplained
  BY DEF IInv
<1> QED
  BY <1>1, Invariance, PTL

\* As long as no preparations meet and no clone is cut short, a prepared workspace is
\* a whole repository.
THEOREM WorkspacesAreSound == Spec => []WorkspaceIsSound
<1>1. IInv => WorkspaceIsSound
  BY DEF IInv, Sound, WorkspaceIsSound
<1> QED
  BY <1>1, Invariance, PTL

\* And one that was whole when nobody was preparing it stays so for ever.
THEOREM WholeStaysWhole == Spec => SettledStays
<1>1. dir \in Whole /\ PreparingNow = {} => Settled
  BY DEF Settled, PreparingNow, Preparing
<1>2. TypeOK /\ Settled /\ [Next]_vars => Settled'
  BY SettledStep
<1>3. Settled => dir \in Whole
  BY DEF Settled
<1> QED
  BY <1>1, <1>2, <1>3, TypeCorrect, PTL DEF Spec, SettledStays
==============================================================================
