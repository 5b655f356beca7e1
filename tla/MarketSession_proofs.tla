------------------------ MODULE MarketSession_proofs ------------------------
(***************************************************************************)
(* What a session's records promise, however requests, the monitor, worker *)
(* threads, callbacks and crashes interleave: for any number of each.      *)
(*                                                                         *)
(* The manager's operations map worlds to worlds, so the proof does too:   *)
(* each operation keeps a good world good (Kept), and an action is the     *)
(* operations it is made of.                                               *)
(***************************************************************************)
EXTENDS MarketSession, FiniteSetTheorems, TLAPS

-----------------------------------------------------------------------------
(* Good worlds. *)

RunStates == FeedStates \union {"RECONNECTING"}

RuntimeRecord ==
    [subscribed : BOOLEAN, lastState : RunStates \union {"NONE"}, down : BOOLEAN,
     stale : BOOLEAN, sustained : BOOLEAN, hadOpen : BOOLEAN]

LogRecord ==
    [count : [Incidents -> Nat], seen : SUBSET Milestones, left : [Milestones -> Nat]]

Worlds ==
    [session : SessionRecord, runtime : RuntimeRecord, log : LogRecord, saved : SessionRecord]

\* Every incident that s counts is in the log, but for n errors.
EvidencedIn(s, evs, n) ==
    /\ s.disconnects <= evs.count["PROVIDER_DISCONNECTED"]
    /\ s.reconnects <= evs.count["PROVIDER_RECONNECTED"]
    /\ s.stales <= evs.count["STALE_DATA_DETECTED"]
    /\ s.errors <= evs.count["PROVIDER_ERROR"] + n

Evidenced(w, n) == EvidencedIn(w.session, w.log, n) /\ EvidencedIn(w.saved, w.log, n)

\* t in its log is evidenced as far as s was in its own.
AsEvidenced(s, evs, t, new) ==
    \A n \in Nat : EvidencedIn(s, evs, n) => EvidencedIn(t, new, n)
EvidenceKept(w, v) == \A n \in Nat : Evidenced(w, n) => Evidenced(v, n)

Owed(s, down) == s.reconnects + (IF down THEN 1 ELSE 0) <= s.disconnects

Clean(s) ==
    s.verdict = "PASS" =>
        /\ {"PROVIDER_CONNECTED", "SUBSCRIBED"} \subseteq s.evidence
        /\ s.evidence \intersect {"PROVIDER_DISCONNECTED", "STALE_DATA_DETECTED"} = {}

\* What is in the window is in the log.
WindowSeen(evs) == \A k \in Milestones : evs.left[k] > 0 => k \in evs.seen

WorldInv(w) ==
    /\ w \in Worlds
    /\ Owed(w.session, w.runtime.down)
    /\ Owed(w.saved, FALSE)
    /\ Clean(w.session)
    /\ Clean(w.saved)
    /\ WindowSeen(w.log)

\* The log has no more than the session counts, and no stale interval is forgotten.
\* A crash between event and save breaks this, and nothing repairs it.
Exact(w) ==
    /\ w.log.count["PROVIDER_DISCONNECTED"] = w.session.disconnects
    /\ w.log.count["STALE_DATA_DETECTED"] > 0 => w.runtime.stale \/ w.runtime.sustained

\* The session on disk is over, or it is the one being observed.
Settled(w) == w.saved.status \notin {"NONE", "COMPLETED"} => ActiveIn(w)

LogGrows(w, v) == \A k \in Incidents : w.log.count[k] <= v.log.count[k]

Grown(w, v) ==
    /\ WorldInv(v)
    /\ LogGrows(w, v)
    /\ EvidenceKept(w, v)

Kept(w, v) ==
    /\ WorldInv(v)
    /\ Exact(w) => Exact(v)
    /\ Settled(w) => Settled(v)
    /\ LogGrows(w, v)
    /\ EvidenceKept(w, v)

LEMMA KeptIsGrown ==
  ASSUME NEW w, NEW v, Kept(w, v)
  PROVE  Grown(w, v)
BY DEF Kept, Grown

LEMMA KeptItself ==
  ASSUME NEW w, WorldInv(w)
  PROVE  Kept(w, w)
<1>1. \A k \in Incidents : w.log.count[k] \in Nat
  BY DEF WorldInv, Worlds, LogRecord
<1>2. LogGrows(w, w)
  BY <1>1 DEF LogGrows
<1>3. EvidenceKept(w, w)
  BY DEF EvidenceKept
<1> QED BY <1>2, <1>3 DEF Kept

LEMMA GrownTwice ==
  ASSUME NEW u, NEW v, NEW w, WorldInv(u), Grown(u, v), Grown(v, w)
  PROVE  Grown(u, w)
<1>1. \A k \in Incidents : /\ u.log.count[k] \in Nat
                           /\ v.log.count[k] \in Nat
                           /\ w.log.count[k] \in Nat
  BY DEF Grown, WorldInv, Worlds, LogRecord
<1>2. LogGrows(u, w)
  BY <1>1 DEF Grown, LogGrows
<1>3. EvidenceKept(u, w)
  BY DEF Grown, EvidenceKept
<1> QED BY <1>2, <1>3 DEF Grown

LEMMA KeptTwice ==
  ASSUME NEW u, NEW v, NEW w, WorldInv(u), Kept(u, v), Kept(v, w)
  PROVE  Kept(u, w)
<1>1. Grown(u, w)
  BY KeptIsGrown, GrownTwice
<1> QED BY <1>1 DEF Kept, Grown

\* A longer log is evidence of no less.
LEMMA EvidenceGrows ==
  ASSUME NEW s \in SessionRecord, NEW evs \in LogRecord, NEW new \in LogRecord,
         \A k \in Incidents : evs.count[k] <= new.count[k]
  PROVE  AsEvidenced(s, evs, s, new)
<1>1. /\ s.disconnects \in Nat /\ s.reconnects \in Nat /\ s.stales \in Nat /\ s.errors \in Nat
  BY DEF SessionRecord
<1>2. \A k \in Incidents : evs.count[k] \in Nat /\ new.count[k] \in Nat
  BY DEF LogRecord
<1>3. ASSUME NEW n \in Nat, EvidencedIn(s, evs, n) PROVE EvidencedIn(s, new, n)
  BY <1>1, <1>2, <1>3 DEF EvidencedIn, Incidents
<1> QED BY <1>3 DEF AsEvidenced

LEMMA EvidenceFollows ==
  ASSUME NEW w \in Worlds, NEW v \in Worlds, LogGrows(w, v),
         AsEvidenced(w.session, w.log, v.session, v.log),
         v.saved = w.saved \/ v.saved = v.session
  PROVE  EvidenceKept(w, v)
<1>1. w.saved \in SessionRecord /\ w.log \in LogRecord /\ v.log \in LogRecord
  BY DEF Worlds
<1>2. AsEvidenced(w.saved, w.log, w.saved, v.log)
  BY <1>1, EvidenceGrows DEF LogGrows
<1>3. ASSUME NEW n \in Nat, Evidenced(w, n) PROVE Evidenced(v, n)
  <2>1. EvidencedIn(v.session, v.log, n)
    BY <1>3 DEF Evidenced, AsEvidenced
  <2>2. CASE v.saved = w.saved
    BY <1>2, <1>3, <2>1, <2>2 DEF Evidenced, AsEvidenced
  <2>3. CASE v.saved = v.session
    BY <2>1, <2>3 DEF Evidenced
  <2> QED BY <2>2, <2>3
<1> QED BY <1>3 DEF EvidenceKept

-----------------------------------------------------------------------------
(* Log and save. *)

LEMMA AppendedLog ==
  ASSUME NEW evs \in LogRecord, NEW e
  PROVE  /\ Appended(evs, e) \in LogRecord
         /\ \A k \in Incidents :
               Appended(evs, e).count[k] = evs.count[k] + (IF k = e THEN 1 ELSE 0)
         /\ WindowSeen(evs) => WindowSeen(Appended(evs, e))
<1> DEFINE new == Appended(evs, e)
<1>1. /\ new.count = [k \in Incidents |-> evs.count[k] + (IF k = e THEN 1 ELSE 0)]
      /\ new.seen = evs.seen \union ({e} \intersect Milestones)
      /\ new.left = [k \in Milestones |->
                       IF k = e THEN EventWindow ELSE IF evs.left[k] = 0 THEN 0 ELSE evs.left[k] - 1]
      /\ new = [count |-> new.count, seen |-> new.seen, left |-> new.left]
  BY DEF Appended
<1>2. /\ evs.count \in [Incidents -> Nat] /\ evs.seen \subseteq Milestones
      /\ evs.left \in [Milestones -> Nat]
  BY DEF LogRecord
<1> HIDE DEF new
<1>3. new.count \in [Incidents -> Nat]
  BY <1>1, <1>2
<1>4. new.seen \subseteq Milestones
  BY <1>1, <1>2
<1>5. new.left \in [Milestones -> Nat]
  BY <1>1, <1>2, SessionAssumption
<1>6. new \in LogRecord
  BY <1>1, <1>3, <1>4, <1>5 DEF LogRecord
<1>7. WindowSeen(evs) => WindowSeen(new)
  BY <1>1, <1>2 DEF WindowSeen
<1> QED BY <1>1, <1>6, <1>7 DEF new

LEMMA LogIs ==
  ASSUME NEW w \in Worlds, NEW e
  PROVE  /\ Log(w, e) \in Worlds
         /\ Log(w, e).session = w.session
         /\ Log(w, e).runtime = w.runtime
         /\ Log(w, e).saved = w.saved
         /\ Log(w, e).log = Appended(w.log, e)
<1>1. Appended(w.log, e) \in LogRecord
  BY AppendedLog DEF Worlds
<1> QED BY <1>1 DEF Log, Worlds

LEMMA SaveIs ==
  ASSUME NEW w \in Worlds
  PROVE  /\ Save(w) \in Worlds
         /\ Save(w).session = w.session
         /\ Save(w).runtime = w.runtime
         /\ Save(w).saved = w.session
         /\ Save(w).log = w.log
BY DEF Save, Worlds

\* An event that is no incident, or an error that a worker has counted before.
LEMMA LogKeeps ==
  ASSUME NEW w, WorldInv(w), NEW e, e \notin Incidents \ {"PROVIDER_ERROR"}
  PROVE  /\ Kept(w, Log(w, e))
         /\ Log(w, e).session = w.session
         /\ Log(w, e).runtime = w.runtime
         /\ Log(w, e).saved = w.saved
         /\ Log(w, e).log = Appended(w.log, e)
<1> DEFINE v == Log(w, e)
<1>1. w \in Worlds /\ w.log \in LogRecord /\ w.session \in SessionRecord
  BY DEF WorldInv, Worlds
<1>2. /\ v \in Worlds
      /\ v.session = w.session /\ v.runtime = w.runtime /\ v.saved = w.saved
      /\ v.log = Appended(w.log, e)
  BY <1>1, LogIs
<1> HIDE DEF v
<1>3. v.log \in LogRecord /\ (WindowSeen(w.log) => WindowSeen(v.log))
  BY <1>1, <1>2, AppendedLog
<1>4. \A k \in Incidents : /\ w.log.count[k] \in Nat
                           /\ v.log.count[k] = w.log.count[k] + (IF k = e THEN 1 ELSE 0)
  <2>1. \A k \in Incidents : w.log.count[k] \in Nat
    BY <1>1 DEF LogRecord
  <2> QED BY <1>1, <1>2, <2>1, AppendedLog
<1>5. WorldInv(v)
  BY <1>2, <1>3 DEF WorldInv
<1>6. (Exact(w) => Exact(v)) /\ (Settled(w) => Settled(v))
  BY <1>2, <1>4 DEF Exact, Settled, ActiveIn, Incidents
<1>7. LogGrows(w, v)
  BY <1>4 DEF LogGrows
<1>8. EvidenceKept(w, v)
  <2>1. AsEvidenced(w.session, w.log, v.session, v.log)
    BY <1>1, <1>2, <1>3, <1>7, EvidenceGrows DEF LogGrows
  <2> QED BY <1>1, <1>2, <1>7, <2>1, EvidenceFollows
<1> QED BY <1>2, <1>5, <1>6, <1>7, <1>8 DEF Kept, v

LEMMA SaveKeeps ==
  ASSUME NEW w, WorldInv(w)
  PROVE  /\ Kept(w, Save(w))
         /\ Settled(Save(w))
         /\ Save(w).session = w.session
         /\ Save(w).runtime = w.runtime
         /\ Save(w).log = w.log
         /\ Save(w).saved = w.session
<1> DEFINE v == Save(w)
<1>1. w \in Worlds
  BY DEF WorldInv
<1>2. /\ v \in Worlds
      /\ v.session = w.session /\ v.runtime = w.runtime /\ v.log = w.log /\ v.saved = w.session
  BY <1>1, SaveIs
<1> HIDE DEF v
<1>3. Owed(w.session, FALSE)
  BY <1>1 DEF WorldInv, Owed, Worlds, SessionRecord
<1>4. WorldInv(v)
  BY <1>2, <1>3 DEF WorldInv
<1>5. Settled(v)
  BY <1>1, <1>2 DEF Settled, ActiveIn, Finished, Worlds, SessionRecord
<1>6. Exact(w) => Exact(v)
  BY <1>2 DEF Exact
<1>7. LogGrows(w, v)
  BY <1>1, <1>2 DEF LogGrows, Worlds, LogRecord
<1>8. EvidenceKept(w, v)
  BY <1>2 DEF EvidenceKept, Evidenced
<1> QED BY <1>2, <1>4, <1>5, <1>6, <1>7, <1>8 DEF Kept, v

\* A change of the session or the runtime that no property is about.
LEMMA QuietKeeps ==
  ASSUME NEW w, WorldInv(w), NEW v \in Worlds,
         v.log = w.log, v.saved = w.saved,
         v.session.disconnects = w.session.disconnects,
         v.session.reconnects = w.session.reconnects,
         v.session.stales = w.session.stales,
         v.session.errors = w.session.errors,
         Clean(v.session),
         v.runtime.down => w.runtime.down,
         w.runtime.stale \/ w.runtime.sustained => v.runtime.stale \/ v.runtime.sustained,
         ActiveIn(w) => ActiveIn(v)
  PROVE  Kept(w, v)
<1>1. w \in Worlds /\ w.session \in SessionRecord
  BY DEF WorldInv, Worlds
<1>2. LogGrows(w, v)
  BY KeptItself DEF Kept, LogGrows
<1>3. Owed(v.session, v.runtime.down)
  <2>1. w.session.reconnects \in Nat /\ w.session.disconnects \in Nat
    BY <1>1 DEF SessionRecord
  <2> QED BY <2>1 DEF WorldInv, Owed
<1>4. WorldInv(v)
  BY <1>3 DEF WorldInv
<1>5. (Exact(w) => Exact(v)) /\ (Settled(w) => Settled(v))
  BY DEF Exact, Settled
<1>6. EvidenceKept(w, v)
  BY DEF EvidenceKept, Evidenced, EvidencedIn
<1> QED BY <1>2, <1>4, <1>5, <1>6 DEF Kept

-----------------------------------------------------------------------------
(* The manager's operations. *)

LEMMA WriteErrorKeeps ==
  ASSUME NEW w, WorldInv(w)
  PROVE  /\ Kept(w, WriteError(w))
         /\ Settled(WriteError(w))
         /\ WriteError(w).session.status = w.session.status
         /\ WriteError(w).runtime = w.runtime
         /\ WriteError(w).saved.status = w.session.status
<1> DEFINE v == WriteError(w)
           s == [w.session EXCEPT !.errors = @ + 1]
           evs == Appended(w.log, "PROVIDER_ERROR")
<1>1. w \in Worlds /\ w.session \in SessionRecord /\ w.log \in LogRecord
  BY DEF WorldInv, Worlds
<1>2. /\ s \in SessionRecord
      /\ s.errors = w.session.errors + 1
      /\ s.disconnects = w.session.disconnects
      /\ s.reconnects = w.session.reconnects
      /\ s.stales = w.session.stales
      /\ s.status = w.session.status
      /\ s.verdict = w.session.verdict /\ s.evidence = w.session.evidence
  BY <1>1 DEF SessionRecord
<1>3. /\ v \in Worlds
      /\ v.session = s /\ v.runtime = w.runtime /\ v.log = evs /\ v.saved = s
  <2> DEFINE u == [w EXCEPT !.session.errors = @ + 1]
  <2>1. /\ u \in Worlds
        /\ u.session = s /\ u.runtime = w.runtime /\ u.log = w.log
    BY <1>1, <1>2 DEF Worlds
  <2>2. v = Save(Log(u, "PROVIDER_ERROR"))
    BY DEF WriteError
  <2> HIDE DEF u, v, s, evs
  <2> QED BY <2>1, <2>2, LogIs, SaveIs DEF evs
<1>4. /\ evs \in LogRecord
      /\ WindowSeen(w.log) => WindowSeen(evs)
      /\ \A k \in Incidents : evs.count[k] = w.log.count[k] + (IF k = "PROVIDER_ERROR" THEN 1 ELSE 0)
  BY <1>1, AppendedLog
<1>5. /\ \A k \in Incidents : w.log.count[k] \in Nat
      /\ w.session.errors \in Nat /\ w.session.disconnects \in Nat
      /\ w.session.reconnects \in Nat /\ w.session.stales \in Nat
  BY <1>1 DEF LogRecord, SessionRecord
<1> HIDE DEF v, s, evs
<1>6. AsEvidenced(w.session, w.log, s, evs)
  <2>1. ASSUME NEW n \in Nat, EvidencedIn(w.session, w.log, n) PROVE EvidencedIn(s, evs, n)
    BY <1>2, <1>4, <1>5, <2>1 DEF EvidencedIn, Incidents
  <2> QED BY <2>1 DEF AsEvidenced
<1>7. Owed(s, w.runtime.down) /\ Owed(s, FALSE) /\ Clean(s)
  BY <1>2, <1>5 DEF WorldInv, Owed, Clean
<1>8. WorldInv(v)
  BY <1>3, <1>4, <1>7 DEF WorldInv
<1>9. Exact(w) => Exact(v)
  BY <1>2, <1>3, <1>4, <1>5 DEF Exact, Incidents
<1>10. Settled(v)
  BY <1>2, <1>3 DEF Settled, ActiveIn, Finished, SessionRecord
<1>11. LogGrows(w, v)
  BY <1>3, <1>4, <1>5 DEF LogGrows
<1>12. EvidenceKept(w, v)
  BY <1>1, <1>3, <1>6, <1>11, EvidenceFollows
<1> QED BY <1>2, <1>3, <1>8, <1>9, <1>10, <1>11, <1>12 DEF Kept, v

LEMMA RecordErrorKeeps ==
  ASSUME NEW w, WorldInv(w)
  PROVE  /\ Kept(w, RecordError(w))
         /\ RecordError(w).session.status = w.session.status
         /\ RecordError(w).runtime = w.runtime
         /\ RecordError(w).saved.status \in {w.saved.status, w.session.status}
BY KeptItself, WriteErrorKeeps DEF RecordError

LEMMA RecordStateKeeps ==
  ASSUME NEW w, WorldInv(w), NEW st \in RunStates
  PROVE  /\ Kept(w, RecordState(w, st))
         /\ RecordState(w, st).session.status = w.session.status
         /\ RecordState(w, st).runtime.subscribed = w.runtime.subscribed
         /\ RecordState(w, st).runtime.hadOpen = w.runtime.hadOpen
         /\ RecordState(w, st).saved.status \in {w.saved.status, w.session.status}
         /\ ~ActiveIn(w) => RecordState(w, st) = w
<1> DEFINE previous == w.runtime.lastState
           seen == [w EXCEPT !.runtime.lastState = st]
           recovered == Log(Recovered(seen), "PROVIDER_RECONNECTED")
           connected == Log(seen, "PROVIDER_CONNECTED")
           lost == Log([seen EXCEPT !.session.disconnects = @ + 1, !.runtime.down = TRUE],
                       "PROVIDER_DISCONNECTED")
           Fine(v) == /\ Kept(w, v)
                      /\ v.session.status = w.session.status
                      /\ v.runtime.subscribed = w.runtime.subscribed
                      /\ v.runtime.hadOpen = w.runtime.hadOpen
                      /\ v.saved.status \in {w.saved.status, w.session.status}
<1>1. /\ w \in Worlds /\ w.session \in SessionRecord /\ w.log \in LogRecord
      /\ w.runtime \in RuntimeRecord
  BY DEF WorldInv, Worlds
<1>2. /\ \A k \in Incidents : w.log.count[k] \in Nat
      /\ w.session.errors \in Nat /\ w.session.disconnects \in Nat
      /\ w.session.reconnects \in Nat /\ w.session.stales \in Nat
  BY <1>1 DEF LogRecord, SessionRecord
<1>3. Fine(seen)
  <2>1. /\ seen \in Worlds
        /\ seen.log = w.log /\ seen.saved = w.saved /\ seen.session = w.session
        /\ seen.runtime = [w.runtime EXCEPT !.lastState = st]
    BY <1>1 DEF Worlds, RuntimeRecord
  <2>2. /\ seen.runtime.down = w.runtime.down
        /\ seen.runtime.stale = w.runtime.stale
        /\ seen.runtime.sustained = w.runtime.sustained
        /\ seen.runtime.subscribed = w.runtime.subscribed
        /\ seen.runtime.hadOpen = w.runtime.hadOpen
    BY <1>1, <2>1 DEF RuntimeRecord
  <2> HIDE DEF seen
  <2>3. Clean(seen.session) /\ (ActiveIn(w) => ActiveIn(seen))
    BY <2>1 DEF WorldInv, ActiveIn
  <2>4. Kept(w, seen)
    BY <2>1, <2>2, <2>3, QuietKeeps
  <2> QED BY <2>1, <2>2, <2>4
<1>4. ASSUME w.runtime.down PROVE Fine(recovered)
  <2> DEFINE s == [w.session EXCEPT !.reconnects = @ + 1]
             run == [w.runtime EXCEPT !.lastState = st, !.down = FALSE]
             evs == Appended(w.log, "PROVIDER_RECONNECTED")
             v == recovered
  <2>1. /\ s \in SessionRecord
        /\ s.reconnects = w.session.reconnects + 1
        /\ s.disconnects = w.session.disconnects
        /\ s.errors = w.session.errors
        /\ s.stales = w.session.stales
        /\ s.status = w.session.status
        /\ s.verdict = w.session.verdict /\ s.evidence = w.session.evidence
    BY <1>1 DEF SessionRecord
  <2>2. /\ run \in RuntimeRecord
        /\ ~run.down
        /\ run.stale = w.runtime.stale /\ run.sustained = w.runtime.sustained
        /\ run.subscribed = w.runtime.subscribed /\ run.hadOpen = w.runtime.hadOpen
    BY <1>1 DEF RuntimeRecord
  <2>3. /\ evs \in LogRecord
        /\ WindowSeen(w.log) => WindowSeen(evs)
        /\ \A k \in Incidents :
              evs.count[k] = w.log.count[k] + (IF k = "PROVIDER_RECONNECTED" THEN 1 ELSE 0)
    BY <1>1, AppendedLog
  <2>4. /\ v \in Worlds
        /\ v.session = s /\ v.runtime = run /\ v.log = evs /\ v.saved = w.saved
    <3> DEFINE heard == [w.runtime EXCEPT !.lastState = st]
               u == Recovered(seen)
    <3>1. /\ seen \in Worlds
          /\ seen.session = w.session /\ seen.runtime = heard
          /\ seen.log = w.log /\ seen.saved = w.saved
      BY <1>1 DEF Worlds, RuntimeRecord
    <3>2. heard \in RuntimeRecord /\ run = [heard EXCEPT !.down = FALSE]
      BY <1>1 DEF RuntimeRecord
    <3> HIDE DEF seen, heard, run
    <3>3. /\ u \in Worlds
          /\ u.session = s /\ u.runtime = run /\ u.log = w.log /\ u.saved = w.saved
      BY <2>1, <2>2, <3>1, <3>2 DEF Worlds, Recovered
    <3>4. v = Log(u, "PROVIDER_RECONNECTED")
      OBVIOUS
    <3> HIDE DEF u, v, s, evs
    <3> QED BY <3>3, <3>4, LogIs DEF evs
  <2> HIDE DEF v, s, run, evs
  <2>5. AsEvidenced(w.session, w.log, s, evs)
    <3>1. ASSUME NEW n \in Nat, EvidencedIn(w.session, w.log, n) PROVE EvidencedIn(s, evs, n)
      BY <1>2, <2>1, <2>3, <3>1 DEF EvidencedIn, Incidents
    <3> QED BY <3>1 DEF AsEvidenced
  <2>6. Owed(s, FALSE) /\ Clean(s)
    BY <1>2, <1>4, <2>1 DEF WorldInv, Owed, Clean
  <2>7. WorldInv(v)
    BY <2>2, <2>3, <2>4, <2>6 DEF WorldInv, Owed
  <2>8. (Exact(w) => Exact(v)) /\ (Settled(w) => Settled(v))
    BY <1>2, <2>1, <2>2, <2>3, <2>4 DEF Exact, Settled, ActiveIn, Incidents
  <2>9. LogGrows(w, v)
    BY <1>2, <2>3, <2>4 DEF LogGrows
  <2>10. EvidenceKept(w, v)
    BY <1>1, <2>4, <2>5, <2>9, EvidenceFollows
  <2> QED BY <2>1, <2>2, <2>4, <2>7, <2>8, <2>9, <2>10 DEF Kept, v
<1>5. Fine(lost)
  <2> DEFINE s == [w.session EXCEPT !.disconnects = @ + 1]
             run == [w.runtime EXCEPT !.lastState = st, !.down = TRUE]
             evs == Appended(w.log, "PROVIDER_DISCONNECTED")
             v == lost
  <2>1. /\ s \in SessionRecord
        /\ s.disconnects = w.session.disconnects + 1
        /\ s.reconnects = w.session.reconnects
        /\ s.errors = w.session.errors
        /\ s.stales = w.session.stales
        /\ s.status = w.session.status
        /\ s.verdict = w.session.verdict /\ s.evidence = w.session.evidence
    BY <1>1 DEF SessionRecord
  <2>2. /\ run \in RuntimeRecord
        /\ run.down
        /\ run.stale = w.runtime.stale /\ run.sustained = w.runtime.sustained
        /\ run.subscribed = w.runtime.subscribed /\ run.hadOpen = w.runtime.hadOpen
    BY <1>1 DEF RuntimeRecord
  <2>3. /\ evs \in LogRecord
        /\ WindowSeen(w.log) => WindowSeen(evs)
        /\ \A k \in Incidents :
              evs.count[k] = w.log.count[k] + (IF k = "PROVIDER_DISCONNECTED" THEN 1 ELSE 0)
    BY <1>1, AppendedLog
  <2>4. /\ v \in Worlds
        /\ v.session = s /\ v.runtime = run /\ v.log = evs /\ v.saved = w.saved
    <3> DEFINE heard == [w.runtime EXCEPT !.lastState = st]
               u == [seen EXCEPT !.session.disconnects = @ + 1, !.runtime.down = TRUE]
    <3>1. /\ seen \in Worlds
          /\ seen.session = w.session /\ seen.runtime = heard
          /\ seen.log = w.log /\ seen.saved = w.saved
      BY <1>1 DEF Worlds, RuntimeRecord
    <3>2. heard \in RuntimeRecord /\ run = [heard EXCEPT !.down = TRUE]
      BY <1>1 DEF RuntimeRecord
    <3> HIDE DEF seen, heard, run
    <3>3. /\ u \in Worlds
          /\ u.session = s /\ u.runtime = run /\ u.log = w.log /\ u.saved = w.saved
      BY <2>1, <2>2, <3>1, <3>2 DEF Worlds, Recovered
    <3>4. v = Log(u, "PROVIDER_DISCONNECTED")
      OBVIOUS
    <3> HIDE DEF u, v, s, evs
    <3> QED BY <3>3, <3>4, LogIs DEF evs
  <2> HIDE DEF v, s, run, evs
  <2>5. AsEvidenced(w.session, w.log, s, evs)
    <3>1. ASSUME NEW n \in Nat, EvidencedIn(w.session, w.log, n) PROVE EvidencedIn(s, evs, n)
      BY <1>2, <2>1, <2>3, <3>1 DEF EvidencedIn, Incidents
    <3> QED BY <3>1 DEF AsEvidenced
  <2>6. Owed(s, TRUE) /\ Clean(s)
    BY <1>2, <2>1 DEF WorldInv, Owed, Clean
  <2>7. WorldInv(v)
    BY <2>2, <2>3, <2>4, <2>6 DEF WorldInv, Owed
  <2>8. (Exact(w) => Exact(v)) /\ (Settled(w) => Settled(v))
    BY <1>2, <2>1, <2>2, <2>3, <2>4 DEF Exact, Settled, ActiveIn, Incidents
  <2>9. LogGrows(w, v)
    BY <1>2, <2>3, <2>4 DEF LogGrows
  <2>10. EvidenceKept(w, v)
    BY <1>1, <2>4, <2>5, <2>9, EvidenceFollows
  <2> QED BY <2>1, <2>2, <2>4, <2>7, <2>8, <2>9, <2>10 DEF Kept, v
<1>6. Fine(connected)
  <2> HIDE DEF seen
  <2>1. WorldInv(seen)
    BY <1>3 DEF Kept
  <2>2. /\ Kept(seen, connected) /\ connected.session = seen.session
        /\ connected.runtime = seen.runtime /\ connected.saved = seen.saved
    BY <2>1, LogKeeps DEF Incidents
  <2> HIDE DEF connected
  <2> QED BY <1>3, <2>2, KeptTwice
<1> DEFINE recorded ==
      CASE st = "CONNECTED" /\ w.runtime.down -> recovered
        [] st = "CONNECTED" /\ ~w.runtime.down /\ previous # "CONNECTED" -> connected
        [] st \in Disconnected /\ previous # "NONE" /\ previous \notin Disconnected -> lost
        [] OTHER -> seen
<1>7. RecordState(w, st) = IF ~ActiveIn(w) THEN w
                           ELSE IF previous # st THEN Save(recorded) ELSE recorded
  BY DEF RecordState
<1> HIDE DEF seen, recovered, connected, lost
<1>8. "CONNECTED" \notin Disconnected
  BY DEF Disconnected
<1>9. recorded \in {recovered, connected, lost, seen} /\ Fine(recorded)
  BY <1>3, <1>4, <1>5, <1>6, <1>8
<1> HIDE DEF recorded
<1>10. Fine(Save(recorded))
  <2>1. WorldInv(recorded)
    BY <1>9 DEF Kept
  <2> QED BY <1>9, <2>1, SaveKeeps, KeptTwice
<1>11. Fine(w)
  BY KeptItself
<1> QED BY <1>7, <1>9, <1>10, <1>11

LEMMA ObserveTickKeeps ==
  ASSUME NEW w, WorldInv(w), NEW due \in BOOLEAN
  PROVE  /\ Kept(w, ObserveTick(w, due))
         /\ ObserveTick(w, due).session.status \in {w.session.status, "RUNNING"}
         /\ ObserveTick(w, due).runtime.hadOpen = w.runtime.hadOpen
         /\ ObserveTick(w, due).runtime.subscribed = w.runtime.subscribed
         /\ ObserveTick(w, due).saved.status \in {w.saved.status, w.session.status, "RUNNING"}
         /\ ~ActiveIn(w) => ObserveTick(w, due) = w
<1> DEFINE ticked == [w EXCEPT !.session.ticked = TRUE]
           woken == [ticked EXCEPT !.runtime.stale = FALSE,
                                   !.runtime.sustained = TRUE,
                                   !.session.status = IF @ = "DEGRADED" THEN "RUNNING" ELSE @]
           recovered == IF ~w.runtime.stale THEN ticked ELSE Log(woken, "STALE_DATA_RECOVERED")
           Fine(v) == /\ Kept(w, v)
                      /\ v.session.status \in {w.session.status, "RUNNING"}
                      /\ v.runtime.hadOpen = w.runtime.hadOpen
                      /\ v.runtime.subscribed = w.runtime.subscribed
                      /\ v.saved.status \in {w.saved.status, w.session.status, "RUNNING"}
<1>1. w \in Worlds /\ w.session \in SessionRecord /\ w.runtime \in RuntimeRecord
  BY DEF WorldInv, Worlds
<1>2. /\ ticked \in Worlds
      /\ ticked.log = w.log /\ ticked.saved = w.saved /\ ticked.runtime = w.runtime
      /\ ticked.session = [w.session EXCEPT !.ticked = TRUE]
  <2>1. [w.session EXCEPT !.ticked = TRUE] \in SessionRecord
    BY <1>1 DEF SessionRecord
  <2> QED BY <1>1, <2>1 DEF Worlds
<1> HIDE DEF ticked
<1>3. /\ ticked.session \in SessionRecord
      /\ ticked.session.disconnects = w.session.disconnects
      /\ ticked.session.reconnects = w.session.reconnects
      /\ ticked.session.stales = w.session.stales
      /\ ticked.session.errors = w.session.errors
      /\ ticked.session.status = w.session.status
      /\ ticked.session.verdict = w.session.verdict
      /\ ticked.session.evidence = w.session.evidence
  BY <1>1, <1>2 DEF SessionRecord
<1>4. Fine(ticked)
  <2>1. Clean(ticked.session) /\ (ActiveIn(w) => ActiveIn(ticked))
    BY <1>3 DEF WorldInv, Clean, ActiveIn
  <2> QED BY <1>2, <1>3, <2>1, QuietKeeps
<1>5. Fine(Log(woken, "STALE_DATA_RECOVERED"))
  <2> DEFINE s == [ticked.session EXCEPT !.status = IF @ = "DEGRADED" THEN "RUNNING" ELSE @]
             run == [w.runtime EXCEPT !.stale = FALSE, !.sustained = TRUE]
  <2>1. /\ s \in SessionRecord
        /\ s.disconnects = w.session.disconnects
        /\ s.reconnects = w.session.reconnects
        /\ s.stales = w.session.stales
        /\ s.errors = w.session.errors
        /\ s.status = IF w.session.status = "DEGRADED" THEN "RUNNING" ELSE w.session.status
        /\ s.verdict = w.session.verdict
        /\ s.evidence = w.session.evidence
    BY <1>3 DEF SessionRecord
  <2>2. /\ run \in RuntimeRecord
        /\ run.sustained /\ run.down = w.runtime.down
        /\ run.hadOpen = w.runtime.hadOpen /\ run.subscribed = w.runtime.subscribed
    BY <1>1 DEF RuntimeRecord
  <2>3. /\ woken \in Worlds
        /\ woken.session = s /\ woken.runtime = run
        /\ woken.log = w.log /\ woken.saved = w.saved
    BY <1>2, <2>1, <2>2 DEF Worlds
  <2> HIDE DEF woken, s, run
  <2>4. Clean(woken.session) /\ (ActiveIn(w) => ActiveIn(woken))
    BY <2>1, <2>3 DEF WorldInv, Clean, ActiveIn, Finished
  <2>5. Kept(w, woken)
    BY <2>1, <2>2, <2>3, <2>4, QuietKeeps
  <2>6. WorldInv(woken)
    BY <2>5 DEF Kept
  <2>7. /\ Kept(woken, Log(woken, "STALE_DATA_RECOVERED"))
        /\ Log(woken, "STALE_DATA_RECOVERED").session = woken.session
        /\ Log(woken, "STALE_DATA_RECOVERED").runtime = woken.runtime
        /\ Log(woken, "STALE_DATA_RECOVERED").saved = woken.saved
    BY <2>6, LogKeeps DEF Incidents
  <2> QED BY <2>1, <2>2, <2>3, <2>5, <2>7, KeptTwice
<1> HIDE DEF woken
<1>6. Fine(recovered)
  BY <1>4, <1>5
<1>7. ObserveTick(w, due) = IF ~ActiveIn(w) THEN w
                            ELSE IF due THEN Save(Log(recovered, "TICK_RECEIVED")) ELSE recovered
  BY DEF ObserveTick, ticked, woken
<1> HIDE DEF recovered
<1>8. Fine(Save(Log(recovered, "TICK_RECEIVED")))
  <2>1. WorldInv(recovered)
    BY <1>6 DEF Kept
  <2>2. /\ Kept(recovered, Log(recovered, "TICK_RECEIVED"))
        /\ Log(recovered, "TICK_RECEIVED").session = recovered.session
        /\ Log(recovered, "TICK_RECEIVED").runtime = recovered.runtime
    BY <2>1, LogKeeps DEF Incidents
  <2>3. WorldInv(Log(recovered, "TICK_RECEIVED"))
    BY <2>2 DEF Kept
  <2> QED BY <1>6, <2>2, <2>3, SaveKeeps, KeptTwice
<1> QED BY <1>6, <1>7, <1>8, KeptItself

LEMMA CheckStaleKeeps ==
  ASSUME NEW w, WorldInv(w), NEW ex, NEW up, NEW aged
  PROVE  /\ Kept(w, CheckStale(w, ex, up, aged))
         /\ \/ CheckStale(w, ex, up, aged).session.status = w.session.status
            \/ /\ CheckStale(w, ex, up, aged).session.status = "DEGRADED"
               /\ TicksAreDue(ex, up)
         /\ CheckStale(w, ex, up, aged).runtime.subscribed = w.runtime.subscribed
         /\ CheckStale(w, ex, up, aged).runtime.hadOpen = w.runtime.hadOpen
         /\ CheckStale(w, ex, up, aged).saved.status \in {w.saved.status, "DEGRADED"}
<1> DEFINE s == [w.session EXCEPT !.stales = @ + 1, !.status = "DEGRADED"]
           run == [w.runtime EXCEPT !.stale = TRUE]
           evs == Appended(w.log, "STALE_DATA_DETECTED")
           u == [w EXCEPT !.runtime.stale = TRUE,
                          !.session.stales = @ + 1,
                          !.session.status = "DEGRADED"]
           v == Save(Log(u, "STALE_DATA_DETECTED"))
<1>1. /\ w \in Worlds /\ w.session \in SessionRecord /\ w.log \in LogRecord
      /\ w.runtime \in RuntimeRecord
  BY DEF WorldInv, Worlds
<1>2. /\ \A k \in Incidents : w.log.count[k] \in Nat
      /\ w.session.errors \in Nat /\ w.session.disconnects \in Nat
      /\ w.session.reconnects \in Nat /\ w.session.stales \in Nat
  BY <1>1 DEF LogRecord, SessionRecord
<1>3. /\ s \in SessionRecord
      /\ s.stales = w.session.stales + 1
      /\ s.disconnects = w.session.disconnects
      /\ s.reconnects = w.session.reconnects
      /\ s.errors = w.session.errors
      /\ s.status = "DEGRADED"
      /\ s.verdict = w.session.verdict /\ s.evidence = w.session.evidence
  <2> DEFINE more == [w.session EXCEPT !.stales = @ + 1]
  <2>1. /\ more \in SessionRecord
        /\ more.stales = w.session.stales + 1
        /\ more.disconnects = w.session.disconnects
        /\ more.reconnects = w.session.reconnects
        /\ more.errors = w.session.errors
        /\ more.verdict = w.session.verdict /\ more.evidence = w.session.evidence
    BY <1>1 DEF SessionRecord
  <2> HIDE DEF more
  <2>2. /\ [more EXCEPT !.status = "DEGRADED"] \in SessionRecord
        /\ s = [more EXCEPT !.status = "DEGRADED"]
    BY <2>1 DEF SessionRecord, more
  <2> HIDE DEF s
  <2> QED BY <2>1, <2>2 DEF SessionRecord
<1>4. /\ run \in RuntimeRecord
      /\ run.stale /\ run.down = w.runtime.down
      /\ run.subscribed = w.runtime.subscribed /\ run.hadOpen = w.runtime.hadOpen
  BY <1>1 DEF RuntimeRecord
<1>5. /\ evs \in LogRecord
      /\ WindowSeen(w.log) => WindowSeen(evs)
      /\ \A k \in Incidents :
            evs.count[k] = w.log.count[k] + (IF k = "STALE_DATA_DETECTED" THEN 1 ELSE 0)
  BY <1>1, AppendedLog
<1>6. /\ v \in Worlds
      /\ v.session = s /\ v.runtime = run /\ v.log = evs /\ v.saved = s
  <2>1. u \in Worlds /\ u.session = s /\ u.runtime = run /\ u.log = w.log
    BY <1>1, <1>3, <1>4 DEF Worlds
  <2> HIDE DEF u, s, run, evs
  <2> QED BY <2>1, LogIs, SaveIs DEF evs
<1> HIDE DEF v, s, run, evs
<1>7. AsEvidenced(w.session, w.log, s, evs)
  <2>1. ASSUME NEW n \in Nat, EvidencedIn(w.session, w.log, n) PROVE EvidencedIn(s, evs, n)
    BY <1>2, <1>3, <1>5, <2>1 DEF EvidencedIn, Incidents
  <2> QED BY <2>1 DEF AsEvidenced
<1>8. Owed(s, w.runtime.down) /\ Owed(s, FALSE) /\ Clean(s)
  BY <1>2, <1>3 DEF WorldInv, Owed, Clean
<1>9. WorldInv(v)
  BY <1>4, <1>5, <1>6, <1>8 DEF WorldInv
<1>10. Exact(w) => Exact(v)
  BY <1>2, <1>3, <1>4, <1>5, <1>6 DEF Exact, Incidents
<1>11. Settled(v)
  BY <1>3, <1>6 DEF Settled, ActiveIn, Finished
<1>12. LogGrows(w, v)
  BY <1>2, <1>5, <1>6 DEF LogGrows
<1>13. Kept(w, v)
  <2>1. EvidenceKept(w, v)
    BY <1>1, <1>6, <1>7, <1>12, EvidenceFollows
  <2> QED BY <2>1, <1>9, <1>10, <1>11, <1>12 DEF Kept
<1>14. \/ CheckStale(w, ex, up, aged) = w
       \/ CheckStale(w, ex, up, aged) = v /\ TicksAreDue(ex, up)
  BY DEF CheckStale, v, u
<1> QED BY <1>3, <1>4, <1>6, <1>13, <1>14, KeptItself

LEMMA CaptureSummaryKeeps ==
  ASSUME NEW w, WorldInv(w)
  PROVE  /\ Kept(w, CaptureSummary(w))
         /\ CaptureSummary(w).session = w.session
         /\ CaptureSummary(w).runtime = w.runtime
         /\ CaptureSummary(w).saved = w.session
<1> DEFINE a == Log(w, "SUMMARY_SNAPSHOT")
           b == Log(a, "BREADTH_UPDATE")
           c == Log(b, "SECTOR_UPDATE")
<1>1. Kept(w, a) /\ a.session = w.session /\ a.runtime = w.runtime
  BY LogKeeps DEF Incidents
<1> HIDE DEF a
<1>2. Kept(w, b) /\ b.session = w.session /\ b.runtime = w.runtime
  <2>1. Kept(a, b) /\ b.session = a.session /\ b.runtime = a.runtime
    BY <1>1, LogKeeps DEF Kept, Incidents
  <2> QED BY <1>1, <2>1, KeptTwice
<1> HIDE DEF b
<1>3. Kept(w, c) /\ c.session = w.session /\ c.runtime = w.runtime
  <2>1. Kept(b, c) /\ c.session = b.session /\ c.runtime = b.runtime
    BY <1>2, LogKeeps DEF Kept, Incidents
  <2> QED BY <1>2, <2>1, KeptTwice
<1> HIDE DEF c
<1>4. /\ Kept(c, Save(c)) /\ Save(c).session = c.session
      /\ Save(c).runtime = c.runtime /\ Save(c).saved = c.session
  BY <1>3, SaveKeeps DEF Kept
<1>5. CaptureSummary(w) = Save(c)
  BY DEF CaptureSummary, a, b, c
<1> QED BY <1>3, <1>4, <1>5, KeptTwice

LEMMA ReleasedKeeps ==
  ASSUME NEW w, WorldInv(w)
  PROVE  /\ Kept(w, Released(w))
         /\ Released(w).session = w.session
         /\ Released(w).runtime.hadOpen = w.runtime.hadOpen
         /\ Released(w).saved = w.saved
<1> DEFINE u == [w EXCEPT !.runtime.subscribed = FALSE]
           run == [w.runtime EXCEPT !.subscribed = FALSE]
<1>1. w \in Worlds /\ w.runtime \in RuntimeRecord
  BY DEF WorldInv, Worlds
<1>2. /\ run \in RuntimeRecord
      /\ run.down = w.runtime.down /\ run.stale = w.runtime.stale
      /\ run.sustained = w.runtime.sustained /\ run.hadOpen = w.runtime.hadOpen
  BY <1>1 DEF RuntimeRecord
<1>3. /\ u \in Worlds
      /\ u.session = w.session /\ u.runtime = run /\ u.log = w.log /\ u.saved = w.saved
  BY <1>1, <1>2 DEF Worlds
<1> HIDE DEF u, run
<1>4. Kept(w, u)
  <2>1. Clean(u.session) /\ (ActiveIn(w) => ActiveIn(u))
    BY <1>3 DEF WorldInv, ActiveIn
  <2> QED BY <1>2, <1>3, <2>1, QuietKeeps
<1>5. /\ Kept(u, Log(u, "UNSUBSCRIBED"))
      /\ Log(u, "UNSUBSCRIBED").session = u.session
      /\ Log(u, "UNSUBSCRIBED").runtime = u.runtime
      /\ Log(u, "UNSUBSCRIBED").saved = u.saved
  BY <1>4, LogKeeps DEF Kept, Incidents
<1>6. Released(w) = w \/ Released(w) = Log(u, "UNSUBSCRIBED")
  BY DEF Released, u
<1> QED BY <1>2, <1>3, <1>4, <1>5, <1>6, KeptItself, KeptTwice

LEMMA ExchangeClosedKeeps ==
  ASSUME NEW w, WorldInv(w)
  PROVE  /\ Kept(w, ExchangeClosed(w))
         /\ ExchangeClosed(w).session.status = "CLOSED"
         /\ ExchangeClosed(w).runtime = w.runtime
         /\ ExchangeClosed(w).saved = w.saved
<1> DEFINE u == [w EXCEPT !.session.status = "CLOSED"]
           s == [w.session EXCEPT !.status = "CLOSED"]
<1>1. w \in Worlds /\ w.session \in SessionRecord
  BY DEF WorldInv, Worlds
<1>2. /\ s \in SessionRecord
      /\ s.disconnects = w.session.disconnects /\ s.reconnects = w.session.reconnects
      /\ s.stales = w.session.stales /\ s.errors = w.session.errors
      /\ s.status = "CLOSED"
      /\ s.verdict = w.session.verdict /\ s.evidence = w.session.evidence
  BY <1>1 DEF SessionRecord
<1>3. /\ u \in Worlds
      /\ u.session = s /\ u.runtime = w.runtime /\ u.log = w.log /\ u.saved = w.saved
  BY <1>1, <1>2 DEF Worlds
<1> HIDE DEF u, s
<1>4. Kept(w, u)
  <2>1. Clean(u.session) /\ ActiveIn(u)
    BY <1>2, <1>3 DEF WorldInv, Clean, ActiveIn, Finished
  <2> QED BY <1>2, <1>3, <2>1, QuietKeeps
<1>5. /\ Kept(u, Log(u, "SESSION_CLOSED"))
      /\ Log(u, "SESSION_CLOSED").session = u.session
      /\ Log(u, "SESSION_CLOSED").runtime = u.runtime
      /\ Log(u, "SESSION_CLOSED").saved = u.saved
  BY <1>4, LogKeeps DEF Kept, Incidents
<1>6. ExchangeClosed(w) = Log(u, "SESSION_CLOSED")
  BY DEF ExchangeClosed, u
<1> QED BY <1>2, <1>3, <1>4, <1>5, <1>6, KeptTwice

-----------------------------------------------------------------------------
(* The verdict. *)

\* What no failed criterion means.
LEMMA NoFailures ==
  ASSUME NEW s, NEW run, NEW kinds, NEW live, FailedCriteria(s, run, kinds, live) = {}
  PROVE  /\ {"PROVIDER_CONNECTED", "SUBSCRIBED"} \subseteq kinds
         /\ ~run.sustained
         /\ ~(s.reconnects < s.disconnects)
<1> DEFINE Fails(name) ==
      CASE name = "provider_connected" -> "PROVIDER_CONNECTED" \notin kinds
        [] name = "stream_ready" -> live /\ "STREAM_READY" \notin kinds
        [] name = "required_instruments_subscribed" -> "SUBSCRIBED" \notin kinds
        [] name = "first_tick_received_during_open_session" ->
              "SESSION_OPEN" \in kinds /\ ~s.ticked
        [] name = "no_sustained_stale_interval" -> run.sustained
        [] name = "reconnect_succeeded_if_required" -> s.reconnects < s.disconnects
<1>1. \A name \in Criteria : ~Fails(name)
  BY DEF FailedCriteria
<1>2. ~Fails("provider_connected") /\ ~Fails("required_instruments_subscribed")
  BY <1>1 DEF Criteria
<1>3. ~Fails("no_sustained_stale_interval") /\ ~Fails("reconnect_succeeded_if_required")
  BY <1>1 DEF Criteria
<1>4. Fails("provider_connected") <=> "PROVIDER_CONNECTED" \notin kinds
  OBVIOUS
<1>5. Fails("required_instruments_subscribed") <=> "SUBSCRIBED" \notin kinds
  OBVIOUS
<1>6. Fails("no_sustained_stale_interval") <=> run.sustained
  OBVIOUS
<1>7. Fails("reconnect_succeeded_if_required") <=> s.reconnects < s.disconnects
  OBVIOUS
<1> QED BY <1>2, <1>3, <1>4, <1>5, <1>6, <1>7

\* The end of a session forgets nothing of what it counted.
LEMMA EndedGrows ==
  ASSUME NEW w, WorldInv(w)
  PROVE  /\ Grown(w, Ended(w))
         /\ Exact(w) => Exact(Ended(w))
         /\ Ended(w).session \in SessionRecord
         /\ Ended(w).session.disconnects = w.session.disconnects
         /\ Ended(w).session.status = "COMPLETED"
         /\ Ended(w).runtime.subscribed = w.runtime.subscribed
         /\ Ended(w).runtime.hadOpen = w.runtime.hadOpen
         /\ w.runtime.stale \/ w.runtime.sustained => Ended(w).runtime.sustained
         /\ ~Ended(w).runtime.down
         /\ Ended(w).log = w.log
         /\ Ended(w).saved = w.saved
<1> DEFINE v == Ended(w)
           run == [w.runtime EXCEPT !.sustained = @ \/ w.runtime.stale, !.stale = FALSE, !.down = FALSE]
           s == [w.session EXCEPT !.status = "COMPLETED"]
<1>1. /\ w \in Worlds /\ w.session \in SessionRecord /\ w.runtime \in RuntimeRecord
  BY DEF WorldInv, Worlds
<1>2. /\ run \in RuntimeRecord
      /\ w.runtime.stale \/ w.runtime.sustained => run.sustained
      /\ ~run.down
      /\ run.subscribed = w.runtime.subscribed /\ run.hadOpen = w.runtime.hadOpen
  BY <1>1 DEF RuntimeRecord
<1>3. /\ s \in SessionRecord
      /\ s.disconnects = w.session.disconnects /\ s.reconnects = w.session.reconnects
      /\ s.stales = w.session.stales /\ s.errors = w.session.errors
      /\ s.status = "COMPLETED"
      /\ s.verdict = w.session.verdict /\ s.evidence = w.session.evidence
  BY <1>1 DEF SessionRecord
<1>4. /\ v \in Worlds
      /\ v.session = s /\ v.runtime = run
      /\ v.log = w.log /\ v.saved = w.saved
  BY <1>1, <1>2, <1>3 DEF Worlds, Ended
<1> HIDE DEF v, run, s
<1>5. WorldInv(v)
  <2>1. Owed(s, FALSE)
    <3>1. w.session.reconnects \in Nat /\ w.session.disconnects \in Nat
      BY <1>1 DEF SessionRecord
    <3> QED BY <1>3, <3>1 DEF WorldInv, Owed
  <2>2. Clean(s)
    BY <1>3 DEF WorldInv, Clean
  <2> QED BY <1>2, <1>4, <2>1, <2>2 DEF WorldInv, Owed
<1>6. LogGrows(w, v)
  BY <1>4, KeptItself DEF Kept, LogGrows
<1>7. EvidenceKept(w, v)
  BY <1>3, <1>4 DEF EvidenceKept, Evidenced, EvidencedIn
<1>8. Exact(w) => Exact(v)
  BY <1>2, <1>3, <1>4 DEF Exact
<1> QED BY <1>2, <1>3, <1>4, <1>5, <1>6, <1>7, <1>8 DEF Grown, v

\* A PASS is given to a session without warnings only, and it has to be its own
\* (Exact) for its counters to speak for the log.
LEMMA JudgeGrows ==
  ASSUME NEW w, WorldInv(w), w.runtime.hadOpen => Exact(w)
  PROVE  /\ Grown(w, Judge(w))
         /\ Exact(w) => Exact(Judge(w))
         /\ Judge(w).session.status = "COMPLETED"
         /\ Judge(w).saved = w.saved
         /\ Judge(w).runtime.subscribed = w.runtime.subscribed
         /\ Judge(w).runtime.hadOpen = w.runtime.hadOpen
<1> DEFINE ended == Ended(w)
           failures == FailedCriteria(ended.session, ended.runtime, Window(ended.log), hasFeed)
           verdict == Verdict(failures, Warned(ended))
           judged == [ended EXCEPT !.session.failures = failures,
                                   !.session.evidence = Shown(ended.log),
                                   !.session.verdict = verdict]
           s == ended.session
           run == ended.runtime
<1>1. /\ w \in Worlds /\ w.session \in SessionRecord /\ w.log \in LogRecord
      /\ w.runtime \in RuntimeRecord
  BY DEF WorldInv, Worlds
<1>2. /\ Grown(w, ended) /\ (Exact(w) => Exact(ended))
      /\ s \in SessionRecord
      /\ s.disconnects = w.session.disconnects
      /\ s.status = "COMPLETED"
      /\ run.subscribed = w.runtime.subscribed
      /\ run.hadOpen = w.runtime.hadOpen
      /\ w.runtime.stale \/ w.runtime.sustained => run.sustained
      /\ ~run.down
      /\ ended.log = w.log /\ ended.saved = w.saved
  BY EndedGrows
<1>3. ended \in Worlds /\ run \in RuntimeRecord
  BY <1>2 DEF Grown, WorldInv, Worlds
<1>4. Judge(w) = judged
  BY DEF Judge
<1>5. /\ failures \in SUBSET Criteria
      /\ verdict \in {"PASS", "PASS_WITH_WARNINGS", "FAIL"}
      /\ Shown(w.log) \in SUBSET (Milestones \union Incidents)
  BY <1>1 DEF FailedCriteria, Verdict, Shown, LogRecord
<1> HIDE DEF ended, failures, verdict, run, s
<1>6. /\ judged \in Worlds
      /\ judged.runtime = run /\ judged.log = w.log /\ judged.saved = w.saved
      /\ judged.session \in SessionRecord
      /\ judged.session.disconnects = s.disconnects
      /\ judged.session.reconnects = s.reconnects
      /\ judged.session.stales = s.stales
      /\ judged.session.errors = s.errors
      /\ judged.session.status = "COMPLETED"
      /\ judged.session.verdict = verdict
      /\ judged.session.evidence = Shown(w.log)
  <2> DEFINE t == [s EXCEPT !.failures = failures, !.evidence = Shown(ended.log), !.verdict = verdict]
  <2>1. /\ t \in SessionRecord
        /\ t.disconnects = s.disconnects /\ t.reconnects = s.reconnects
        /\ t.stales = s.stales /\ t.errors = s.errors /\ t.status = s.status
        /\ t.verdict = verdict /\ t.evidence = Shown(w.log)
    BY <1>2, <1>5 DEF SessionRecord
  <2>2. /\ judged \in Worlds
        /\ judged.session = t /\ judged.runtime = run
        /\ judged.log = w.log /\ judged.saved = w.saved
    BY <1>2, <1>3, <2>1 DEF Worlds, s, run
  <2> HIDE DEF t, judged
  <2> QED BY <1>2, <2>1, <2>2
<1>7. ASSUME verdict = "PASS"
      PROVE  /\ {"PROVIDER_CONNECTED", "SUBSCRIBED"} \subseteq Shown(w.log)
             /\ Shown(w.log) \intersect {"PROVIDER_DISCONNECTED", "STALE_DATA_DETECTED"} = {}
  <2>1. failures = {} /\ ~Warned(ended)
    BY <1>7 DEF verdict, Verdict
  <2>2. /\ {"PROVIDER_CONNECTED", "SUBSCRIBED"} \subseteq Window(w.log)
        /\ ~run.sustained
        /\ ~(s.reconnects < s.disconnects)
    BY <2>1, <1>2, NoFailures DEF failures, s, run
  <2>3. ~(s.reconnects > 0) /\ run.hadOpen
    BY <2>1 DEF Warned, s, run
  <2>4. Exact(w)
    BY <1>2, <2>3
  <2>5. s.disconnects = 0
    <3>1. s.disconnects \in Nat /\ s.reconnects \in Nat
      BY <1>2 DEF SessionRecord
    <3> QED BY <2>2, <2>3, <3>1
  <2>6. /\ ~(w.log.count["PROVIDER_DISCONNECTED"] > 0)
        /\ ~(w.log.count["STALE_DATA_DETECTED"] > 0)
    <3>1. ~(w.runtime.stale \/ w.runtime.sustained)
      BY <1>2, <2>2
    <3>2. w.session.disconnects = 0
      BY <1>2, <2>5
    <3> QED BY <2>4, <3>1, <3>2 DEF Exact
  <2>7. /\ w.log.seen \subseteq Milestones
        /\ Milestones \intersect Incidents = {}
        /\ {"PROVIDER_DISCONNECTED", "STALE_DATA_DETECTED"} \subseteq Incidents
    BY <1>1 DEF LogRecord, Milestones, Incidents
  <2>8. {"PROVIDER_CONNECTED", "SUBSCRIBED"} \subseteq w.log.seen
    BY <2>2 DEF Window, WorldInv, WindowSeen
  <2> QED BY <2>6, <2>7, <2>8 DEF Shown
<1> HIDE DEF judged
<1>8. Clean(judged.session)
  BY <1>6, <1>7 DEF Clean
<1>9. WorldInv(ended) /\ ended.session = s /\ ended.runtime = run
  BY <1>2 DEF Grown, s, run
<1>10. Grown(ended, judged) /\ (Exact(ended) => Exact(judged))
  <2>1. WorldInv(judged)
    BY <1>2, <1>6, <1>8, <1>9 DEF WorldInv, Owed
  <2>2. LogGrows(ended, judged)
    BY <1>2, <1>6, <1>9, KeptItself DEF Kept, LogGrows
  <2>3. EvidenceKept(ended, judged)
    BY <1>2, <1>6, <1>9 DEF EvidenceKept, Evidenced, EvidencedIn
  <2>4. Exact(ended) => Exact(judged)
    BY <1>2, <1>6, <1>9 DEF Exact
  <2> QED BY <2>1, <2>2, <2>3, <2>4 DEF Grown
<1>11. Grown(w, judged) /\ (Exact(w) => Exact(judged))
  BY <1>2, <1>10, GrownTwice
<1> QED BY <1>2, <1>4, <1>6, <1>11

LEMMA ConcludedKeeps ==
  ASSUME NEW w, WorldInv(w)
  PROVE  /\ Kept(w, Concluded(w))
         /\ Settled(Concluded(w))
         /\ Concluded(w).session = w.session
         /\ Concluded(w).runtime = w.runtime
         /\ Concluded(w).saved = w.session
<1> DEFINE last == Log(w, "SESSION_COMPLETED")
<1>1. Kept(w, last) /\ last.session = w.session /\ last.runtime = w.runtime
  BY LogKeeps DEF Incidents
<1>2. Concluded(w) = Save(last)
  BY DEF Concluded
<1> HIDE DEF last
<1>3. /\ Kept(last, Save(last)) /\ Settled(Save(last))
      /\ Save(last).session = last.session /\ Save(last).runtime = last.runtime
      /\ Save(last).saved = last.session
  BY <1>1, SaveKeeps DEF Kept
<1> QED BY <1>1, <1>2, <1>3, KeptTwice

-----------------------------------------------------------------------------
(* The composed operations. *)

LEMMA FlagKeeps ==
  ASSUME NEW w, WorldInv(w), NEW b \in BOOLEAN
  PROVE  /\ Kept(w, [w EXCEPT !.runtime.subscribed = b])
         /\ [w EXCEPT !.runtime.subscribed = b].session = w.session
         /\ [w EXCEPT !.runtime.subscribed = b].saved = w.saved
         /\ [w EXCEPT !.runtime.subscribed = b].runtime.subscribed = b
         /\ [w EXCEPT !.runtime.subscribed = b].runtime.hadOpen = w.runtime.hadOpen
<1> DEFINE u == [w EXCEPT !.runtime.subscribed = b]
           run == [w.runtime EXCEPT !.subscribed = b]
<1>1. w \in Worlds /\ w.runtime \in RuntimeRecord
  BY DEF WorldInv, Worlds
<1>2. /\ run \in RuntimeRecord
      /\ run.subscribed = b
      /\ run.down = w.runtime.down /\ run.stale = w.runtime.stale
      /\ run.sustained = w.runtime.sustained /\ run.hadOpen = w.runtime.hadOpen
  BY <1>1 DEF RuntimeRecord
<1>3. /\ u \in Worlds
      /\ u.session = w.session /\ u.runtime = run /\ u.log = w.log /\ u.saved = w.saved
  BY <1>1, <1>2 DEF Worlds
<1> HIDE DEF u, run
<1>4. Clean(u.session) /\ (ActiveIn(w) => ActiveIn(u))
  BY <1>3 DEF WorldInv, ActiveIn
<1>5. Kept(w, u)
  BY <1>2, <1>3, <1>4, QuietKeeps
<1> QED BY <1>2, <1>3, <1>5 DEF u

\* A new session and what is saved of it: nothing is counted yet, nothing is logged.
NewWorld(v) ==
    /\ WorldInv(v) /\ Exact(v)
    /\ \A n \in Nat : Evidenced(v, n)
    /\ v.session.status \in {"RUNNING", "CLOSED", "CREATED"}
    /\ v.saved.status \in {"RUNNING", "CLOSED", "CREATED"}

LEMMA KeptIsNew ==
  ASSUME NEW w, NEW v, NewWorld(w), Kept(w, v),
         v.session.status = w.session.status,
         v.saved.status \in {w.saved.status, w.session.status}
  PROVE  NewWorld(v)
BY DEF NewWorld, Kept, EvidenceKept

LEMMA CreatedIsNew ==
  ASSUME NEW w, WorldInv(w), exchange \in Exchanges, feedState \in FeedStates
  PROVE  NewWorld(Fresh(w)) /\ NewWorld(Placed(w)) /\ NewWorld(Created(w))
<1> DEFINE run == [NoRuntime EXCEPT !.hadOpen = (exchange = "OPEN")]
           s == [NoSession EXCEPT !.exchange = exchange, !.status = InitialStatus(exchange)]
           fresh == [w EXCEPT !.log = NoEvents, !.runtime = run, !.session = s]
           stored == Save(fresh)
           created == Log(stored, "SESSION_CREATED")
           placed == CASE exchange = "OPEN" -> Log(created, "SESSION_OPEN")
                       [] exchange = "CLOSED" -> Log(created, "SESSION_CLOSED")
                       [] OTHER -> created
<1>1. run \in RuntimeRecord /\ ~run.down
  BY DEF NoRuntime, RuntimeRecord
<1>2. /\ s \in SessionRecord
      /\ s.disconnects = 0 /\ s.reconnects = 0 /\ s.stales = 0 /\ s.errors = 0
      /\ s.status \in {"RUNNING", "CLOSED", "CREATED"}
      /\ s.verdict = "NONE"
  <2>1. InitialStatus(exchange) \in {"RUNNING", "CLOSED", "CREATED"}
    BY DEF InitialStatus
  <2> QED BY <2>1 DEF NoSession, SessionRecord
<1>3. /\ NoEvents \in LogRecord
      /\ \A k \in Incidents : NoEvents.count[k] = 0
      /\ WindowSeen(NoEvents)
  BY DEF NoEvents, LogRecord, WindowSeen
<1> HIDE DEF run, s
<1>4. /\ fresh \in Worlds
      /\ fresh.session = s /\ fresh.runtime = run /\ fresh.log = NoEvents
  BY <1>1, <1>2, <1>3 DEF WorldInv, Worlds
<1> HIDE DEF fresh
<1>5. /\ stored \in Worlds
      /\ stored.session = s /\ stored.runtime = run /\ stored.log = NoEvents /\ stored.saved = s
  BY <1>4, SaveIs
<1> HIDE DEF stored
<1>6. NewWorld(stored)
  <2>1. Exact(stored)
    BY <1>2, <1>3, <1>5 DEF Exact, Incidents
  <2>2. Owed(s, FALSE) /\ Owed(s, run.down) /\ Clean(s)
    BY <1>1, <1>2 DEF Owed, Clean
  <2>3. WorldInv(stored)
    BY <1>3, <1>5, <2>2 DEF WorldInv
  <2>4. \A n \in Nat : EvidencedIn(s, NoEvents, n)
    BY <1>2, <1>3 DEF EvidencedIn, Incidents
  <2> QED BY <1>2, <1>5, <2>1, <2>3, <2>4 DEF NewWorld, Evidenced
<1>7. ASSUME NEW v, NewWorld(v), NEW e, e \notin Incidents PROVE NewWorld(Log(v, e))
  <2> DEFINE u == Log(v, e)
  <2>1. Kept(v, u) /\ u.session = v.session /\ u.saved = v.saved
    BY <1>7, LogKeeps DEF NewWorld
  <2> HIDE DEF u
  <2>2. NewWorld(u)
    BY <1>7, <2>1, KeptIsNew
  <2> QED BY <2>2 DEF u
<1>8. NewWorld(created)
  BY <1>6, <1>7 DEF Incidents
<1> HIDE DEF created
<1>9. NewWorld(placed)
  BY <1>7, <1>8 DEF Incidents
<1>10. /\ Fresh(w) = stored
       /\ Placed(w) = placed
       /\ Created(w) = RecordState(placed, feedState)
  BY DEF Created, Placed, Fresh, created, stored, fresh, run, s
<1> HIDE DEF placed
<1>11. NewWorld(RecordState(placed, feedState))
  <2> DEFINE u == RecordState(placed, feedState)
  <2>1. /\ Kept(placed, u) /\ u.session.status = placed.session.status
        /\ u.saved.status \in {placed.saved.status, placed.session.status}
    BY <1>9, RecordStateKeeps DEF NewWorld, RunStates
  <2> HIDE DEF u
  <2>2. NewWorld(u)
    BY <1>9, <2>1, KeptIsNew
  <2> QED BY <2>2 DEF u
<1> QED BY <1>6, <1>9, <1>10, <1>11

LEMMA AfterRecordedKeeps ==
  ASSUME NEW w, WorldInv(w)
  PROVE  /\ Kept(w, AfterRecorded(w))
         /\ Settled(AfterRecorded(w))
         /\ AfterRecorded(w).session.status = w.session.status
         /\ AfterRecorded(w).saved.status = w.session.status
<1> DEFINE u == [w EXCEPT !.runtime.subscribed = TRUE]
           v == Log(u, "SUBSCRIBED")
<1>1. Kept(w, u) /\ u.session = w.session
  BY FlagKeeps
<1> HIDE DEF u
<1>2. Kept(u, v) /\ v.session = u.session
  BY <1>1, LogKeeps DEF Kept, Incidents
<1> HIDE DEF v
<1>3. /\ Kept(v, Save(v)) /\ Settled(Save(v))
      /\ Save(v).session = v.session /\ Save(v).saved = v.session
  BY <1>2, SaveKeeps DEF Kept
<1>4. AfterRecorded(w) = Save(v)
  BY DEF AfterRecorded, u, v
<1> QED BY <1>1, <1>2, <1>3, <1>4, KeptTwice

LEMMA SubscribedKeeps ==
  ASSUME NEW w, WorldInv(w), NEW outcome, feedState \in FeedStates
  PROVE  /\ Kept(w, Subscribed(w, outcome))
         /\ Subscribed(w, outcome).session.status = w.session.status
         /\ Subscribed(w, outcome).runtime.hadOpen = w.runtime.hadOpen
         /\ Subscribed(w, outcome).saved.status \in {w.saved.status, w.session.status}
         /\ Subscribed(w, outcome).runtime.subscribed
               <=> w.runtime.subscribed \/ outcome = "resolved"
<1> DEFINE u == [w EXCEPT !.runtime.subscribed = @ \/ outcome = "resolved"]
           heard == RecordState(u, feedState)
           kind == IF outcome = "resolved" THEN "SUBSCRIBED" ELSE "SUBSCRIBED_NONE"
           told == Log(heard, kind)
           last == IF feedState = "CONNECTED" THEN Log(told, "STREAM_READY") ELSE told
           Fine(v) == /\ Kept(w, v)
                      /\ v.session.status = w.session.status
                      /\ v.runtime.hadOpen = w.runtime.hadOpen
                      /\ v.saved.status \in {w.saved.status, w.session.status}
                      /\ v.runtime.subscribed <=> w.runtime.subscribed \/ outcome = "resolved"
<1>1. Fine(u)
  <2>1. (w.runtime.subscribed \/ outcome = "resolved") \in BOOLEAN
    OBVIOUS
  <2> QED BY <2>1, FlagKeeps
<1> HIDE DEF u
<1>2. Fine(heard)
  <2>1. /\ Kept(u, heard)
        /\ heard.session.status = u.session.status
        /\ heard.runtime.hadOpen = u.runtime.hadOpen
        /\ heard.runtime.subscribed = u.runtime.subscribed
        /\ heard.saved.status \in {u.saved.status, u.session.status}
    BY <1>1, RecordStateKeeps DEF Kept, RunStates
  <2> HIDE DEF heard
  <2> QED BY <1>1, <2>1, KeptTwice
<1> HIDE DEF heard
<1>3. ASSUME NEW v, Fine(v), NEW e, e \notin Incidents PROVE Fine(Log(v, e))
  <2> DEFINE l == Log(v, e)
  <2>1. Kept(v, l) /\ l.session = v.session /\ l.runtime = v.runtime /\ l.saved = v.saved
    BY <1>3, LogKeeps DEF Kept
  <2> HIDE DEF l
  <2>2. Fine(l)
    BY <1>3, <2>1, KeptTwice
  <2> QED BY <2>2 DEF l
<1>4. kind \notin Incidents /\ "STREAM_READY" \notin Incidents
  BY DEF Incidents
<1> HIDE DEF kind
<1>5. Fine(told)
  BY <1>2, <1>3, <1>4
<1> HIDE DEF told
<1>6. Fine(last)
  BY <1>3, <1>4, <1>5
<1>7. Subscribed(w, outcome) = last
  BY DEF Subscribed, u, heard, told, kind
<1> HIDE DEF last
<1> QED BY <1>6, <1>7

LEMMA AfterSubscribeKeeps ==
  ASSUME NEW w, WorldInv(w), NEW outcome, feedState \in FeedStates
  PROVE  /\ Kept(w, AfterSubscribe(w, outcome))
         /\ Settled(AfterSubscribe(w, outcome))
         /\ AfterSubscribe(w, outcome).session.status = w.session.status
         /\ AfterSubscribe(w, outcome).runtime.hadOpen = w.runtime.hadOpen
         /\ AfterSubscribe(w, outcome).saved.status = w.session.status
         /\ AfterSubscribe(w, outcome).runtime.subscribed
               <=> w.runtime.subscribed \/ outcome = "resolved"
<1> DEFINE last == IF outcome \in Errors THEN RecordError(w) ELSE Subscribed(w, outcome)
<1>1. "resolved" \notin Errors
  BY DEF Errors
<1>2. /\ Kept(w, last)
      /\ last.session.status = w.session.status
      /\ last.runtime.hadOpen = w.runtime.hadOpen
      /\ last.runtime.subscribed <=> w.runtime.subscribed \/ outcome = "resolved"
  BY <1>1, RecordErrorKeeps, SubscribedKeeps
<1>3. AfterSubscribe(w, outcome) = Save(last)
  BY DEF AfterSubscribe
<1> HIDE DEF last
<1>4. /\ Kept(last, Save(last)) /\ Settled(Save(last))
      /\ Save(last).session = last.session /\ Save(last).runtime = last.runtime
      /\ Save(last).saved = last.session
  BY <1>2, SaveKeeps DEF Kept
<1> QED BY <1>2, <1>3, <1>4, KeptTwice

\* What a round of the monitor does to a world, however far it comes.
RoundOf(w, v) ==
    /\ Kept(w, v)
    /\ v.session.status \in {w.session.status, "RUNNING", "DEGRADED"}
    /\ v.session.status = "DEGRADED"
         => w.session.status = "DEGRADED" \/ TicksAreDue(exchange, feedState = "CONNECTED")
    /\ v.saved.status \in {w.saved.status, w.session.status, "RUNNING", "DEGRADED"}
    /\ v.runtime.subscribed = w.runtime.subscribed

LEMMA MonitorRoundKeeps ==
  ASSUME NEW w, WorldInv(w), exchange \in Exchanges, feedState \in FeedStates
  PROVE  /\ RoundOf(w, Heard(w))
         /\ RoundOf(w, Opened(w))
         /\ \A aged, due \in BOOLEAN : RoundOf(w, MonitorRound(w, aged, due))
<1> DEFINE u == [w EXCEPT !.session.exchange = exchange]
           heard == RecordState(u, feedState)
           open == [heard EXCEPT !.runtime.hadOpen = TRUE, !.session.status = "RUNNING"]
           opened == IF exchange = "OPEN" /\ w.session.exchange # "OPEN"
                     THEN Log(open, "SESSION_OPEN") ELSE heard
           Fine(v) == RoundOf(w, v)
<1>0. Heard(w) = heard /\ Opened(w) = opened
  BY DEF Heard, Opened
<1>1. /\ w \in Worlds /\ w.session \in SessionRecord
  BY DEF WorldInv, Worlds
<1>2. Fine(u)
  <2> DEFINE s == [w.session EXCEPT !.exchange = exchange]
  <2>1. /\ s \in SessionRecord
        /\ s.disconnects = w.session.disconnects /\ s.reconnects = w.session.reconnects
        /\ s.stales = w.session.stales /\ s.errors = w.session.errors
        /\ s.status = w.session.status
        /\ s.verdict = w.session.verdict /\ s.evidence = w.session.evidence
    BY <1>1 DEF SessionRecord
  <2>2. /\ u \in Worlds
        /\ u.session = s /\ u.runtime = w.runtime /\ u.log = w.log /\ u.saved = w.saved
    BY <1>1, <2>1 DEF Worlds
  <2> HIDE DEF u, s
  <2>3. Clean(u.session) /\ (ActiveIn(w) => ActiveIn(u))
    BY <2>1, <2>2 DEF WorldInv, Clean, ActiveIn
  <2> QED BY <2>1, <2>2, <2>3, QuietKeeps DEF RoundOf
<1> HIDE DEF u
<1>3. Fine(heard)
  <2>1. /\ Kept(u, heard) /\ heard.session.status = u.session.status
        /\ heard.saved.status \in {u.saved.status, u.session.status}
        /\ heard.runtime.subscribed = u.runtime.subscribed
    BY <1>2, RecordStateKeeps DEF RoundOf, Kept, RunStates
  <2> HIDE DEF heard
  <2> QED BY <1>2, <2>1, KeptTwice DEF RoundOf
<1> HIDE DEF heard
<1>4. Fine(Log(open, "SESSION_OPEN"))
  <2> DEFINE s == [heard.session EXCEPT !.status = "RUNNING"]
             run == [heard.runtime EXCEPT !.hadOpen = TRUE]
             v == Log(open, "SESSION_OPEN")
  <2>1. /\ WorldInv(heard) /\ heard \in Worlds
        /\ heard.session \in SessionRecord /\ heard.runtime \in RuntimeRecord
    BY <1>3 DEF RoundOf, Kept, WorldInv, Worlds
  <2>2. /\ s \in SessionRecord
        /\ s.disconnects = heard.session.disconnects /\ s.reconnects = heard.session.reconnects
        /\ s.stales = heard.session.stales /\ s.errors = heard.session.errors
        /\ s.status = "RUNNING"
        /\ s.verdict = heard.session.verdict /\ s.evidence = heard.session.evidence
    BY <2>1 DEF SessionRecord
  <2>3. /\ run \in RuntimeRecord
        /\ run.down = heard.runtime.down /\ run.stale = heard.runtime.stale
        /\ run.sustained = heard.runtime.sustained
        /\ run.subscribed = heard.runtime.subscribed
    BY <2>1 DEF RuntimeRecord
  <2>4. /\ open \in Worlds
        /\ open.session = s /\ open.runtime = run
        /\ open.log = heard.log /\ open.saved = heard.saved
    BY <2>1, <2>2, <2>3 DEF Worlds
  <2> HIDE DEF open, s, run
  <2>5. Clean(open.session) /\ ActiveIn(open)
    BY <2>1, <2>2, <2>4 DEF WorldInv, Clean, ActiveIn, Finished
  <2>6. Kept(heard, open)
    BY <2>1, <2>2, <2>3, <2>4, <2>5, QuietKeeps
  <2>7. /\ Kept(open, v) /\ v.session = open.session
        /\ v.runtime = open.runtime /\ v.saved = open.saved
    BY <2>6, LogKeeps DEF Kept, Incidents
  <2> HIDE DEF v
  <2>8. Kept(w, v)
    BY <1>3, <2>1, <2>6, <2>7, KeptTwice DEF RoundOf
  <2> QED BY <1>3, <2>2, <2>3, <2>4, <2>7, <2>8 DEF RoundOf, v
<1> HIDE DEF open
<1>5. Fine(opened)
  BY <1>3, <1>4
<1> HIDE DEF opened
<1>6. ASSUME NEW aged \in BOOLEAN, NEW due \in BOOLEAN
      PROVE  RoundOf(w, MonitorRound(w, aged, due))
  <2> DEFINE up == feedState = "CONNECTED"
             checked == CheckStale(opened, exchange, up, aged)
  <2>1. Fine(checked)
    <3>1. /\ Kept(opened, checked)
          /\ \/ checked.session.status = opened.session.status
             \/ checked.session.status = "DEGRADED" /\ TicksAreDue(exchange, up)
          /\ checked.saved.status \in {opened.saved.status, "DEGRADED"}
          /\ checked.runtime.subscribed = opened.runtime.subscribed
      BY <1>5, CheckStaleKeeps DEF RoundOf, Kept
    <3> HIDE DEF checked
    <3> QED BY <1>5, <3>1, KeptTwice DEF RoundOf
  <2>2. MonitorRound(w, aged, due) = IF due THEN CaptureSummary(checked) ELSE checked
    BY <1>0 DEF MonitorRound, Checked
  <2> HIDE DEF checked
  <2>3. Fine(CaptureSummary(checked))
    <3> DEFINE c == CaptureSummary(checked)
    <3>1. /\ Kept(checked, c) /\ c.session = checked.session
          /\ c.runtime = checked.runtime /\ c.saved = checked.session
      BY <2>1, CaptureSummaryKeeps DEF RoundOf, Kept
    <3> HIDE DEF c
    <3>2. Fine(c)
      BY <2>1, <3>1, KeptTwice DEF RoundOf
    <3> QED BY <3>2 DEF c
  <2> QED BY <2>1, <2>2, <2>3
<1> QED BY <1>0, <1>3, <1>5, <1>6


-----------------------------------------------------------------------------
(* The inductive invariant. *)

\* Whoever may still change what this process observed: a session that was open, the
\* monitor, a request that subscribes.  None outlives a crash.
Own ==
    \/ runtime.hadOpen
    \/ monitor # "none"
    \/ \E k \in ApiCallers : callers[k] = "subscribing"

GoodWorld == WorldInv(World)
ExactWhenOwn == Own => Exact(World)
Dormant == session.status = "NONE" => ~Own /\ ~runtime.subscribed

\* The workers that have counted an error and not yet logged it.
Counted == {r \in Recorders : recorders[r].at = "counted"}
Late == Cardinality(Counted)

\* What a worker has read of this session's errors is in the log but for the late ones.
Read(r) ==
    recorders[r].at = "loaded" /\ recorders[r].of = sessions
        => recorders[r].errors <= log.count["PROVIDER_ERROR"] + Late

Recorded ==
    ~cut => /\ Evidenced(World, Late)
            /\ \A r \in Recorders : Read(r)

\* All of SessionTypeOK but the world and the history.
RequestsOK ==
    /\ callers \in [ApiCallers -> {"idle", "subscribing", "releasing", "concluding", "answering"}]
    /\ started \in [ApiCallers -> 0..sessions]

RecordersOK ==
    /\ recorders \in [Recorders -> RecorderRecord]
    /\ \A r \in Recorders : recorders[r].of <= sessions

Monitors == {"none", "starting", "asleep", "releasing", "concluding", "cancelled", "done"}

OutsideOK ==
    /\ monitor \in Monitors
    /\ feedState \in FeedStates
    /\ feedRefs \in Nat /\ strays \in Nat
    /\ exchange \in Exchanges

Tallies ==
    /\ sessions \in 0..MaxSessions /\ abandoned \in 0..sessions /\ crashes \in Nat
    /\ cut \in BOOLEAN

SessionInv ==
    /\ GoodWorld
    /\ RequestsOK
    /\ RecordersOK
    /\ OutsideOK
    /\ Tallies
    /\ Recorded
    /\ UnfinishedOnlyByCrash
    /\ Dormant
    /\ ExactWhenOwn

\* What DegradesOnlyWhenOpen says of a step.
DegradesDuly ==
    session.status # "DEGRADED" /\ session'.status = "DEGRADED"
        => exchange = "OPEN" /\ feedState = "CONNECTED"

LEMMA InvGivesTypeOK ==
  SessionInv => SessionTypeOK
<1> SUFFICES ASSUME SessionInv PROVE SessionTypeOK
  OBVIOUS
<1>1. session \in SessionRecord /\ saved \in SessionRecord /\ runtime \in RuntimeRecord
  BY DEF SessionInv, GoodWorld, WorldInv, World, Worlds
<1>2. DOMAIN runtime = DOMAIN NoRuntime
  BY <1>1 DEF RuntimeRecord, NoRuntime
<1>3. started \in [ApiCallers -> 0..MaxSessions]
  BY SessionAssumption DEF SessionInv, Tallies, RequestsOK
<1> QED BY <1>1, <1>2, <1>3
        DEF SessionInv, OutsideOK, RequestsOK, RecordersOK, Tallies, SessionTypeOK, Monitors

LEMMA BecomeIs ==
  ASSUME NEW w \in Worlds, Become(w)
  PROVE  World' = w
BY DEF Become, World, Worlds

\* The world as it is, for the lemmas about worlds.
LEMMA InvAtWorld ==
  ASSUME SessionInv
  PROVE  /\ WorldInv(World)
         /\ World.session = session /\ World.runtime = runtime
         /\ World.log = log /\ World.saved = saved
         /\ Own => Exact(World)
         /\ runtime.hadOpen => Exact(World)
         /\ exchange \in Exchanges /\ feedState \in FeedStates
BY DEF SessionInv, GoodWorld, ExactWhenOwn, OutsideOK, World, Own

LEMMA WorkersCount ==
  ASSUME NEW S \in SUBSET Recorders, NEW r
  PROVE  /\ Cardinality(S) \in Nat
         /\ Cardinality(S \union {r}) = IF r \in S THEN Cardinality(S) ELSE Cardinality(S) + 1
         /\ Cardinality(S \ {r}) = IF r \in S THEN Cardinality(S) - 1 ELSE Cardinality(S)
<1>1. IsFiniteSet(S)
  BY FS_Subset, SessionAssumption
<1> QED BY <1>1, FS_CardinalityType, FS_AddElement, FS_RemoveElement

LEMMA LateIsNat ==
  /\ Late \in Nat
  /\ Late' \in Nat
<1>1. Counted \in SUBSET Recorders /\ Counted' \in SUBSET Recorders
  BY DEF Counted
<1>2. \A S \in SUBSET Recorders : Cardinality(S) \in Nat
  BY WorkersCount
<1> QED BY <1>1, <1>2 DEF Late

\* No worker moves and nothing is forgotten: what was recorded stays so.
LEMMA RecordedStays ==
  ASSUME SessionInv, NEW v, Grown(World, v), Become(v), UNCHANGED <<sessions, cut, recorders>>
  PROVE  Recorded'
<1> SUFFICES ASSUME ~cut' PROVE Evidenced(World, Late)' /\ \A r \in Recorders : Read(r)'
  BY DEF Recorded
<1>1. World' = v
  BY BecomeIs DEF Grown, WorldInv
<1>2. Late' = Late /\ Late \in Nat
  BY LateIsNat DEF Late, Counted
<1>3. Evidenced(World, Late) /\ \A r \in Recorders : Read(r)
  BY DEF SessionInv, Recorded
<1>4. Evidenced(v, Late)
  BY <1>2, <1>3 DEF Grown, EvidenceKept
<1>5. Evidenced(World, Late)'
  BY <1>1, <1>2, <1>4 DEF Evidenced
<1>6. /\ log.count["PROVIDER_ERROR"] \in Nat /\ log'.count["PROVIDER_ERROR"] \in Nat
      /\ log.count["PROVIDER_ERROR"] <= log'.count["PROVIDER_ERROR"]
  <2>1. log' = v.log /\ World.log = log
    BY DEF Become, World
  <2>2. log \in LogRecord /\ v.log \in LogRecord
    BY InvAtWorld DEF Grown, WorldInv, Worlds
  <2> QED BY <2>1, <2>2 DEF Grown, LogGrows, LogRecord, Incidents
<1>7. ASSUME NEW r \in Recorders PROVE Read(r)'
  <2>1. recorders[r].errors \in Nat
    BY DEF SessionInv, RecordersOK, RecorderRecord
  <2> QED BY <1>2, <1>3, <1>6, <2>1 DEF Read
<1> QED BY <1>5, <1>7

\* A step within the same session.
LEMMA StepKeeps ==
  ASSUME SessionInv, NEW v, WorldInv(v), Become(v),
         RequestsOK', RecordersOK', OutsideOK', Recorded',
         UNCHANGED <<historyVars, crashes>>,
         Own' => Exact(v),
         Ending' \/ Settled(v) \/ ((Settled(World) => Settled(v)) /\ (Ending => Ending')),
         v.session.status = "NONE"
            => session.status = "NONE" /\ ~Own' /\ (v.runtime.subscribed => runtime.subscribed),
         v.session.status = "DEGRADED"
            => session.status = "DEGRADED" \/ TicksAreDue(exchange, feedState = "CONNECTED")
  PROVE  SessionInv' /\ DegradesDuly
<1>1. World' = v
  BY BecomeIs DEF WorldInv
<1>2. GoodWorld'
  BY <1>1 DEF GoodWorld
<1>3. Tallies'
  BY DEF SessionInv, Tallies, historyVars
<1>4. UnfinishedOnlyByCrash'
  <2>1. /\ Settled(World) \/ Ending => abandoned + 0 <= crashes
        /\ ~Settled(World) /\ ~Ending => abandoned + 1 <= crashes
    BY DEF SessionInv, UnfinishedOnlyByCrash, Unfinished, Active, Settled, World
  <2>2. Ending' \/ Settled(World') \/ ((Settled(World) => Settled(World')) /\ (Ending => Ending'))
    BY <1>1
  <2>3. abandoned' = abandoned /\ crashes' = crashes /\ abandoned \in Int /\ crashes \in Int
    BY DEF SessionInv, Tallies, historyVars
  <2>4. Settled(World') <=> ~(Unfinished' /\ ~Active')
    BY DEF Unfinished, Active, Settled, World
  <2> QED BY <2>1, <2>2, <2>3, <2>4 DEF UnfinishedOnlyByCrash
<1>5. Dormant'
  BY DEF SessionInv, Dormant, Become
<1>6. ExactWhenOwn'
  BY <1>1 DEF ExactWhenOwn
<1>7. DegradesDuly
  BY DEF DegradesDuly, TicksAreDue, Become
<1> QED BY <1>2, <1>3, <1>4, <1>5, <1>6, <1>7 DEF SessionInv

\* An operation of the manager, with the workers where they are.
LEMMA OperationKeeps ==
  ASSUME SessionInv, NEW v, Grown(World, v), Become(v), RequestsOK', OutsideOK',
         UNCHANGED <<historyVars, crashes, recorders>>,
         Own' => Exact(v),
         Ending' \/ Settled(v) \/ ((Settled(World) => Settled(v)) /\ (Ending => Ending')),
         v.session.status = "NONE"
            => session.status = "NONE" /\ ~Own' /\ (v.runtime.subscribed => runtime.subscribed),
         v.session.status = "DEGRADED"
            => session.status = "DEGRADED" \/ TicksAreDue(exchange, feedState = "CONNECTED")
  PROVE  SessionInv' /\ DegradesDuly
<1>1. WorldInv(v)
  BY DEF Grown
<1>2. Recorded'
  BY RecordedStays DEF historyVars
<1>3. RecordersOK'
  BY DEF SessionInv, RecordersOK, historyVars
<1> QED BY <1>1, <1>2, <1>3, StepKeeps

\* The same where the process owned its session before.
LEMMA OwnStepKeeps ==
  ASSUME SessionInv, NEW v, Kept(World, v), Become(v), RequestsOK', OutsideOK',
         UNCHANGED <<historyVars, crashes, recorders>>,
         Own' => Own,
         Ending' \/ Settled(v) \/ (Ending => Ending'),
         v.session.status = "NONE"
            => session.status = "NONE" /\ (v.runtime.subscribed => runtime.subscribed),
         v.session.status = "DEGRADED"
            => session.status = "DEGRADED" \/ TicksAreDue(exchange, feedState = "CONNECTED")
  PROVE  SessionInv' /\ DegradesDuly
<1>1. Grown(World, v)
  BY KeptIsGrown
<1>2. (Own' => Exact(v)) /\ (Settled(World) => Settled(v))
  BY InvAtWorld DEF Kept
<1>3. session.status = "NONE" => ~Own'
  BY DEF SessionInv, Dormant
<1> QED BY <1>1, <1>2, <1>3, OperationKeeps

\* The steps that leave the world and the workers as they are.
LEMMA SameWorldKeepsInv ==
  ASSUME SessionInv, UNCHANGED <<worldVars, historyVars, crashes, recorders>>,
         RequestsOK', OutsideOK', Own' => Own, Ending => Ending'
  PROVE  SessionInv' /\ DegradesDuly
<1>1. Kept(World, World)
  BY InvAtWorld, KeptItself
<1>2. Become(World)
  BY DEF Become, World, worldVars
<1>3. session.status = "NONE" => session.status = "NONE"
  OBVIOUS
<1> QED BY <1>1, <1>2, <1>3, InvAtWorld, OwnStepKeeps

LEMMA InitGivesInv ==
  SessionInit => SessionInv
<1> SUFFICES ASSUME SessionInit PROVE SessionInv
  OBVIOUS
<1>1. NoSession \in SessionRecord /\ NoRuntime \in RuntimeRecord /\ NoEvents \in LogRecord
  BY DEF NoSession, SessionRecord, Exchanges, NoRuntime, RuntimeRecord, NoEvents, LogRecord
<1>2. World \in Worlds
  BY <1>1 DEF World, Worlds, SessionInit
<1>3. GoodWorld
  BY <1>2 DEF GoodWorld, WorldInv, World, SessionInit, NoSession, NoRuntime, NoEvents,
              Owed, Clean, WindowSeen
<1>4. OutsideOK
  BY DEF OutsideOK, SessionInit, FeedStates, Monitors
<1>5. RequestsOK
  BY DEF RequestsOK, SessionInit
<1>6. \A r \in Recorders : recorders[r] = IdleRecorder
  BY DEF SessionInit
<1>7. RecordersOK
  <2>1. IdleRecorder \in RecorderRecord /\ IdleRecorder.of = 0
    BY DEF IdleRecorder, RecorderRecord
  <2>2. recorders = [r \in Recorders |-> IdleRecorder] /\ sessions = 0
    BY DEF SessionInit
  <2> QED BY <1>6, <2>1, <2>2 DEF RecordersOK
<1>8. Tallies
  <2>1. sessions = 0 /\ abandoned = 0 /\ crashes = 0 /\ cut = FALSE
    BY DEF SessionInit
  <2>2. 0 \in 0..MaxSessions /\ 0 \in 0..0
    BY SessionAssumption
  <2>3. cut \in BOOLEAN
    BY <2>1
  <2> QED BY <2>1, <2>2, <2>3 DEF Tallies
<1>9. Recorded
  <2>1. EvidencedIn(session, log, Late) /\ EvidencedIn(saved, log, Late)
    BY LateIsNat DEF SessionInit, EvidencedIn, NoSession, NoEvents, Incidents
  <2>2. \A r \in Recorders : Read(r)
    BY <1>6 DEF Read, IdleRecorder
  <2> QED BY <2>1, <2>2 DEF Recorded, Evidenced, World
<1>10. UnfinishedOnlyByCrash
  BY DEF UnfinishedOnlyByCrash, Unfinished, SessionInit, NoSession
<1>11. ~Own /\ Dormant
  BY DEF Own, Dormant, SessionInit, NoRuntime
<1> QED BY <1>3, <1>4, <1>5, <1>7, <1>8, <1>9, <1>10, <1>11 DEF SessionInv, ExactWhenOwn

-----------------------------------------------------------------------------
(* Each action keeps it. *)

LEMMA StartKeepsInv ==
  ASSUME SessionInv, NEW k \in ApiCallers, Start(k)
  PROVE  SessionInv' /\ DegradesDuly
<1> DEFINE c == Created(World)
           v == IF hasFeed THEN c ELSE AfterRecorded(c)
<1>1. NewWorld(c)
  BY InvAtWorld, CreatedIsNew
<1> HIDE DEF c
<1>2. NewWorld(AfterRecorded(c))
  <2> DEFINE a == AfterRecorded(c)
  <2>1. /\ Kept(c, a)
        /\ a.session.status = c.session.status /\ a.saved.status = c.session.status
    BY <1>1, AfterRecordedKeeps DEF NewWorld
  <2> HIDE DEF a
  <2>2. NewWorld(a)
    BY <1>1, <2>1, KeptIsNew
  <2> QED BY <2>2 DEF a
<1>3. NewWorld(v)
  BY <1>1, <1>2
<1>4. Become(v)
  BY DEF Start, c
<1> HIDE DEF v
<1>5. World' = v
  BY <1>3, <1>4, BecomeIs DEF NewWorld, WorldInv
<1>6. /\ sessions' = sessions + 1 /\ sessions \in Nat /\ cut' = FALSE
      /\ recorders' = recorders
      /\ \A r \in Recorders : recorders[r].of \in Nat /\ recorders[r].of <= sessions
  BY DEF Start, NewSession, SessionInv, Tallies, RecordersOK, RecorderRecord
<1>7. OutsideOK'
  BY DEF SessionInv, OutsideOK, Start, StartMonitor, outsideVars, referenceVars, Monitors
<1>8. RequestsOK'
  <2>1. callers' \in [ApiCallers -> {"idle", "subscribing", "releasing", "concluding", "answering"}]
    BY DEF SessionInv, RequestsOK, Start, requestVars
  <2>2. started \in [ApiCallers -> 0..(sessions + 1)] /\ sessions + 1 \in 0..(sessions + 1)
    BY <1>6 DEF SessionInv, RequestsOK
  <2>3. started' \in [ApiCallers -> 0..(sessions + 1)]
    BY <2>2 DEF Start, requestVars
  <2> QED BY <1>6, <2>1, <2>3 DEF RequestsOK
<1>9. RecordersOK'
  <2>1. \A r \in Recorders : recorders[r].of <= sessions + 1
    BY <1>6
  <2> QED BY <1>6, <2>1 DEF SessionInv, RecordersOK
<1>10. Tallies'
  <2>1. /\ sessions \in 0..MaxSessions /\ sessions < MaxSessions /\ abandoned \in 0..sessions
        /\ crashes \in Nat /\ crashes' = crashes
        /\ abandoned' \in {abandoned, abandoned + 1}
    BY DEF SessionInv, Tallies, Start, MayStart, NewSession, outsideVars
  <2>2. cut' \in BOOLEAN
    BY <1>6
  <2> QED BY <1>6, <2>1, <2>2, SessionAssumption DEF Tallies
<1>11. Recorded'
  <2>1. Evidenced(World, Late)'
    BY <1>3, <1>5, LateIsNat DEF NewWorld, Evidenced
  <2>2. \A r \in Recorders : Read(r)'
    BY <1>6 DEF Read
  <2> QED BY <2>1, <2>2 DEF Recorded
<1>12. UnfinishedOnlyByCrash'
  <2>1. ~Active /\ ~Ending /\ Active'
    BY <1>3, <1>5 DEF Start, MayStart, LoopFree, Active, ActiveIn, Finished, NewWorld
  <2>2. abandoned' <= crashes' /\ abandoned' \in Int
    BY <2>1 DEF Start, NewSession, SessionInv, Tallies, UnfinishedOnlyByCrash, outsideVars
  <2> QED BY <2>1, <2>2 DEF UnfinishedOnlyByCrash
<1>13. Dormant'
  BY <1>3, <1>4 DEF Dormant, Become, NewWorld
<1>14. DegradesDuly
  BY <1>3, <1>4 DEF DegradesDuly, Become, NewWorld
<1>15. GoodWorld' /\ ExactWhenOwn'
  BY <1>3, <1>5 DEF GoodWorld, ExactWhenOwn, NewWorld
<1> QED BY <1>7, <1>8, <1>9, <1>10, <1>11, <1>12, <1>13, <1>14, <1>15 DEF SessionInv

LEMMA StartSubscribedKeepsInv ==
  ASSUME SessionInv, NEW k \in ApiCallers, StartSubscribed(k)
  PROVE  SessionInv' /\ DegradesDuly
<1>1. PICK outcome \in Outcomes :
         /\ Become(AfterSubscribe(World, outcome))
         /\ feedRefs' \in {feedRefs, feedRefs + 1}
         /\ strays' \in {strays, strays + 1}
  BY DEF StartSubscribed
<1> DEFINE v == AfterSubscribe(World, outcome)
<1>2. Kept(World, v) /\ v.session.status = session.status /\ Settled(v)
  BY InvAtWorld, AfterSubscribeKeeps
<1>3. Become(v)
  BY <1>1
<1> HIDE DEF v
<1>4. Own
  BY DEF Own, StartSubscribed
<1>5. OutsideOK'
  BY <1>1 DEF SessionInv, OutsideOK, StartSubscribed, StartMonitor, Monitors, outsideVars
<1>6. UNCHANGED <<historyVars, crashes, recorders>>
  BY DEF StartSubscribed, outsideVars
<1>7. RequestsOK'
  BY DEF SessionInv, RequestsOK, StartSubscribed, Tallies, historyVars
<1>8. session.status # "NONE"
  BY <1>4 DEF SessionInv, Dormant
<1> QED BY <1>2, <1>3, <1>4, <1>5, <1>6, <1>7, <1>8, OwnStepKeeps

\* A stop request acts on a good world too, and on its own if it was observed here.
LEMMA AdoptedKeeps ==
  ASSUME SessionInv
  PROVE  /\ Grown(World, Adopted(World))
         /\ Adopted(World).runtime = runtime
         /\ Own => Adopted(World) = World
         /\ Adopted(World).runtime.hadOpen => Exact(Adopted(World))
         /\ Settled(World) => Settled(Adopted(World))
         /\ session.status # "NONE" => Adopted(World) = World
         /\ session = NoSession => ~runtime.subscribed
         /\ Adopted(World) = World \/ Adopted(World).session = saved
         /\ Adopted(World).saved = saved
<1> DEFINE a == [World EXCEPT !.session = saved]
<1>1. CASE session # NoSession
  <2>1. Adopted(World) = World
    BY <1>1 DEF Adopted, World
  <2> QED BY <1>1, <2>1, InvAtWorld, KeptItself, KeptIsGrown DEF Own
<1>2. CASE session = NoSession
  <2>1. ~runtime.subscribed /\ ~Own /\ ~runtime.hadOpen /\ session.status = "NONE"
    BY <1>2 DEF SessionInv, Dormant, NoSession, Own
  <2>2. /\ World \in Worlds /\ saved \in SessionRecord /\ runtime \in RuntimeRecord
        /\ log \in LogRecord
    BY DEF SessionInv, GoodWorld, WorldInv, World, Worlds
  <2>3. /\ a \in Worlds
        /\ a.session = saved /\ a.runtime = runtime /\ a.log = log /\ a.saved = saved
    BY <2>2 DEF World, Worlds
  <2>4. Adopted(World) = a
    BY <1>2 DEF Adopted, World
  <2> HIDE DEF a
  <2>5. ~runtime.down
    BY <1>2, InvAtWorld DEF WorldInv, Owed, NoSession
  <2>6. WorldInv(a)
    BY <2>3, <2>5, InvAtWorld DEF WorldInv, Owed
  <2>7. Settled(a)
    BY <2>2, <2>3 DEF Settled, ActiveIn, Finished, SessionRecord
  <2>8. LogGrows(World, a)
    BY <2>2, <2>3, InvAtWorld DEF LogGrows, LogRecord
  <2>9. EvidenceKept(World, a)
    BY <2>3, InvAtWorld DEF EvidenceKept, Evidenced
  <2> QED BY <2>1, <2>3, <2>4, <2>6, <2>7, <2>8, <2>9 DEF Grown
<1> QED BY <1>1, <1>2

\* However a session ends, it is judged in a good world.
LEMMA JudgedKeeps ==
  ASSUME NEW w, WorldInv(w), w.runtime.hadOpen => Exact(w)
  PROVE  /\ Grown(w, Judge(Released(w)))
         /\ Exact(w) => Exact(Judge(Released(w)))
         /\ Judge(Released(w)).session.status = "COMPLETED"
         /\ Judge(Released(w)).saved = w.saved
         /\ Judge(Released(w)).runtime.hadOpen = w.runtime.hadOpen
<1> DEFINE v == Released(w)
<1>1. Kept(w, v) /\ v.runtime.hadOpen = w.runtime.hadOpen /\ v.saved = w.saved
  BY ReleasedKeeps
<1> HIDE DEF v
<1>2. WorldInv(v) /\ (v.runtime.hadOpen => Exact(v)) /\ Grown(w, v)
  BY <1>1, KeptIsGrown DEF Kept
<1>3. /\ Grown(v, Judge(v))
      /\ Exact(v) => Exact(Judge(v))
      /\ Judge(v).session.status = "COMPLETED"
      /\ Judge(v).saved = v.saved
      /\ Judge(v).runtime.hadOpen = v.runtime.hadOpen
  BY <1>2, JudgeGrows
<1>4. Grown(w, Judge(v))
  BY <1>2, <1>3, GrownTwice
<1> QED BY <1>1, <1>3, <1>4 DEF v, Kept

LEMMA ReleasedWorldsEnd ==
  ASSUME SessionInv, NEW w \in ReleasedWorlds
  PROVE  /\ Grown(World, Judge(w))
         /\ Own => Exact(Judge(w))
         /\ Judge(w).session.status = "COMPLETED"
         /\ Judge(w).saved.status \in {saved.status, session.status}
         /\ ~Active => Judge(w).saved = saved
         /\ Judge(w).runtime.hadOpen = runtime.hadOpen
<1> DEFINE e == RecordError(World)
           Good(v) == /\ Grown(World, Judge(v))
                      /\ Own => Exact(Judge(v))
                      /\ Judge(v).session.status = "COMPLETED"
                      /\ Judge(v).saved.status \in {saved.status, session.status}
                      /\ ~Active => Judge(v).saved = saved
                      /\ Judge(v).runtime.hadOpen = runtime.hadOpen
<1>1. Good(Released(World))
  BY InvAtWorld, JudgedKeeps
<1>2. /\ Kept(World, e) /\ e.runtime = runtime
      /\ e.saved.status \in {saved.status, session.status}
      /\ ~Active => e = World
  BY InvAtWorld, RecordErrorKeeps DEF RecordError, Active
<1> HIDE DEF e
<1>3. Good(Released(e))
  <2>1. WorldInv(e) /\ (e.runtime.hadOpen => Exact(e)) /\ (Own => Exact(e)) /\ Grown(World, e)
    BY <1>2, InvAtWorld, KeptIsGrown DEF Kept
  <2> DEFINE j == Judge(Released(e))
  <2>2. /\ Grown(e, j) /\ (Exact(e) => Exact(j)) /\ j.session.status = "COMPLETED"
        /\ j.saved = e.saved /\ j.runtime.hadOpen = e.runtime.hadOpen
    BY <2>1, JudgedKeeps
  <2> HIDE DEF j
  <2>3. Grown(World, j)
    BY <2>1, <2>2, InvAtWorld, GrownTwice
  <2> QED BY <1>2, <2>1, <2>2, <2>3, InvAtWorld DEF j
<1>4. w = Released(World) \/ w = Released(e)
  BY DEF ReleasedWorlds, e
<1> QED BY <1>1, <1>3, <1>4

LEMMA StopKeepsInv ==
  ASSUME SessionInv, NEW k \in ApiCallers, Stop(k)
  PROVE  SessionInv' /\ DegradesDuly
<1> DEFINE w == Adopted(World)
           v == Judge(Released(w))
<1>1. /\ Grown(World, w) /\ w.runtime = runtime
      /\ Own => w = World
      /\ w.runtime.hadOpen => Exact(w)
      /\ Settled(World) => Settled(w)
      /\ session = NoSession => ~runtime.subscribed
      /\ session.status # "NONE" => w = World
      /\ w = World \/ w.session = saved
  BY AdoptedKeeps
<1>2. /\ Grown(World, v)
      /\ Exact(w) => Exact(v)
      /\ v.session.status = "COMPLETED"
      /\ v.runtime.hadOpen = runtime.hadOpen
  <2> HIDE DEF w
  <2>1. WorldInv(w)
    BY <1>1 DEF Grown
  <2> QED BY <1>1, <2>1, JudgedKeeps, InvAtWorld, GrownTwice
<1>3. \/ /\ w.session.status = "COMPLETED"
         /\ Become(w)
         /\ UNCHANGED <<callers, feedRefs>>
      \/ /\ MustRelease(w)
         /\ Become(w)
         /\ GiveBack
         /\ callers' = [callers EXCEPT ![k] = "releasing"]
      \/ /\ Become(v)
         /\ callers' = [callers EXCEPT ![k] = "concluding"]
         /\ UNCHANGED feedRefs
  BY DEF Stop
<1>4. /\ UNCHANGED <<historyVars, recorders, hasFeed, feedState, exchange, moves, crashes>>
      /\ UNCHANGED <<monitor, started, strays>>
      /\ ~Ending /\ callers[k] = "idle"
  BY DEF Stop, outsideVars, LoopFree
<1>5. /\ callers \in [ApiCallers -> {"idle", "subscribing", "releasing", "concluding", "answering"}]
      /\ feedRefs \in Nat
  BY DEF SessionInv, RequestsOK, OutsideOK
<1>6. /\ \A j \in ApiCallers : callers'[j] = "subscribing" => callers[j] = "subscribing"
      /\ RequestsOK' /\ OutsideOK'
  <2>1. callers' \in [ApiCallers -> {"idle", "subscribing", "releasing", "concluding", "answering"}]
    BY <1>3, <1>5
  <2>2. feedRefs' \in Nat
    BY <1>3, <1>5 DEF GiveBack, OneLess
  <2>3. RequestsOK'
    BY <1>4, <2>1 DEF SessionInv, RequestsOK, historyVars
  <2>4. OutsideOK'
    BY <1>4, <2>2 DEF SessionInv, OutsideOK
  <2> QED BY <1>3, <1>5, <2>3, <2>4
<1> HIDE DEF w, v
<1>7. /\ Become(w) => (Own' => Own)
      /\ Become(v) => (Own' => Own)
  BY <1>1, <1>2, <1>4, <1>6 DEF Own, Become
<1>8. Own => Exact(w) /\ Exact(v)
  BY <1>1, <1>2, InvAtWorld
<1>9. CASE Become(w) /\ (w.session.status = "COMPLETED" \/ MustRelease(w))
  <2>1. w.session.status = "NONE" => session.status = "NONE" /\ ~Own'
    BY <1>1, <1>7, <1>9, InvAtWorld DEF SessionInv, Dormant
  <2>2. CASE w = World
    BY <1>1, <1>4, <1>6, <1>7, <1>8, <1>9, <2>1, <2>2, InvAtWorld, OperationKeeps
  <2>3. CASE w.session.status = "COMPLETED"
    BY <1>1, <1>4, <1>6, <1>7, <1>8, <1>9, <2>3, OperationKeeps
  <2>4. MustRelease(w) => w = World
    BY <1>1 DEF MustRelease, Adopted, w, World
  <2> QED BY <1>9, <2>2, <2>3, <2>4
<1>10. CASE Become(v) /\ callers' = [callers EXCEPT ![k] = "concluding"]
  <2>1. Ending'
    BY <1>5, <1>10 DEF Ending
  <2> QED BY <1>2, <1>4, <1>6, <1>7, <1>8, <1>10, <2>1, OperationKeeps
<1> QED BY <1>3, <1>9, <1>10

\* A session that ends is judged at once, and written by the loop's next step.
LEMMA StopReleasedKeepsInv ==
  ASSUME SessionInv, NEW k \in ApiCallers, StopReleased(k)
  PROVE  SessionInv' /\ DegradesDuly
<1>1. PICK w \in ReleasedWorlds : Become(Judge(w))
  BY DEF StopReleased
<1> DEFINE v == Judge(w)
<1>2. /\ Grown(World, v) /\ v.session.status = "COMPLETED"
      /\ v.runtime.hadOpen = runtime.hadOpen /\ (Own => Exact(v))
  BY ReleasedWorldsEnd
<1>3. Become(v)
  BY <1>1
<1> HIDE DEF v
<1>4. UNCHANGED <<historyVars, crashes, recorders, monitor, started, feedRefs, strays, feedState, exchange>>
  BY DEF StopReleased, referenceVars, outsideVars
<1>5. OutsideOK'
  BY <1>4 DEF SessionInv, OutsideOK
<1>6. callers' = [callers EXCEPT ![k] = "concluding"]
  BY DEF StopReleased
<1>7. RequestsOK' /\ Ending'
  BY <1>4, <1>6 DEF SessionInv, RequestsOK, historyVars, Ending
<1>8. Own' => Own
  BY <1>2, <1>3, <1>4, <1>6 DEF SessionInv, RequestsOK, Own, Become
<1> QED BY <1>2, <1>3, <1>4, <1>5, <1>7, <1>8, OperationKeeps

LEMMA StopConcludesKeepsInv ==
  ASSUME SessionInv, NEW k \in ApiCallers, StopConcludes(k)
  PROVE  SessionInv' /\ DegradesDuly
<1> DEFINE v == Concluded(World)
<1>1. Kept(World, v) /\ Settled(v) /\ v.session = session /\ v.runtime = runtime
  BY InvAtWorld, ConcludedKeeps
<1>2. Become(v)
  BY DEF StopConcludes
<1> HIDE DEF v
<1>3. UNCHANGED <<historyVars, crashes, recorders, started, feedRefs, strays, feedState, exchange>>
  BY DEF StopConcludes, referenceVars, outsideVars
<1>4. OutsideOK'
  BY <1>3 DEF SessionInv, OutsideOK, StopConcludes, CancelMonitor, Monitors
<1>5. callers' = [callers EXCEPT ![k] = "answering"]
  BY DEF StopConcludes
<1>6. RequestsOK'
  BY <1>3, <1>5 DEF SessionInv, RequestsOK, historyVars
<1>7. Own' => Own
  BY <1>1, <1>2, <1>3, <1>5 DEF SessionInv, RequestsOK, Own, Become, StopConcludes, CancelMonitor
<1> QED BY <1>1, <1>2, <1>3, <1>4, <1>6, <1>7, OwnStepKeeps

LEMMA MonitorWakesKeepsInv ==
  ASSUME SessionInv, MonitorWakes
  PROVE  SessionInv' /\ DegradesDuly
<1>1. PICK aged \in BOOLEAN, due \in BOOLEAN :
         LET w == MonitorRound(World, aged, due) IN
            IF ~Closes(w)
            THEN /\ Become(w)
                 /\ monitor' = IF ActiveIn(w) THEN "asleep" ELSE "done"
                 /\ UNCHANGED feedRefs
            ELSE IF MustRelease(w)
            THEN /\ Become(ExchangeClosed(w))
                 /\ GiveBack
                 /\ monitor' = "releasing"
            ELSE /\ Become(Judge(Released(ExchangeClosed(w))))
                 /\ monitor' = "concluding"
                 /\ UNCHANGED feedRefs
  BY DEF MonitorWakes
<1> DEFINE w == MonitorRound(World, aged, due)
           x == ExchangeClosed(w)
           v == Judge(Released(x))
<1>2. \/ /\ Become(w)
         /\ monitor' \in {"asleep", "done"}
         /\ UNCHANGED feedRefs
      \/ /\ Become(x)
         /\ GiveBack
         /\ monitor' = "releasing"
      \/ /\ Become(v)
         /\ monitor' = "concluding"
         /\ UNCHANGED feedRefs
  BY <1>1
<1>3. /\ Kept(World, w)
      /\ w.session.status \in {session.status, "RUNNING", "DEGRADED"}
      /\ w.session.status = "DEGRADED"
            => session.status = "DEGRADED" \/ TicksAreDue(exchange, feedState = "CONNECTED")
  BY InvAtWorld, MonitorRoundKeeps DEF RoundOf
<1> HIDE DEF w
<1>4. Own /\ Exact(World) /\ session.status # "NONE"
  BY InvAtWorld DEF MonitorWakes, SessionInv, Own, Dormant
<1>5. Kept(World, x) /\ x.session.status = "CLOSED"
  BY <1>3, ExchangeClosedKeeps, InvAtWorld, KeptTwice DEF Kept
<1> HIDE DEF x
<1>6. Grown(World, v) /\ Exact(v) /\ v.session.status = "COMPLETED"
  <2>1. WorldInv(x) /\ Exact(x) /\ Grown(World, x)
    BY <1>4, <1>5, KeptIsGrown DEF Kept
  <2> QED BY <2>1, JudgedKeeps, InvAtWorld, GrownTwice
<1> HIDE DEF v
<1>7. /\ UNCHANGED <<historyVars, requestVars, recorders, strays, hasFeed, feedState, exchange, crashes>>
      /\ ~Ending
  BY DEF MonitorWakes, outsideVars, LoopFree
<1>8. RequestsOK'
  BY <1>7 DEF SessionInv, RequestsOK, historyVars, requestVars
<1>9. OutsideOK'
  BY <1>2, <1>7 DEF SessionInv, OutsideOK, GiveBack, OneLess, Monitors
<1>10. CASE Become(w)
  BY <1>3, <1>4, <1>7, <1>8, <1>9, <1>10, OwnStepKeeps
<1>11. CASE Become(x)
  BY <1>4, <1>5, <1>7, <1>8, <1>9, <1>11, OwnStepKeeps
<1>12. CASE Become(v) /\ monitor' = "concluding"
  <2>1. Ending'
    BY <1>12 DEF Ending
  <2> QED BY <1>6, <1>7, <1>8, <1>9, <1>12, <2>1, OperationKeeps
<1> QED BY <1>2, <1>10, <1>11, <1>12

LEMMA MonitorReleasedKeepsInv ==
  ASSUME SessionInv, MonitorReleased
  PROVE  SessionInv' /\ DegradesDuly
<1>1. PICK w \in ReleasedWorlds : Become(Judge(w))
  BY DEF MonitorReleased
<1> DEFINE v == Judge(w)
<1>2. Grown(World, v) /\ v.session.status = "COMPLETED" /\ (Own => Exact(v))
  BY ReleasedWorldsEnd
<1>3. Become(v)
  BY <1>1
<1> HIDE DEF v
<1>4. /\ UNCHANGED <<historyVars, crashes, recorders, requestVars, feedRefs, strays, feedState, exchange>>
      /\ monitor' = "concluding" /\ Own
  BY DEF MonitorReleased, referenceVars, outsideVars, Own
<1>5. OutsideOK' /\ Ending'
  BY <1>4 DEF SessionInv, OutsideOK, Monitors, Ending
<1>6. RequestsOK'
  BY <1>4 DEF SessionInv, RequestsOK, historyVars, requestVars
<1> QED BY <1>2, <1>3, <1>4, <1>5, <1>6, OperationKeeps

LEMMA MonitorConcludesKeepsInv ==
  ASSUME SessionInv, MonitorConcludes
  PROVE  SessionInv' /\ DegradesDuly
<1> DEFINE v == Concluded(World)
<1>1. Kept(World, v) /\ Settled(v) /\ v.session = session
  BY InvAtWorld, ConcludedKeeps
<1>2. Become(v)
  BY DEF MonitorConcludes
<1> HIDE DEF v
<1>3. /\ UNCHANGED <<historyVars, crashes, recorders, requestVars, feedRefs, strays, feedState, exchange>>
      /\ monitor' = "done" /\ Own
  BY DEF MonitorConcludes, referenceVars, outsideVars, Own
<1>4. OutsideOK'
  BY <1>3 DEF SessionInv, OutsideOK, Monitors
<1>5. RequestsOK'
  BY <1>3 DEF SessionInv, RequestsOK, historyVars, requestVars
<1>6. session.status # "NONE"
  BY <1>3 DEF SessionInv, Dormant
<1> QED BY <1>1, <1>2, <1>3, <1>4, <1>5, <1>6, OwnStepKeeps

LEMMA TickKeepsInv ==
  ASSUME SessionInv, Tick
  PROVE  SessionInv' /\ DegradesDuly
<1>1. PICK recorded \in BOOLEAN : Become(ObserveTick(World, recorded))
  BY DEF Tick
<1> DEFINE v == ObserveTick(World, recorded)
<1>2. /\ Kept(World, v)
      /\ v.session.status \in {session.status, "RUNNING"}
      /\ v.runtime.hadOpen = runtime.hadOpen
  BY InvAtWorld, ObserveTickKeeps
<1>3. Become(v)
  BY <1>1
<1> HIDE DEF v
<1>4. session.status # "NONE"
  BY DEF Tick, Active, ActiveIn, World
<1>5. UNCHANGED <<historyVars, monitor, requestVars, recorders, referenceVars, outsideVars>>
  BY DEF Tick
<1>6. OutsideOK'
  BY <1>5 DEF SessionInv, OutsideOK, referenceVars, outsideVars
<1>7. RequestsOK'
  BY <1>5 DEF SessionInv, RequestsOK, historyVars, requestVars
<1>8. (Own' => Own) /\ (Ending => Ending')
  BY <1>2, <1>3, <1>5 DEF Own, Ending, Become, requestVars
<1> QED BY <1>2, <1>3, <1>4, <1>5, <1>6, <1>7, <1>8, OwnStepKeeps DEF outsideVars

LEMMA FeedMovesKeepsInv ==
  ASSUME SessionInv, FeedMoves
  PROVE  SessionInv' /\ DegradesDuly
<1> DEFINE Fine(v) == /\ Kept(World, v)
                      /\ v.session.status = session.status
                      /\ v.runtime.subscribed = runtime.subscribed
                      /\ v.runtime.hadOpen = runtime.hadOpen
<1>1. ASSUME NEW w, Fine(w), NEW st \in RunStates PROVE Fine(RecordState(w, st))
  <2> DEFINE v == RecordState(w, st)
  <2>1. /\ Kept(w, v)
        /\ v.session.status = w.session.status
        /\ v.runtime.subscribed = w.runtime.subscribed
        /\ v.runtime.hadOpen = w.runtime.hadOpen
    BY <1>1, RecordStateKeeps DEF Kept
  <2> HIDE DEF v
  <2>2. Kept(World, v)
    BY <1>1, <2>1, InvAtWorld, KeptTwice
  <2> QED BY <1>1, <2>1, <2>2 DEF v
<1>2. Fine(World)
  BY InvAtWorld, KeptItself
<1> DEFINE reset == RecordState(RecordState(World, "DISCONNECTED"), "RECONNECTING")
<1>3. Fine(reset)
  BY <1>1, <1>2 DEF RunStates, FeedStates
<1>4. PICK next \in FeedNext :
         /\ Become(RecordState(IF feedState = "CONNECTED" /\ next = "CONNECTING"
                               THEN reset ELSE World, next))
         /\ feedState' = next
  BY DEF FeedMoves
<1>5. next \in {"CONNECTING", "CONNECTED", "FAILED"}
  BY <1>4 DEF FeedNext
<1> HIDE DEF reset
<1> DEFINE w == IF feedState = "CONNECTED" /\ next = "CONNECTING" THEN reset ELSE World
           v == RecordState(w, next)
<1>6. Fine(w)
  BY <1>2, <1>3
<1>7. Become(v)
  BY <1>4
<1> HIDE DEF w
<1>8. Fine(v)
  BY <1>1, <1>5, <1>6 DEF RunStates, FeedStates
<1> HIDE DEF v
<1>9. UNCHANGED <<historyVars, monitor, requestVars, recorders, referenceVars, hasFeed, exchange, crashes>>
  BY DEF FeedMoves
<1>10. OutsideOK'
  BY <1>4, <1>5, <1>9 DEF SessionInv, OutsideOK, FeedStates, referenceVars
<1>11. RequestsOK'
  BY <1>9 DEF SessionInv, RequestsOK, historyVars, requestVars
<1>12. (Own' => Own) /\ (Ending => Ending')
  BY <1>7, <1>8, <1>9 DEF Own, Ending, Become, requestVars
<1> QED BY <1>7, <1>8, <1>9, <1>10, <1>11, <1>12, OwnStepKeeps

LEMMA QuietStepsKeepInv ==
  ASSUME SessionInv,
         \/ \E k \in ApiCallers : Answer(k)
         \/ MonitorStarts
         \/ MonitorCancelled
         \/ ExchangeMoves
         \/ UNCHANGED sessionVars
  PROVE  SessionInv' /\ DegradesDuly
<1>1. ASSUME NEW k \in ApiCallers, Answer(k) PROVE SessionInv' /\ DegradesDuly
  <2>1. /\ UNCHANGED <<worldVars, historyVars, monitor, started, recorders, referenceVars, outsideVars>>
        /\ callers' = [callers EXCEPT ![k] = "idle"] /\ callers[k] = "answering"
        /\ callers \in [ApiCallers -> {"idle", "subscribing", "releasing", "concluding", "answering"}]
    BY <1>1 DEF Answer, SessionInv, RequestsOK
  <2>2. OutsideOK' /\ RequestsOK'
    BY <2>1 DEF SessionInv, OutsideOK, RequestsOK, historyVars, referenceVars, outsideVars
  <2>3. (Own' => Own) /\ (Ending => Ending')
    BY <2>1 DEF Own, Ending, worldVars
  <2> QED BY <2>1, <2>2, <2>3, SameWorldKeepsInv DEF outsideVars
<1>2. CASE MonitorStarts \/ MonitorCancelled
  <2>1. /\ UNCHANGED <<worldVars, historyVars, requestVars, recorders, referenceVars, outsideVars>>
        /\ monitor' \in {"asleep", "done"} /\ monitor # "none" /\ ~Ending
    BY <1>2 DEF MonitorStarts, MonitorCancelled, LoopFree
  <2>2. OutsideOK' /\ RequestsOK'
    BY <2>1 DEF SessionInv, OutsideOK, RequestsOK, Monitors, historyVars, requestVars,
                referenceVars, outsideVars
  <2> QED BY <2>1, <2>2, SameWorldKeepsInv DEF outsideVars, Own
<1>3. CASE ExchangeMoves \/ UNCHANGED sessionVars
  <2>1. /\ UNCHANGED <<worldVars, historyVars, monitor, requestVars, recorders, referenceVars, feedState, crashes>>
        /\ exchange' \in Exchanges \union {exchange}
    BY <1>3 DEF ExchangeMoves, sessionVars, outsideVars
  <2>2. OutsideOK' /\ RequestsOK'
    BY <2>1 DEF SessionInv, OutsideOK, RequestsOK, historyVars, requestVars, referenceVars
  <2>3. (Own' => Own) /\ (Ending => Ending')
    BY <2>1 DEF Own, Ending, worldVars, requestVars
  <2> QED BY <2>1, <2>2, <2>3, SameWorldKeepsInv
<1> QED BY <1>1, <1>2, <1>3

-----------------------------------------------------------------------------
(* The workers. *)

\* What every worker's step leaves alone.
LEMMA WorkerAside ==
  ASSUME SessionInv, NEW r \in Recorders, RecorderMoves(r), NEW next \in RecorderRecord,
         recorders' = [recorders EXCEPT ![r] = next], next.of <= sessions
  PROVE  /\ UNCHANGED <<historyVars, sessions, cut, crashes, monitor, requestVars>>
         /\ RequestsOK' /\ OutsideOK' /\ RecordersOK'
         /\ \A q \in Recorders : recorders'[q] = IF q = r THEN next ELSE recorders[q]
         /\ Ending => Ending'
         /\ runtime'.hadOpen = runtime.hadOpen => (Own' => Own)
<1>1. UNCHANGED <<historyVars, monitor, requestVars, referenceVars, outsideVars>>
  BY DEF RecorderMoves
<1>2. recorders \in [Recorders -> RecorderRecord] /\ \A q \in Recorders : recorders[q].of <= sessions
  BY DEF SessionInv, RecordersOK
<1>3. \A q \in Recorders : recorders'[q] = IF q = r THEN next ELSE recorders[q]
  BY <1>2
<1>4. recorders' \in [Recorders -> RecorderRecord]
  BY <1>2
<1>5. \A q \in Recorders : recorders'[q].of <= sessions
  BY <1>2, <1>3
<1>6. RecordersOK'
  BY <1>1, <1>4, <1>5 DEF RecordersOK, historyVars
<1>7. RequestsOK' /\ OutsideOK'
  BY <1>1 DEF SessionInv, RequestsOK, OutsideOK, historyVars, requestVars, referenceVars, outsideVars
<1>8. (Ending => Ending') /\ (runtime'.hadOpen = runtime.hadOpen => (Own' => Own))
  BY <1>1 DEF Ending, Own, requestVars
<1> QED BY <1>1, <1>3, <1>6, <1>7, <1>8 DEF historyVars, outsideVars

\* How the late workers change: one more has counted, one has logged, or neither.
LEMMA LateMoves ==
  ASSUME SessionInv, NEW r \in Recorders, NEW next,
         \A q \in Recorders : recorders'[q] = IF q = r THEN next ELSE recorders[q]
  PROVE  /\ Late \in Nat /\ Late' \in Nat
         /\ next.at # "counted" /\ recorders[r].at # "counted" => Late' = Late
         /\ next.at = "counted" /\ recorders[r].at # "counted" => Late' = Late + 1
         /\ next.at # "counted" /\ recorders[r].at = "counted" => Late' = Late - 1
<1>1. Counted \in SUBSET Recorders
  BY DEF Counted
<1>2. /\ Cardinality(Counted) \in Nat
      /\ Cardinality(Counted \union {r}) = IF r \in Counted THEN Late ELSE Late + 1
      /\ Cardinality(Counted \ {r}) = IF r \in Counted THEN Late - 1 ELSE Late
  BY <1>1, WorkersCount DEF Late
<1>3. r \in Counted <=> recorders[r].at = "counted"
  BY DEF Counted
<1>4. CASE next.at = "counted"
  <2>1. Counted' = Counted \union {r}
    BY <1>4 DEF Counted
  <2>2. Late' = Cardinality(Counted \union {r})
    BY <2>1, Zenon DEF Late
  <2> QED BY <1>2, <1>3, <1>4, <2>2, LateIsNat
<1>5. CASE next.at # "counted"
  <2>1. Counted' = Counted \ {r}
    BY <1>5 DEF Counted
  <2>2. Late' = Cardinality(Counted \ {r})
    BY <2>1, Zenon DEF Late
  <2> QED BY <1>2, <1>3, <1>5, <2>2, LateIsNat
<1> QED BY <1>4, <1>5

\* A worker's step from what was recorded to what is.
LEMMA WorkerRecords ==
  ASSUME SessionInv, NEW r \in Recorders, NEW next,
         \A q \in Recorders : recorders'[q] = IF q = r THEN next ELSE recorders[q],
         UNCHANGED <<sessions, cut>>,
         ~cut => Evidenced(World, Late)',
         ~cut => Read(r)',
         log.count["PROVIDER_ERROR"] + Late <= log'.count["PROVIDER_ERROR"] + Late',
         log'.count["PROVIDER_ERROR"] \in Nat
  PROVE  Recorded'
<1> SUFFICES ASSUME ~cut PROVE Evidenced(World, Late)' /\ \A q \in Recorders : Read(q)'
  BY DEF Recorded
<1>1. ASSUME NEW q \in Recorders PROVE Read(q)'
  <2>1. CASE q = r
    BY <2>1
  <2>2. CASE q # r
    <3>1. Read(q)
      BY DEF SessionInv, Recorded
    <3>2. recorders'[q] = recorders[q] /\ sessions' = sessions
      BY <2>2
    <3>3. /\ log.count["PROVIDER_ERROR"] \in Nat /\ recorders[q].errors \in Nat
          /\ Late \in Nat /\ Late' \in Nat
      BY InvAtWorld, LateIsNat DEF WorldInv, Worlds, LogRecord, Incidents, SessionInv,
                                   RecordersOK, RecorderRecord
    <3> QED BY <3>1, <3>2, <3>3 DEF Read
  <2> QED BY <2>1, <2>2
<1> QED BY <1>1

LEMMA RecorderTestsKeepsInv ==
  ASSUME SessionInv, NEW r \in Recorders, RecorderTests(r) \/ RecorderLoads(r)
  PROVE  SessionInv' /\ DegradesDuly
<1> DEFINE next == IF recorders[r].at = "idle" THEN [recorders[r] EXCEPT !.at = "tested"]
                   ELSE [at |-> "loaded", errors |-> session.errors, of |-> sessions]
<1>1. /\ recorders[r] \in RecorderRecord /\ recorders[r].of <= sessions /\ sessions \in Nat
      /\ session.errors \in Nat
  <2>1. recorders[r] \in RecorderRecord /\ recorders[r].of <= sessions /\ sessions \in Nat
    BY DEF SessionInv, RecordersOK, Tallies
  <2>2. session \in SessionRecord
    BY InvAtWorld DEF WorldInv, Worlds
  <2> QED BY <2>1, <2>2 DEF SessionRecord
<1>2. /\ recorders' = [recorders EXCEPT ![r] = next]
      /\ UNCHANGED worldVars /\ RecorderMoves(r)
  BY DEF RecorderTests, RecorderLoads
<1>3. /\ recorders[r].at \in {"idle", "tested"}
      /\ recorders[r].at = "tested" => next.errors = session.errors /\ next.of = sessions
      /\ recorders[r].at = "idle" => next.at = "tested"
  BY <1>1 DEF RecorderTests, RecorderLoads, RecorderRecord
<1>4. next \in RecorderRecord /\ next.of <= sessions /\ next.at \in {"tested", "loaded"}
  BY <1>1, <1>3 DEF RecorderRecord
<1> HIDE DEF next
<1>5. /\ UNCHANGED <<historyVars, sessions, cut, crashes>>
      /\ RequestsOK' /\ OutsideOK' /\ RecordersOK'
      /\ \A q \in Recorders : recorders'[q] = IF q = r THEN next ELSE recorders[q]
      /\ Ending => Ending'
      /\ Own' => Own
  BY <1>2, <1>4, WorkerAside DEF worldVars
<1>6. Late' = Late /\ Late \in Nat
  <2>1. next.at # "counted" /\ recorders[r].at # "counted"
    BY <1>3, <1>4
  <2> QED BY <1>5, <2>1, LateMoves
<1>7. World' = World /\ log' = log /\ log.count["PROVIDER_ERROR"] \in Nat
  BY <1>2, InvAtWorld DEF World, worldVars, WorldInv, Worlds, LogRecord, Incidents
<1>8. ~cut => Evidenced(World, Late)
  BY DEF SessionInv, Recorded
<1>9. ~cut => Evidenced(World, Late)'
  BY <1>6, <1>7, <1>8 DEF Evidenced
<1>10. ~cut => Read(r)'
  <2>1. ~cut => session.errors <= log.count["PROVIDER_ERROR"] + Late
    BY <1>8, InvAtWorld DEF Evidenced, EvidencedIn
  <2>2. recorders'[r] = next
    BY <1>5
  <2>3. next.at = "loaded" => next.errors = session.errors
    BY <1>3, <1>4
  <2> QED BY <1>6, <1>7, <2>1, <2>2, <2>3 DEF Read
<1>11. Recorded'
  BY <1>5, <1>6, <1>7, <1>9, <1>10, WorkerRecords
<1>12. Kept(World, World) /\ Become(World)
  BY <1>2, InvAtWorld, KeptItself DEF Become, World, worldVars
<1>13. (Own' => Exact(World)) /\ (session.status = "NONE" => ~Own')
  BY <1>5, InvAtWorld DEF SessionInv, Dormant
<1>14. WorldInv(World)
  BY InvAtWorld
<1> QED BY <1>5, <1>11, <1>12, <1>13, <1>14, InvAtWorld, StepKeeps

\* The count is up, the event is owed.
LEMMA RecorderStoresKeepsInv ==
  ASSUME SessionInv, NEW r \in Recorders, RecorderStores(r)
  PROVE  SessionInv' /\ DegradesDuly
<1> DEFINE next == [IdleRecorder EXCEPT !.at = "counted"]
           stored == [session EXCEPT !.errors = recorders[r].errors + 1]
           s == IF recorders[r].of = sessions THEN stored ELSE session
           v == [World EXCEPT !.session = s]
<1>1. /\ recorders[r] \in RecorderRecord /\ recorders[r].at = "loaded" /\ sessions \in Nat
      /\ session \in SessionRecord /\ World \in Worlds /\ log \in LogRecord
  <2>1. recorders[r] \in RecorderRecord /\ recorders[r].at = "loaded" /\ sessions \in Nat
    BY DEF SessionInv, RecordersOK, Tallies, RecorderStores
  <2>2. session \in SessionRecord /\ World \in Worlds /\ log \in LogRecord
    BY InvAtWorld DEF WorldInv, Worlds
  <2> QED BY <2>1, <2>2
<1>2. /\ recorders' = [recorders EXCEPT ![r] = next]
      /\ session' = s /\ UNCHANGED <<runtime, log, saved>> /\ RecorderMoves(r)
  BY DEF RecorderStores
<1>3. next \in RecorderRecord /\ next.of <= sessions /\ next.at = "counted"
  BY <1>1 DEF RecorderRecord, IdleRecorder
<1>4. /\ s \in SessionRecord
      /\ s.disconnects = session.disconnects /\ s.reconnects = session.reconnects
      /\ s.stales = session.stales /\ s.status = session.status
      /\ s.verdict = session.verdict /\ s.evidence = session.evidence
      /\ \/ s.errors = session.errors
         \/ recorders[r].of = sessions /\ s.errors = recorders[r].errors + 1
  <2>1. recorders[r].errors + 1 \in Nat
    BY <1>1 DEF RecorderRecord
  <2> DEFINE n == recorders[r].errors + 1
  <2> HIDE DEF n
  <2>2. n \in Nat /\ stored = [session EXCEPT !.errors = n]
    BY <2>1 DEF n
  <2> HIDE DEF stored
  <2>3. /\ stored \in SessionRecord /\ stored.errors = n
        /\ stored.disconnects = session.disconnects /\ stored.reconnects = session.reconnects
        /\ stored.stales = session.stales /\ stored.status = session.status
        /\ stored.verdict = session.verdict /\ stored.evidence = session.evidence
    BY <1>1, <2>2 DEF SessionRecord
  <2> QED BY <1>1, <2>3 DEF n
<1>5. /\ v \in Worlds
      /\ v.session = s /\ v.runtime = runtime /\ v.log = log /\ v.saved = saved
  BY <1>1, <1>4 DEF World, Worlds
<1>6. Become(v)
  BY <1>2, <1>5 DEF Become
<1> HIDE DEF next, stored, s, v
<1>7. /\ UNCHANGED <<historyVars, sessions, cut, crashes>>
      /\ RequestsOK' /\ OutsideOK' /\ RecordersOK'
      /\ \A q \in Recorders : recorders'[q] = IF q = r THEN next ELSE recorders[q]
      /\ Ending => Ending'
      /\ Own' => Own
  BY <1>2, <1>3, WorkerAside
<1>8. Late' = Late + 1 /\ Late \in Nat
  BY <1>1, <1>3, <1>7, LateMoves
<1>9. World' = v
  BY <1>5, <1>6, BecomeIs
<1>10. WorldInv(v)
  <2>1. Owed(s, runtime.down) /\ Clean(s)
    BY <1>4, InvAtWorld DEF WorldInv, Owed, Clean
  <2> QED BY <1>5, <2>1, InvAtWorld DEF WorldInv
<1>11. /\ log.count["PROVIDER_ERROR"] \in Nat /\ recorders[r].errors \in Nat
       /\ session.errors \in Nat /\ saved \in SessionRecord
  BY <1>1, InvAtWorld DEF LogRecord, Incidents, RecorderRecord, SessionRecord, WorldInv, Worlds
<1>12. ~cut => Evidenced(World, Late)'
  <2> SUFFICES ASSUME ~cut PROVE Evidenced(World, Late)'
    OBVIOUS
  <2>1. EvidencedIn(session, log, Late) /\ EvidencedIn(saved, log, Late) /\ Read(r)
    BY InvAtWorld DEF SessionInv, Recorded, Evidenced
  <2>2. recorders[r].of = sessions
           => recorders[r].errors <= log.count["PROVIDER_ERROR"] + Late
    BY <1>1, <2>1 DEF Read
  <2>3. EvidencedIn(s, log, Late + 1)
    BY <1>4, <1>8, <1>11, <2>1, <2>2 DEF EvidencedIn
  <2>4. EvidencedIn(saved, log, Late + 1)
    <3>1. saved.errors \in Nat
      BY <1>11 DEF SessionRecord
    <3> QED BY <1>8, <1>11, <2>1, <3>1 DEF EvidencedIn
  <2>5. Evidenced(v, Late + 1)
    BY <1>5, <2>3, <2>4 DEF Evidenced
  <2> QED BY <1>8, <1>9, <2>5 DEF Evidenced
<1>13. Recorded'
  <2>1. Read(r)'
    BY <1>3, <1>7 DEF Read
  <2>2. log' = log
    BY <1>2
  <2> QED BY <1>7, <1>8, <1>11, <1>12, <2>1, <2>2, WorkerRecords
<1>14. (Own' => Exact(v)) /\ (Settled(World) => Settled(v))
  BY <1>4, <1>5, <1>7, InvAtWorld DEF Exact, Settled, ActiveIn
<1>15. session.status = "NONE" => ~Own'
  BY <1>7 DEF SessionInv, Dormant
<1> QED BY <1>4, <1>5, <1>6, <1>7, <1>10, <1>13, <1>14, <1>15, InvAtWorld, StepKeeps

\* The event is there.
LEMMA RecorderAppendsKeepsInv ==
  ASSUME SessionInv, NEW r \in Recorders, RecorderAppends(r)
  PROVE  SessionInv' /\ DegradesDuly
<1> DEFINE next == [recorders[r] EXCEPT !.at = "appended"]
           v == Log(World, "PROVIDER_ERROR")
           evs == Appended(log, "PROVIDER_ERROR")
<1>1. /\ recorders[r] \in RecorderRecord /\ recorders[r].at = "counted"
      /\ recorders[r].of <= sessions
      /\ session \in SessionRecord /\ saved \in SessionRecord /\ log \in LogRecord
  BY InvAtWorld DEF SessionInv, RecordersOK, WorldInv, Worlds, RecorderAppends
<1>2. /\ recorders' = [recorders EXCEPT ![r] = next]
      /\ Become(v) /\ RecorderMoves(r)
  BY DEF RecorderAppends
<1>3. next \in RecorderRecord /\ next.of <= sessions /\ next.at = "appended"
  BY <1>1 DEF RecorderRecord
<1>4. /\ Kept(World, v)
      /\ v.session = session /\ v.runtime = runtime /\ v.saved = saved /\ v.log = evs
  BY InvAtWorld, LogKeeps
<1>5. \A k \in Incidents : /\ log.count[k] \in Nat
                           /\ evs.count[k] = log.count[k] + (IF k = "PROVIDER_ERROR" THEN 1 ELSE 0)
  <2>1. \A k \in Incidents : log.count[k] \in Nat
    BY <1>1 DEF LogRecord
  <2> QED BY <1>1, <2>1, AppendedLog
<1> HIDE DEF next, v, evs
<1>6. World' = v /\ log' = evs
  BY <1>2, <1>4, BecomeIs DEF Kept, WorldInv, Become
<1>7. /\ UNCHANGED <<historyVars, sessions, cut, crashes>>
      /\ RequestsOK' /\ OutsideOK' /\ RecordersOK'
      /\ \A q \in Recorders : recorders'[q] = IF q = r THEN next ELSE recorders[q]
      /\ Ending => Ending'
      /\ Own' => Own
  BY <1>2, <1>3, <1>4, WorkerAside DEF Become
<1>8. Late' = Late - 1 /\ Late \in Nat /\ Late' \in Nat
  BY <1>1, <1>3, <1>7, LateMoves
<1>9. ASSUME NEW t \in SessionRecord, EvidencedIn(t, log, Late)
      PROVE  EvidencedIn(t, evs, Late')
  <2>1. /\ t.disconnects \in Nat /\ t.reconnects \in Nat /\ t.stales \in Nat /\ t.errors \in Nat
    BY DEF SessionRecord
  <2>2. evs.count["PROVIDER_ERROR"] + Late' = log.count["PROVIDER_ERROR"] + Late
    BY <1>5, <1>8 DEF Incidents
  <2> QED BY <1>5, <1>9, <2>1, <2>2 DEF EvidencedIn, Incidents
<1>10. ~cut => Evidenced(World, Late)'
  <2> SUFFICES ASSUME ~cut PROVE Evidenced(World, Late)'
    OBVIOUS
  <2>1. EvidencedIn(session, log, Late) /\ EvidencedIn(saved, log, Late)
    BY InvAtWorld DEF SessionInv, Recorded, Evidenced
  <2>2. EvidencedIn(session, evs, Late') /\ EvidencedIn(saved, evs, Late')
    BY <1>1, <1>9, <2>1
  <2> QED BY <1>4, <1>6, <2>2 DEF Evidenced
<1>11. Recorded'
  <2>1. Read(r)'
    BY <1>3, <1>7 DEF Read
  <2>2. /\ log.count["PROVIDER_ERROR"] + Late <= log'.count["PROVIDER_ERROR"] + Late'
        /\ log'.count["PROVIDER_ERROR"] \in Nat
    BY <1>5, <1>6, <1>8 DEF Incidents
  <2> QED BY <1>7, <1>10, <2>1, <2>2, WorkerRecords
<1>12. WorldInv(v) /\ (Own' => Exact(v)) /\ (Settled(World) => Settled(v))
  BY <1>4, <1>7, InvAtWorld DEF Kept
<1>13. session.status = "NONE" => ~Own'
  BY <1>7 DEF SessionInv, Dormant
<1> QED BY <1>2, <1>4, <1>7, <1>11, <1>12, <1>13, StepKeeps

LEMMA RecorderSavesKeepsInv ==
  ASSUME SessionInv, NEW r \in Recorders, RecorderSaves(r)
  PROVE  SessionInv' /\ DegradesDuly
<1> DEFINE next == [recorders[r] EXCEPT !.at = "idle"]
           v == Save(World)
<1>1. /\ recorders[r] \in RecorderRecord /\ recorders[r].at = "appended"
      /\ recorders[r].of <= sessions
      /\ log.count["PROVIDER_ERROR"] \in Nat
  BY InvAtWorld DEF SessionInv, RecordersOK, RecorderSaves, WorldInv, Worlds, LogRecord, Incidents
<1>2. /\ recorders' = [recorders EXCEPT ![r] = next]
      /\ Become(v) /\ RecorderMoves(r)
  BY DEF RecorderSaves
<1>3. next \in RecorderRecord /\ next.of <= sessions /\ next.at = "idle"
  BY <1>1 DEF RecorderRecord
<1>4. /\ Kept(World, v) /\ Settled(v)
      /\ v.session = session /\ v.runtime = runtime /\ v.log = log
  BY InvAtWorld, SaveKeeps
<1> HIDE DEF next, v
<1>5. World' = v /\ log' = log
  BY <1>2, <1>4, BecomeIs DEF Kept, WorldInv, Become
<1>6. /\ UNCHANGED <<historyVars, sessions, cut, crashes>>
      /\ RequestsOK' /\ OutsideOK' /\ RecordersOK'
      /\ \A q \in Recorders : recorders'[q] = IF q = r THEN next ELSE recorders[q]
      /\ Ending => Ending'
      /\ Own' => Own
  BY <1>2, <1>3, <1>4, WorkerAside DEF Become
<1>7. Late' = Late /\ Late \in Nat
  <2>1. next.at # "counted" /\ recorders[r].at # "counted"
    BY <1>1, <1>3
  <2> QED BY <1>6, <2>1, LateMoves
<1>8. ~cut => Evidenced(World, Late)'
  <2>1. ~cut => Evidenced(World, Late)
    BY DEF SessionInv, Recorded
  <2>2. ~cut => Evidenced(v, Late)
    BY <1>4, <1>7, <2>1 DEF Kept, EvidenceKept
  <2> QED BY <1>5, <1>7, <2>2 DEF Evidenced
<1>9. Recorded'
  <2>1. Read(r)'
    BY <1>3, <1>6 DEF Read
  <2> QED BY <1>1, <1>5, <1>6, <1>7, <1>8, <2>1, WorkerRecords
<1>10. WorldInv(v) /\ (Own' => Exact(v))
  BY <1>4, <1>6, InvAtWorld DEF Kept
<1>11. session.status = "NONE" => ~Own'
  BY <1>6 DEF SessionInv, Dormant
<1> QED BY <1>2, <1>4, <1>6, <1>9, <1>10, <1>11, StepKeeps

-----------------------------------------------------------------------------
(* Crashes. *)

\* Wherever the loop is cut short, it has forgotten nothing of what it counted.
LEMMA InterruptedGrows ==
  ASSUME SessionInv, NEW v \in {World} \union Interrupted
  PROVE  Grown(World, v)
<1>1. \A w \in {World, RecordError(World), Concluded(World)} : Grown(World, w)
  BY InvAtWorld, KeptItself, RecordErrorKeeps, ConcludedKeeps, KeptIsGrown
<1>2. \A recorded \in BOOLEAN : Grown(World, ObserveTick(World, recorded))
  BY InvAtWorld, ObserveTickKeeps, KeptIsGrown
<1>3. \A st \in FeedNext \union {"DISCONNECTED"} : Grown(World, RecordState(World, st))
  <2>1. FeedNext \union {"DISCONNECTED"} \subseteq RunStates
    BY DEF FeedNext, RunStates, FeedStates
  <2> QED BY <2>1, InvAtWorld, RecordStateKeeps, KeptIsGrown
<1>4. /\ Grown(World, Heard(World)) /\ Grown(World, Opened(World))
      /\ \A aged, due \in BOOLEAN : Grown(World, MonitorRound(World, aged, due))
  BY InvAtWorld, MonitorRoundKeeps, KeptIsGrown DEF RoundOf
<1>5. \A outcome \in {"resolved", "unresolved"} : Grown(World, Subscribed(World, outcome))
  BY InvAtWorld, SubscribedKeeps, KeptIsGrown
<1>6. Grown(World, Ended(World))
  BY InvAtWorld, EndedGrows
<1>7. \/ v \in {World, RecordError(World), Concluded(World), Ended(World)}
      \/ \E recorded \in BOOLEAN : v = ObserveTick(World, recorded)
      \/ \E st \in FeedNext \union {"DISCONNECTED"} : v = RecordState(World, st)
      \/ v \in {Heard(World), Opened(World)}
      \/ \E aged, due \in BOOLEAN : v = MonitorRound(World, aged, due)
      \/ \E outcome \in {"resolved", "unresolved"} : v = Subscribed(World, outcome)
  BY DEF Interrupted
<1> QED BY <1>1, <1>2, <1>3, <1>4, <1>5, <1>6, <1>7

\* What is left of the process: nothing it owned, and a log that shows what is saved.
LEMMA RestartGivesInv ==
  ASSUME SessionInv, MemoryIsLost, Tallies', UnfinishedOnlyByCrash',
         NEW v, WorldInv(v), log' = v.log, saved' \in SessionRecord,
         Owed(saved', FALSE), Clean(saved'), ~cut' => EvidencedIn(saved', v.log, 0)
  PROVE  SessionInv' /\ DegradesDuly
<1>1. /\ session' = NoSession /\ runtime' = NoRuntime
      /\ monitor' = "none"
      /\ callers' = [k \in ApiCallers |-> "idle"] /\ started' = [k \in ApiCallers |-> 0]
      /\ recorders' = [r \in Recorders |-> IdleRecorder]
  BY DEF MemoryIsLost
<1>2. /\ World' = [session |-> NoSession, runtime |-> NoRuntime, log |-> v.log, saved |-> saved']
      /\ World'.session = NoSession /\ World'.runtime = NoRuntime
      /\ World'.log = v.log /\ World'.saved = saved'
  BY <1>1 DEF World
<1>3. v.log \in LogRecord /\ WindowSeen(v.log)
  BY DEF WorldInv, Worlds
<1>4. NoSession \in SessionRecord /\ NoRuntime \in RuntimeRecord
  BY DEF NoSession, SessionRecord, Exchanges, NoRuntime, RuntimeRecord
<1>5. GoodWorld'
  <2>1. World' \in Worlds
    BY <1>2, <1>3, <1>4 DEF Worlds
  <2>2. Owed(NoSession, NoRuntime.down) /\ Clean(NoSession)
    BY DEF Owed, Clean, NoSession, NoRuntime
  <2> QED BY <1>2, <1>3, <2>1, <2>2 DEF GoodWorld, WorldInv
<1>6. sessions' \in Nat
  BY DEF Tallies
<1>7. RequestsOK'
  BY <1>1, <1>6 DEF RequestsOK
<1>8. \A r \in Recorders : recorders'[r] = IdleRecorder
  BY <1>1
<1>9. RecordersOK'
  <2>1. IdleRecorder \in RecorderRecord /\ IdleRecorder.of = 0
    BY DEF IdleRecorder, RecorderRecord
  <2> QED BY <1>1, <1>6, <1>8, <2>1 DEF RecordersOK
<1>10. OutsideOK'
  BY DEF SessionInv, OutsideOK, MemoryIsLost, FeedStates, Monitors
<1>11. Recorded'
  <2>1. Late' = 0
    <3>1. Counted' = {}
      BY <1>8 DEF Counted, IdleRecorder
    <3>2. Late' = Cardinality({})
      BY <3>1, Zenon DEF Late
    <3> QED BY <3>2, FS_EmptySet
  <2>2. EvidencedIn(NoSession, v.log, 0)
    BY <1>3 DEF EvidencedIn, NoSession, LogRecord, Incidents
  <2>3. \A r \in Recorders : Read(r)'
    BY <1>8 DEF Read, IdleRecorder
  <2> QED BY <1>2, <2>1, <2>2, <2>3 DEF Recorded, Evidenced
<1>12. ~Own' /\ Dormant' /\ DegradesDuly
  BY <1>1 DEF Own, Dormant, NoRuntime, DegradesDuly, NoSession
<1> QED BY <1>5, <1>7, <1>9, <1>10, <1>11, <1>12 DEF SessionInv, ExactWhenOwn

LEMMA CrashKeepsInv ==
  ASSUME SessionInv, Crash
  PROVE  SessionInv' /\ DegradesDuly
<1>1. PICK v \in {World} \union Interrupted : DiesOnTheWayTo(v)
  BY DEF Crash
<1>2. Grown(World, v)
  BY <1>1, InterruptedGrows
<1>3. /\ MemoryIsLost /\ crashes' = crashes + 1
      /\ cut' = (cut \/ Recording({"counted", "appended"}))
      /\ UNCHANGED <<sessions, abandoned>>
  BY DEF Crash, MemoryIsLost
<1>4. WorldInv(World) /\ WorldInv(v) /\ LogGrows(World, v) /\ EvidenceKept(World, v)
  BY <1>2, InvAtWorld DEF Grown
<1> DEFINE Fit(s) == s \in SessionRecord /\ Owed(s, FALSE) /\ Clean(s)
<1>5. Fit(saved) /\ Fit(v.saved) /\ Fit(v.session)
  <2>1. ASSUME NEW w, WorldInv(w) PROVE Fit(w.saved) /\ Fit(w.session)
    <3>1. w.session \in SessionRecord /\ w.saved \in SessionRecord
      BY <2>1 DEF WorldInv, Worlds
    <3>2. w.session.reconnects \in Nat /\ w.session.disconnects \in Nat
      BY <3>1 DEF SessionRecord
    <3> QED BY <2>1, <3>1, <3>2 DEF WorldInv, Owed
  <2>2. World.saved = saved
    BY InvAtWorld
  <2> QED BY <1>4, <2>1, <2>2
<1>6. saved' \in {saved, v.saved, v.session} /\ (log' = v.log \/ log' = World.log)
  BY <1>1 DEF DiesOnTheWayTo, World
<1>7. ASSUME ~cut' PROVE log' = v.log /\ saved' \in {saved, v.saved} /\ ~cut /\ Late = 0
  <2>1. ~cut /\ ~Recording({"counted", "appended"})
    BY <1>3, <1>7
  <2>2. Counted = {} /\ ~Recording({"appended"})
    BY <2>1 DEF Recording, Counted
  <2>3. Late = Cardinality({})
    BY <2>2, Zenon DEF Late
  <2> QED BY <1>1, <2>1, <2>2, <2>3, FS_EmptySet DEF DiesOnTheWayTo
<1>8. ASSUME ~cut' PROVE EvidencedIn(saved', v.log, 0)
  <2>1. Evidenced(World, 0)
    BY <1>7, <1>8 DEF SessionInv, Recorded
  <2>2. Evidenced(v, 0)
    BY <1>4, <2>1 DEF EvidenceKept
  <2>3. EvidencedIn(saved, v.log, 0)
    <3>1. saved \in SessionRecord /\ World.log \in LogRecord /\ v.log \in LogRecord
      BY <1>4, <1>5 DEF WorldInv, Worlds
    <3>2. AsEvidenced(saved, World.log, saved, v.log)
      BY <1>4, <3>1, EvidenceGrows DEF LogGrows
    <3> QED BY <2>1, <3>2, InvAtWorld DEF Evidenced, AsEvidenced
  <2> QED BY <1>7, <1>8, <2>2, <2>3 DEF Evidenced
<1>9. Tallies'
  <2>1. cut' \in BOOLEAN
    <3>1. (cut \/ Recording({"counted", "appended"})) \in BOOLEAN
      OBVIOUS
    <3> QED BY <1>3, <3>1
  <2> QED BY <1>3, <2>1 DEF SessionInv, Tallies
<1>10. UnfinishedOnlyByCrash'
  <2>1. abandoned \in Int /\ crashes \in Int /\ abandoned <= crashes
    BY DEF SessionInv, Tallies, UnfinishedOnlyByCrash
  <2> QED BY <1>3, <2>1 DEF UnfinishedOnlyByCrash
<1> HIDE DEF Fit
<1>11. Fit(saved')
  BY <1>5, <1>6
<1>12. CASE log' = v.log
  BY <1>3, <1>4, <1>8, <1>9, <1>10, <1>11, <1>12, RestartGivesInv DEF Fit
<1>13. CASE log' = World.log
  <2>1. ~cut' => EvidencedIn(saved', World.log, 0)
    <3>1. ASSUME ~cut' PROVE EvidencedIn(saved', World.log, 0)
      BY <1>7, <1>8, <1>13, <3>1, Zenon
    <3> QED BY <3>1
  <2> QED BY <1>3, <1>4, <1>9, <1>10, <1>11, <1>13, <2>1, RestartGivesInv DEF Fit
<1> QED BY <1>6, <1>12, <1>13

LEMMA CrashInStartKeepsInv ==
  ASSUME SessionInv, CrashInStart
  PROVE  SessionInv' /\ DegradesDuly
<1>1. PICK v \in {Fresh(World), Placed(World), Created(World)} : log' = v.log /\ saved' = v.saved
  BY DEF CrashInStart
<1>2. NewWorld(v)
  BY InvAtWorld, CreatedIsNew
<1>3. /\ WorldInv(v) /\ v.saved \in SessionRecord
      /\ Owed(v.saved, FALSE) /\ Clean(v.saved) /\ EvidencedIn(v.saved, v.log, 0)
  BY <1>2 DEF NewWorld, WorldInv, Worlds, Evidenced
<1>4. /\ MemoryIsLost /\ crashes' = crashes + 1 /\ cut' = FALSE
      /\ ~Active /\ ~Ending /\ sessions < MaxSessions /\ sessions' = sessions + 1
      /\ abandoned' = IF Unfinished THEN abandoned + 1 ELSE abandoned
  BY DEF CrashInStart, MemoryIsLost, MayStart, LoopFree, NewSession
<1>5. sessions \in 0..MaxSessions /\ abandoned \in 0..sessions /\ crashes \in Nat
  BY DEF SessionInv, Tallies
<1>6. Tallies'
  <2>1. cut' \in BOOLEAN
    BY <1>4
  <2> QED BY <1>4, <1>5, <2>1, SessionAssumption DEF Tallies
<1>7. UnfinishedOnlyByCrash'
  <2>1. abandoned' <= crashes /\ abandoned' \in Int
    BY <1>4, <1>5 DEF SessionInv, UnfinishedOnlyByCrash
  <2> QED BY <1>4, <1>5, <2>1 DEF UnfinishedOnlyByCrash
<1> QED BY <1>1, <1>3, <1>4, <1>6, <1>7, RestartGivesInv

LEMMA NextKeepsInv ==
  SessionInv /\ [SessionNext]_sessionVars => SessionInv' /\ DegradesDuly
<1> SUFFICES ASSUME SessionInv, [SessionNext]_sessionVars
             PROVE  SessionInv' /\ DegradesDuly
  OBVIOUS
<1>1. ASSUME NEW r \in Recorders, RecorderSteps(r) PROVE SessionInv' /\ DegradesDuly
  BY <1>1, RecorderTestsKeepsInv, RecorderStoresKeepsInv, RecorderAppendsKeepsInv,
     RecorderSavesKeepsInv DEF RecorderSteps
<1> QED BY <1>1, StartKeepsInv, StartSubscribedKeepsInv, StopKeepsInv, StopReleasedKeepsInv,
           StopConcludesKeepsInv, MonitorWakesKeepsInv, MonitorReleasedKeepsInv,
           MonitorConcludesKeepsInv, TickKeepsInv, FeedMovesKeepsInv, QuietStepsKeepInv,
           CrashKeepsInv, CrashInStartKeepsInv
        DEF SessionNext, Continue, MonitorSteps

-----------------------------------------------------------------------------
(* What follows for the specification. *)

\* In every behaviour the invariant holds.
THEOREM SessionInvHolds ==
  SessionSafetySpec => []SessionInv
<1>1. SessionInit => SessionInv
  BY InitGivesInv
<1>2. SessionInv /\ [SessionNext]_sessionVars => SessionInv'
  BY NextKeepsInv
<1> QED BY <1>1, <1>2, PTL DEF SessionSafetySpec

\* Every variable keeps its type: in particular the counters of _session and of its
\* saved row are natural numbers and the manager's status is one of the statuses it sets.
THEOREM SessionTypeCorrect ==
  SessionSafetySpec => []SessionTypeOK
BY SessionInvHolds, InvGivesTypeOK, PTL

\* No counter of the row _save() wrote exceeds the events _event() appended, but for the
\* errors of workers that have counted and not yet appended, even where the loop saves
\* in between or a crash falls between event and save.
THEOREM StoredCountsEvidenced ==
  SessionSafetySpec => []CountsAreEvidenced
<1>1. SessionInv => CountsAreEvidenced
  BY DEF SessionInv, Recorded, Evidenced, EvidencedIn, World, Late, Counted, CountsAreEvidenced
<1> QED BY <1>1, SessionInvHolds, PTL

\* record_provider_state counts at most one reconnect for each disconnect.
THEOREM ReconnectsOwed ==
  SessionSafetySpec => []ReconnectsAreOwed
<1>1. SessionInv => ReconnectsAreOwed
  BY DEF SessionInv, GoodWorld, WorldInv, World, Owed, ReconnectsAreOwed
<1> QED BY <1>1, SessionInvHolds, PTL

\* _finalize answers PASS only over a log with a connection and subscriptions and without
\* a disconnect or a stale interval, whatever raced it.
THEOREM PassesAreClean ==
  SessionSafetySpec => []PassIsClean
<1>1. SessionInv => PassIsClean
  BY DEF SessionInv, GoodWorld, WorldInv, World, Clean, PassIsClean
<1> QED BY <1>1, SessionInvHolds, PTL

\* start() never replaces a session that _finalize did not complete, unless a crash
\* interrupted it: there are never more such sessions than crashes.
THEOREM UnfinishedByCrashAlone ==
  SessionSafetySpec => []UnfinishedOnlyByCrash
<1>1. SessionInv => UnfinishedOnlyByCrash
  BY DEF SessionInv
<1> QED BY <1>1, SessionInvHolds, PTL

\* check_stale alone degrades a session, and only while the exchange is open and the
\* feed connected.
THEOREM DegradesDulyOnly ==
  SessionSafetySpec => DegradesOnlyWhenOpen
<1>1. SessionInv /\ [SessionNext]_sessionVars => [DegradesDuly]_sessionVars
  BY NextKeepsInv
<1>2. [DegradesDuly]_sessionVars
        <=> [session.status # "DEGRADED" /\ session'.status = "DEGRADED"
               => exchange = "OPEN" /\ feedState = "CONNECTED"]_sessionVars
  BY DEF DegradesDuly
<1> QED BY <1>1, <1>2, SessionInvHolds, PTL DEF SessionSafetySpec, DegradesOnlyWhenOpen

-----------------------------------------------------------------------------
(* The end of a session. *)

\* A subscription of the session that is observed now is under way.
Subscribing == \E k \in ApiCallers : callers[k] = "subscribing" /\ started[k] = sessions

\* The session holds the reference that the next release of it gives back.
Holding == Active /\ runtime.subscribed /\ ~Releasing /\ ~Subscribing

\* All references are strays but the one that is held.
RefsOwed ==
    /\ feedRefs <= strays + (IF Holding THEN 1 ELSE 0)
    /\ ~hasFeed => feedRefs = 0

\* Requests subscribe with a feed only, and no two of them for one session.
OneStart ==
    /\ \A k \in ApiCallers : callers[k] = "subscribing" => hasFeed
    /\ \A j, k \in ApiCallers :
          callers[j] = "subscribing" /\ callers[k] = "subscribing" /\ started[j] = started[k]
             => j = k

\* The monitor sleeps over an active session, or over one that a stop is about to write.
Watch == monitor = "asleep" => Active \/ \E k \in ApiCallers : callers[k] = "concluding"

\* What is about to be written is over.
Judged == Ending => session.status = "COMPLETED"

\* A row that is completed is that of the session this process observed, or its last.
Firm == saved.status = "COMPLETED" => session.status \in {"NONE", "COMPLETED"}

\* A worker that is recording has seen a session.
Working == (\E r \in Recorders : recorders[r].at # "idle") => session.status # "NONE"

Closing == RefsOwed /\ OneStart /\ Watch /\ Judged /\ Firm /\ Working
EndInv == SessionInv /\ Closing

\* What CompletionIsFinal says of a step.
StaysCompleted ==
    sessions' = sessions =>
        /\ saved.status = "COMPLETED" => saved'.status = "COMPLETED"
        /\ session.status = "COMPLETED" => session'.status \in {"COMPLETED", "NONE"}

LEMMA InitGivesEnd ==
  SessionInit => EndInv
<1> SUFFICES ASSUME SessionInit PROVE EndInv
  OBVIOUS
<1>1. \A r \in Recorders : recorders[r].at = "idle"
  BY DEF SessionInit, IdleRecorder
<1>2. RefsOwed
  BY DEF SessionInit, RefsOwed
<1>3. OneStart /\ Watch /\ Judged /\ Firm
  BY DEF SessionInit, OneStart, Watch, Judged, Ending, Firm, NoSession
<1>4. Working
  BY <1>1 DEF Working
<1> QED BY <1>2, <1>3, <1>4, InitGivesInv DEF EndInv, Closing

LEMMA TypesAtEnd ==
  ASSUME EndInv
  PROVE  /\ callers \in [ApiCallers -> {"idle", "subscribing", "releasing", "concluding", "answering"}]
         /\ started \in [ApiCallers -> 0..sessions] /\ sessions \in Nat
         /\ monitor \in Monitors
         /\ feedRefs \in Nat /\ strays \in Nat
BY DEF EndInv, SessionInv, RequestsOK, OutsideOK, Tallies

\* An active session is not completed, and nor is its row.
LEMMA ActiveIsOpen ==
  ASSUME Firm, Active
  PROVE  /\ session.status \notin {"NONE", "COMPLETED", "FAILED"}
         /\ saved.status # "COMPLETED"
BY DEF Firm, Active, ActiveIn, Finished, World

\* References that nobody takes or gives back are owed as they were.
LEMMA RefsStay ==
  ASSUME EndInv, UNCHANGED <<feedRefs, strays, hasFeed>>,
         Holding => Holding' \/ ~hasFeed
  PROVE  RefsOwed'
<1>1. feedRefs \in Nat /\ strays \in Nat
  BY TypesAtEnd
<1> QED BY <1>1 DEF EndInv, Closing, RefsOwed

\* A release gives back the one that is held, if any is.
LEMMA RefsGivenBack ==
  ASSUME EndInv, UNCHANGED <<strays, hasFeed>>, GiveBack
  PROVE  RefsOwed'
<1>1. feedRefs \in Nat /\ strays \in Nat
  BY TypesAtEnd
<1>2. feedRefs <= strays + 1 /\ (~hasFeed => feedRefs = 0)
  BY <1>1 DEF EndInv, Closing, RefsOwed
<1>3. feedRefs' = IF feedRefs = 0 THEN 0 ELSE feedRefs - 1
  BY DEF GiveBack, OneLess
<1>4. feedRefs' <= strays' /\ (~hasFeed' => feedRefs' = 0) /\ strays' \in Nat /\ feedRefs' \in Nat
  BY <1>1, <1>2, <1>3
<1> QED BY <1>4 DEF RefsOwed

\* Whoever subscribes goes on doing so for the session it started.
LEMMA SubscribersStay ==
  ASSUME EndInv, UNCHANGED <<sessions, hasFeed>>,
         \A k \in ApiCallers : callers'[k] = "subscribing"
            => callers[k] = "subscribing" /\ started'[k] = started[k]
  PROVE  OneStart' /\ (Subscribing' => Subscribing)
BY DEF EndInv, Closing, OneStart, Subscribing

LEMMA StartKeepsEnd ==
  ASSUME EndInv, NEW k \in ApiCallers, Start(k)
  PROVE  Closing' /\ StaysCompleted
<1> DEFINE c == Created(World)
           v == IF hasFeed THEN c ELSE AfterRecorded(c)
<1>1. NewWorld(c)
  BY InvAtWorld, CreatedIsNew DEF EndInv
<1> HIDE DEF c
<1>2. /\ AfterRecorded(c).session.status = c.session.status
      /\ AfterRecorded(c).saved.status = c.session.status
  BY <1>1, AfterRecordedKeeps DEF NewWorld
<1>3. /\ v.session.status \in {"RUNNING", "CLOSED", "CREATED"}
      /\ v.saved.status \in {"RUNNING", "CLOSED", "CREATED"}
  BY <1>1, <1>2 DEF NewWorld
<1>4. Become(v)
  BY DEF Start, c
<1> HIDE DEF v
<1>5. /\ session'.status \in {"RUNNING", "CLOSED", "CREATED"}
      /\ saved'.status \in {"RUNNING", "CLOSED", "CREATED"}
  BY <1>3, <1>4 DEF Become
<1>6. Active'
  BY <1>5 DEF Active, ActiveIn, Finished, World
<1>7. /\ ~Active /\ ~Ending /\ sessions' = sessions + 1 /\ sessions \in Nat
      /\ UNCHANGED <<feedRefs, strays, hasFeed>>
  BY TypesAtEnd DEF Start, MayStart, LoopFree, NewSession, referenceVars, outsideVars
<1>8. RefsOwed'
  BY <1>7, RefsStay DEF Holding
<1>9. OneStart'
  <2>1. /\ callers \in [ApiCallers -> {"idle", "subscribing", "releasing", "concluding", "answering"}]
        /\ started \in [ApiCallers -> 0..sessions] /\ OneStart /\ hasFeed' = hasFeed
    BY <1>7, TypesAtEnd DEF EndInv, Closing
  <2>2. CASE hasFeed
    <3>1. /\ callers' = [callers EXCEPT ![k] = "subscribing"]
          /\ started' = [started EXCEPT ![k] = sessions + 1]
      BY <2>2 DEF Start
    <3>2. \A j \in ApiCallers : j # k => /\ started'[j] = started[j]
                                         /\ started[j] # sessions + 1
                                         /\ callers'[j] = callers[j]
      BY <1>7, <2>1, <3>1
    <3>3. started'[k] = sessions + 1
      BY <2>1, <3>1
    <3> QED BY <2>1, <2>2, <3>2, <3>3 DEF OneStart
  <2>3. CASE ~hasFeed
    BY <2>1, <2>3 DEF Start, requestVars, OneStart
  <2> QED BY <2>2, <2>3
<1>10. Watch' /\ Firm' /\ Working'
  BY <1>5, <1>6 DEF Watch, Firm, Working
<1>11. Judged'
  <2>1. \A j \in ApiCallers : callers'[j] # "concluding"
    BY <1>7, TypesAtEnd DEF Start, requestVars, Ending
  <2>2. monitor' # "concluding"
    BY <1>7 DEF Start, StartMonitor, Ending
  <2> QED BY <2>1, <2>2 DEF Judged, Ending
<1>12. sessions' # sessions
  BY <1>7
<1> QED BY <1>8, <1>9, <1>10, <1>11, <1>12 DEF Closing, StaysCompleted

LEMMA StartSubscribedKeepsEnd ==
  ASSUME EndInv, NEW k \in ApiCallers, StartSubscribed(k)
  PROVE  Closing' /\ StaysCompleted
<1>1. PICK outcome \in Outcomes :
         /\ Become(AfterSubscribe(World, outcome))
         /\ feedRefs' = IF outcome \in {"resolved", "raised"} THEN feedRefs + 1 ELSE feedRefs
         /\ strays' = IF outcome = "raised" \/ (outcome = "resolved" /\ Overtaken(k))
                      THEN strays + 1 ELSE strays
  BY DEF StartSubscribed
<1> DEFINE v == AfterSubscribe(World, outcome)
<1>2. /\ v.session.status = session.status /\ v.saved.status = session.status
      /\ v.runtime.subscribed <=> runtime.subscribed \/ outcome = "resolved"
  BY InvAtWorld, AfterSubscribeKeeps DEF EndInv
<1>3. Become(v)
  BY <1>1
<1> HIDE DEF v
<1>4. /\ session'.status = session.status /\ saved'.status = session.status
      /\ runtime'.subscribed <=> runtime.subscribed \/ outcome = "resolved"
  BY <1>2, <1>3 DEF Become
<1>5. session.status # "NONE"
  BY DEF EndInv, SessionInv, Dormant, Own, StartSubscribed
<1>6. Active' <=> Active
  BY <1>4 DEF Active, ActiveIn, World
<1>7. /\ sessions' = sessions /\ recorders' = recorders /\ hasFeed' = hasFeed
      /\ callers[k] = "subscribing" /\ callers' = [callers EXCEPT ![k] = "answering"]
      /\ started' = [started EXCEPT ![k] = 0]
      /\ ~Ending
      /\ monitor' = IF monitor \in {"none", "done"} THEN "starting" ELSE monitor
  BY DEF StartSubscribed, historyVars, outsideVars, LoopFree, StartMonitor
<1>8. /\ callers'[k] = "answering"
      /\ \A j \in ApiCallers : j # k => callers'[j] = callers[j] /\ started'[j] = started[j]
  BY <1>7, TypesAtEnd
<1>9. (Releasing' <=> Releasing) /\ OneStart' /\ (Subscribing' => Subscribing)
  <2>1. Releasing' <=> Releasing
    BY <1>7, <1>8 DEF Releasing
  <2> QED BY <1>7, <1>8, <2>1, SubscribersStay
<1>10. RefsOwed'
  <2>1. feedRefs \in Nat /\ strays \in Nat
    BY TypesAtEnd
  <2>2. Holding => Holding'
    BY <1>4, <1>6, <1>9 DEF Holding
  <2>3. feedRefs <= strays + (IF Holding THEN 1 ELSE 0)
    BY DEF EndInv, Closing, RefsOwed
  <2>4. hasFeed
    BY <1>7 DEF EndInv, Closing, OneStart
  <2>5. CASE outcome = "resolved" /\ ~Overtaken(k)
    <3>1. started[k] = sessions /\ Active /\ ~Releasing
      BY <2>5 DEF Overtaken
    <3>2. ~Holding
      BY <1>7, <3>1 DEF Holding, Subscribing
    <3>3. ~Subscribing'
      <4>1. \A j \in ApiCallers : callers'[j] = "subscribing" => started'[j] # sessions
        BY <1>7, <1>8, <3>1 DEF EndInv, Closing, OneStart
      <4> QED BY <1>7, <4>1 DEF Subscribing
    <3>4. Holding'
      BY <1>4, <1>6, <1>9, <2>5, <3>1, <3>3 DEF Holding
    <3>5. feedRefs' = feedRefs + 1 /\ strays' = strays
      BY <1>1, <2>5
    <3> QED BY <1>7, <2>1, <2>3, <2>4, <3>2, <3>4, <3>5 DEF RefsOwed
  <2>6. CASE ~(outcome = "resolved" /\ ~Overtaken(k))
    <3>1. \/ feedRefs' = feedRefs /\ strays' = strays
          \/ feedRefs' = feedRefs + 1 /\ strays' = strays + 1
      BY <1>1, <2>6
    <3> QED BY <1>7, <2>1, <2>2, <2>3, <2>4, <3>1 DEF RefsOwed
  <2> QED BY <2>5, <2>6
<1>11. OneStart'
  BY <1>9
<1>12. Watch'
  BY <1>6, <1>7 DEF EndInv, Closing, Watch, Ending
<1>13. Judged'
  BY <1>7, <1>8 DEF Judged, Ending
<1>14. Firm' /\ Working'
  BY <1>4, <1>5, <1>7 DEF EndInv, Closing, Firm, Working
<1>15. StaysCompleted
  BY <1>4, <1>5 DEF EndInv, Closing, Firm, StaysCompleted
<1> QED BY <1>10, <1>11, <1>12, <1>13, <1>14, <1>15 DEF Closing

LEMMA StopKeepsEnd ==
  ASSUME EndInv, NEW k \in ApiCallers, Stop(k)
  PROVE  Closing' /\ StaysCompleted
<1> DEFINE w == Adopted(World)
           v == Judge(Released(w))
<1>1. /\ Grown(World, w) /\ w.runtime = runtime
      /\ w.runtime.hadOpen => Exact(w)
      /\ session = NoSession => ~runtime.subscribed
      /\ session.status # "NONE" => w = World
      /\ w = World \/ w.session = saved
      /\ w.saved = saved
  BY AdoptedKeeps DEF EndInv
<1>2. v.session.status = "COMPLETED" /\ v.saved = saved
  <2> HIDE DEF w
  <2> QED BY <1>1, JudgedKeeps DEF Grown
<1>3. \/ /\ w.session.status = "COMPLETED"
         /\ Become(w)
         /\ UNCHANGED <<callers, feedRefs>>
      \/ /\ MustRelease(w)
         /\ Become(w)
         /\ GiveBack
         /\ callers' = [callers EXCEPT ![k] = "releasing"]
      \/ /\ ~MustRelease(w)
         /\ Become(v)
         /\ callers' = [callers EXCEPT ![k] = "concluding"]
         /\ UNCHANGED feedRefs
  BY DEF Stop
<1>4. /\ UNCHANGED <<sessions, recorders, hasFeed, monitor, started, strays>>
      /\ ~Ending /\ callers[k] = "idle"
  BY DEF Stop, historyVars, outsideVars, LoopFree
<1>5. \A j \in ApiCallers : j # k => callers'[j] = callers[j]
  BY <1>3, TypesAtEnd
<1>6. OneStart'
  <2>1. \A j \in ApiCallers : callers'[j] = "subscribing"
            => callers[j] = "subscribing" /\ started'[j] = started[j]
    BY <1>3, <1>4, <1>5, TypesAtEnd
  <2> QED BY <1>4, <2>1, SubscribersStay
<1>7. MustRelease(w) => w = World
  BY <1>1 DEF MustRelease, Adopted, World
<1>8. /\ World.session = session /\ World.runtime = runtime /\ World.saved = saved
      /\ Firm /\ Watch /\ Working
  BY DEF World, EndInv, Closing
<1> HIDE DEF w, v
<1>9. CASE w.session.status = "COMPLETED" /\ Become(w) /\ UNCHANGED <<callers, feedRefs>>
  <2>1. session'.status = "COMPLETED" /\ saved' = saved
    BY <1>1, <1>9 DEF Become
  <2>2. ~Active /\ ~Ending'
    <3>1. session.status \in {"NONE", "COMPLETED"}
      BY <1>1, <1>8, <1>9
    <3> QED BY <1>4, <1>9, <3>1 DEF Active, ActiveIn, Finished, World, Ending
  <2>3. RefsOwed'
    BY <1>4, <1>9, <2>2, RefsStay DEF Holding
  <2>4. monitor # "asleep"
    BY <1>4, <1>8, <2>2 DEF Watch, Ending
  <2> QED BY <1>4, <1>6, <2>1, <2>2, <2>3, <2>4
          DEF Closing, Watch, Judged, Firm, Working, StaysCompleted
<1>10. CASE MustRelease(w) /\ Become(w) /\ GiveBack /\ callers' = [callers EXCEPT ![k] = "releasing"]
  <2>1. session' = session /\ saved' = saved
    BY <1>7, <1>8, <1>10 DEF Become
  <2>2. ~Ending' /\ (Active' <=> Active)
    <3>1. \A j \in ApiCallers : callers'[j] # "concluding"
      BY <1>4, <1>5, <1>10, TypesAtEnd DEF Ending
    <3> QED BY <1>4, <2>1, <3>1 DEF Active, ActiveIn, World, Ending
  <2>3. RefsOwed'
    BY <1>4, <1>10, RefsGivenBack
  <2>4. Watch'
    BY <1>4, <1>8, <2>2 DEF Watch, Ending
  <2> QED BY <1>4, <1>6, <1>8, <2>1, <2>2, <2>3, <2>4
          DEF Closing, Judged, Firm, Working, StaysCompleted
<1>11. CASE /\ ~MustRelease(w)
            /\ Become(v)
            /\ callers' = [callers EXCEPT ![k] = "concluding"]
            /\ UNCHANGED feedRefs
  <2>1. session'.status = "COMPLETED" /\ saved' = saved
    BY <1>2, <1>11 DEF Become
  <2>2. RefsOwed'
    <3>1. Holding => ~hasFeed
      BY <1>1, <1>11 DEF Holding, MustRelease
    <3> QED BY <1>4, <1>11, <3>1, RefsStay
  <2>3. callers'[k] = "concluding"
    BY <1>11, TypesAtEnd
  <2> QED BY <1>6, <2>1, <2>2, <2>3 DEF Closing, Watch, Judged, Firm, Working, StaysCompleted
<1> QED BY <1>3, <1>9, <1>10, <1>11

LEMMA ReleasedKeepsEnd ==
  ASSUME EndInv, MonitorReleased \/ \E k \in ApiCallers : StopReleased(k)
  PROVE  Closing' /\ StaysCompleted
<1>1. PICK w \in ReleasedWorlds : Become(Judge(w))
  BY DEF StopReleased, MonitorReleased
<1> DEFINE v == Judge(w)
<1>2. /\ v.session.status = "COMPLETED"
      /\ v.saved.status \in {saved.status, session.status}
      /\ ~Active => v.saved = saved
  BY ReleasedWorldsEnd DEF EndInv
<1>3. Become(v)
  BY <1>1
<1> HIDE DEF v
<1>4. /\ session'.status = "COMPLETED"
      /\ saved.status = "COMPLETED" => saved'.status = "COMPLETED"
  <2>1. saved.status = "COMPLETED" => ~Active
    BY ActiveIsOpen DEF EndInv, Closing
  <2> QED BY <1>2, <1>3, <2>1 DEF Become
<1>5. /\ UNCHANGED <<sessions, hasFeed, feedRefs, strays, started>> /\ Releasing
      /\ \A k \in ApiCallers : callers'[k] = "subscribing" => callers[k] = "subscribing"
      /\ monitor' = "concluding" \/ \E k \in ApiCallers : callers'[k] = "concluding"
  BY TypesAtEnd DEF MonitorReleased, StopReleased, historyVars, requestVars, referenceVars,
                    outsideVars, Releasing
<1>6. RefsOwed' /\ OneStart'
  BY <1>5, RefsStay, SubscribersStay DEF Holding
<1>7. Watch'
  BY <1>5 DEF Watch
<1> QED BY <1>4, <1>6, <1>7 DEF Closing, Judged, Firm, Working, StaysCompleted

LEMMA ConcludesKeepsEnd ==
  ASSUME EndInv, MonitorConcludes \/ \E k \in ApiCallers : StopConcludes(k)
  PROVE  Closing' /\ StaysCompleted
<1> DEFINE v == Concluded(World)
<1>1. v.session = session /\ v.saved = session
  BY InvAtWorld, ConcludedKeeps DEF EndInv
<1>2. Become(v)
  BY DEF MonitorConcludes, StopConcludes
<1> HIDE DEF v
<1>3. session' = session /\ saved' = session
  BY <1>1, <1>2 DEF Become
<1>4. session.status = "COMPLETED"
  BY DEF EndInv, Closing, Judged, Ending, MonitorConcludes, StopConcludes
<1>5. /\ UNCHANGED <<sessions, hasFeed, feedRefs, strays, started>>
      /\ \A k \in ApiCallers : callers'[k] = "subscribing" => callers[k] = "subscribing"
      /\ monitor' # "asleep"
  BY TypesAtEnd DEF MonitorConcludes, StopConcludes, CancelMonitor, historyVars, requestVars,
                    referenceVars, outsideVars
<1>6. RefsOwed' /\ OneStart'
  <2>1. ~Active
    BY <1>4 DEF Active, ActiveIn, Finished, World
  <2> QED BY <1>5, <2>1, RefsStay, SubscribersStay DEF Holding
<1> QED BY <1>3, <1>4, <1>5, <1>6 DEF Closing, Watch, Judged, Firm, Working, StaysCompleted

LEMMA MonitorWakesKeepsEnd ==
  ASSUME EndInv, MonitorWakes
  PROVE  Closing' /\ StaysCompleted
<1>1. PICK aged \in BOOLEAN, due \in BOOLEAN :
         LET w == MonitorRound(World, aged, due) IN
            IF ~Closes(w)
            THEN /\ Become(w)
                 /\ monitor' = IF ActiveIn(w) THEN "asleep" ELSE "done"
                 /\ UNCHANGED feedRefs
            ELSE IF MustRelease(w)
            THEN /\ Become(ExchangeClosed(w))
                 /\ GiveBack
                 /\ monitor' = "releasing"
            ELSE /\ Become(Judge(Released(ExchangeClosed(w))))
                 /\ monitor' = "concluding"
                 /\ UNCHANGED feedRefs
  BY DEF MonitorWakes
<1> DEFINE w == MonitorRound(World, aged, due)
           x == ExchangeClosed(w)
           v == Judge(Released(x))
<1>2. \/ /\ Become(w)
         /\ monitor' \in {"asleep", "done"}
         /\ UNCHANGED feedRefs
      \/ /\ Become(x)
         /\ GiveBack
         /\ monitor' = "releasing"
      \/ /\ ~MustRelease(w)
         /\ Become(v)
         /\ monitor' = "concluding"
         /\ UNCHANGED feedRefs
  BY <1>1
<1>3. /\ Kept(World, w)
      /\ w.session.status \in {session.status, "RUNNING", "DEGRADED"}
      /\ w.saved.status \in {saved.status, session.status, "RUNNING", "DEGRADED"}
      /\ w.runtime.subscribed = runtime.subscribed
  BY InvAtWorld, MonitorRoundKeeps DEF EndInv, RoundOf
<1> HIDE DEF w
<1>4. /\ Kept(w, x) /\ x.session.status = "CLOSED"
      /\ x.runtime = w.runtime /\ x.saved = w.saved
  BY <1>3, ExchangeClosedKeeps DEF Kept
<1> HIDE DEF x
<1>5. v.session.status = "COMPLETED" /\ v.saved = x.saved
  <2>1. WorldInv(x) /\ Exact(x)
    <3>1. Own
      BY DEF MonitorWakes, Own
    <3> QED BY <1>3, <1>4, <3>1, InvAtWorld DEF Kept, EndInv
  <2> QED BY <2>1, JudgedKeeps
<1> HIDE DEF v
<1>6. /\ UNCHANGED <<sessions, hasFeed, strays, requestVars, recorders>>
      /\ ~Ending /\ monitor = "asleep"
  BY DEF MonitorWakes, historyVars, outsideVars, LoopFree
<1>7. Active
  BY <1>6 DEF EndInv, Closing, Watch, Ending
<1>8. session.status \notin {"NONE", "COMPLETED", "FAILED"} /\ saved.status # "COMPLETED"
  BY <1>7, ActiveIsOpen DEF EndInv, Closing
<1>9. OneStart' /\ (Subscribing' => Subscribing) /\ StaysCompleted
  BY <1>6, <1>8, SubscribersStay DEF requestVars, StaysCompleted
<1>10. CASE Become(w) /\ monitor' \in {"asleep", "done"} /\ UNCHANGED feedRefs
  <2>1. /\ session'.status \notin {"NONE", "COMPLETED", "FAILED"}
        /\ saved'.status # "COMPLETED"
        /\ runtime'.subscribed = runtime.subscribed
    BY <1>3, <1>8, <1>10 DEF Become
  <2>2. Active' /\ ~Ending'
    BY <1>6, <1>10, <2>1 DEF Active, ActiveIn, Finished, World, Ending, requestVars
  <2>3. RefsOwed'
    <3>1. Releasing' => Releasing
      BY <1>6, <1>10 DEF Releasing, requestVars
    <3> QED BY <1>6, <1>9, <1>10, <2>1, <2>2, <3>1, RefsStay DEF Holding
  <2> QED BY <1>9, <2>1, <2>2, <2>3 DEF Closing, Watch, Judged, Firm, Working
<1>11. CASE Become(x) /\ GiveBack /\ monitor' = "releasing"
  <2>1. session'.status = "CLOSED" /\ saved'.status # "COMPLETED"
    BY <1>3, <1>4, <1>8, <1>11 DEF Become
  <2>2. ~Ending'
    BY <1>6, <1>11 DEF Ending, requestVars
  <2>3. RefsOwed'
    BY <1>6, <1>11, RefsGivenBack
  <2> QED BY <1>9, <1>11, <2>1, <2>2, <2>3 DEF Closing, Watch, Judged, Firm, Working
<1>12. CASE ~MustRelease(w) /\ Become(v) /\ monitor' = "concluding" /\ UNCHANGED feedRefs
  <2>1. session'.status = "COMPLETED"
    BY <1>5, <1>12 DEF Become
  <2>2. RefsOwed'
    <3>1. Holding => ~hasFeed
      BY <1>3, <1>12 DEF Holding, MustRelease
    <3> QED BY <1>6, <1>12, <3>1, RefsStay
  <2> QED BY <1>9, <1>12, <2>1, <2>2 DEF Closing, Watch, Judged, Firm, Working
<1> QED BY <1>2, <1>10, <1>11, <1>12

\* A step that moves no request, no reference and not the monitor.
LEMMA AsideKeepsEnd ==
  ASSUME EndInv, UNCHANGED <<sessions, monitor, requestVars, hasFeed, referenceVars>>,
         Active => Active',
         session'.status = session.status \/ (Active /\ session'.status # "COMPLETED" /\ ~Ending),
         runtime'.subscribed = runtime.subscribed,
         Firm', Working', StaysCompleted
  PROVE  Closing' /\ StaysCompleted
<1>1. OneStart' /\ (Subscribing' => Subscribing)
  BY SubscribersStay DEF requestVars
<1>2. (Releasing' <=> Releasing) /\ (Ending' <=> Ending)
  BY DEF Releasing, Ending, requestVars
<1>3. RefsOwed'
  BY <1>1, <1>2, RefsStay DEF Holding, referenceVars
<1>4. Watch' /\ Judged'
  BY <1>2 DEF EndInv, Closing, Watch, Judged, requestVars
<1> QED BY <1>1, <1>3, <1>4 DEF Closing

LEMMA TickKeepsEnd ==
  ASSUME EndInv, Tick
  PROVE  Closing' /\ StaysCompleted
<1>1. PICK recorded \in BOOLEAN : Become(ObserveTick(World, recorded))
  BY DEF Tick
<1> DEFINE v == ObserveTick(World, recorded)
<1>2. /\ v.session.status \in {session.status, "RUNNING"}
      /\ v.saved.status \in {saved.status, session.status, "RUNNING"}
      /\ v.runtime.subscribed = runtime.subscribed
  BY InvAtWorld, ObserveTickKeeps DEF EndInv
<1>3. Become(v)
  BY <1>1
<1> HIDE DEF v
<1>4. /\ session.status \notin {"NONE", "COMPLETED", "FAILED"} /\ saved.status # "COMPLETED"
      /\ Active /\ ~Ending
  BY ActiveIsOpen DEF EndInv, Closing, Tick, LoopFree
<1>5. /\ session'.status \notin {"NONE", "COMPLETED", "FAILED"}
      /\ saved'.status # "COMPLETED"
      /\ runtime'.subscribed = runtime.subscribed
  BY <1>2, <1>3, <1>4 DEF Become
<1>6. Active'
  BY <1>5 DEF Active, ActiveIn, Finished, World
<1>7. Firm' /\ Working' /\ StaysCompleted
  BY <1>4, <1>5 DEF Firm, Working, StaysCompleted
<1>8. UNCHANGED <<sessions, monitor, requestVars, hasFeed, referenceVars>>
  BY DEF Tick, historyVars, outsideVars
<1> QED BY <1>4, <1>5, <1>6, <1>7, <1>8, AsideKeepsEnd

LEMMA RecorderKeepsEnd ==
  ASSUME EndInv, NEW r \in Recorders, RecorderSteps(r)
  PROVE  Closing' /\ StaysCompleted
<1>1. session.status # "NONE"
  <2>1. CASE RecorderTests(r)
    BY <2>1 DEF RecorderTests, Active, ActiveIn, World
  <2>2. CASE ~RecorderTests(r)
    BY <2>2 DEF RecorderSteps, RecorderLoads, RecorderStores, RecorderAppends, RecorderSaves,
                EndInv, Closing, Working
  <2> QED BY <2>1, <2>2
<1>2. session \in SessionRecord
  BY InvAtWorld DEF EndInv, WorldInv, Worlds
<1>3. session'.status = session.status /\ runtime' = runtime /\ saved' \in {saved, session}
  <2>1. CASE RecorderTests(r) \/ RecorderLoads(r)
    BY <2>1 DEF RecorderTests, RecorderLoads, worldVars
  <2>2. CASE RecorderStores(r)
    <3>1. \A n : [session EXCEPT !.errors = n].status = session.status
      BY <1>2 DEF SessionRecord
    <3> QED BY <2>2, <3>1 DEF RecorderStores
  <2>3. CASE RecorderAppends(r)
    <3> DEFINE v == Log(World, "PROVIDER_ERROR")
    <3>1. v.session = session /\ v.runtime = runtime /\ v.saved = saved
      BY InvAtWorld, LogKeeps DEF EndInv
    <3>2. Become(v)
      BY <2>3 DEF RecorderAppends
    <3> HIDE DEF v
    <3> QED BY <3>1, <3>2 DEF Become
  <2>4. CASE RecorderSaves(r)
    <3> DEFINE v == Save(World)
    <3>1. v.session = session /\ v.runtime = runtime /\ v.saved = session
      BY InvAtWorld, SaveKeeps DEF EndInv
    <3>2. Become(v)
      BY <2>4 DEF RecorderSaves
    <3> HIDE DEF v
    <3> QED BY <3>1, <3>2 DEF Become
  <2> QED BY <2>1, <2>2, <2>3, <2>4 DEF RecorderSteps
<1>4. Active' <=> Active
  BY <1>3 DEF Active, ActiveIn, World
<1>5. Firm' /\ Working' /\ StaysCompleted
  BY <1>1, <1>3 DEF EndInv, Closing, Firm, Working, StaysCompleted
<1>6. UNCHANGED <<sessions, monitor, requestVars, hasFeed, referenceVars>>
  BY DEF RecorderSteps, RecorderTests, RecorderLoads, RecorderStores, RecorderAppends,
         RecorderSaves, RecorderMoves, historyVars, outsideVars
<1> QED BY <1>3, <1>4, <1>5, <1>6, AsideKeepsEnd

LEMMA FeedMovesKeepsEnd ==
  ASSUME EndInv, FeedMoves
  PROVE  Closing' /\ StaysCompleted
<1> DEFINE Fine(v) == /\ WorldInv(v)
                      /\ v.session.status = session.status
                      /\ v.runtime.subscribed = runtime.subscribed
                      /\ v.saved.status \in {saved.status, session.status}
                      /\ ~Active => v.saved.status = saved.status
<1>1. ASSUME NEW w, Fine(w), NEW st \in RunStates PROVE Fine(RecordState(w, st))
  <2> DEFINE v == RecordState(w, st)
  <2>1. /\ Kept(w, v)
        /\ v.session.status = w.session.status
        /\ v.runtime.subscribed = w.runtime.subscribed
        /\ v.saved.status \in {w.saved.status, w.session.status}
        /\ ~ActiveIn(w) => v = w
    BY <1>1, RecordStateKeeps
  <2> HIDE DEF v
  <2>2. ActiveIn(w) <=> Active
    BY <1>1 DEF Active, ActiveIn, World
  <2>3. Fine(v)
    BY <1>1, <2>1, <2>2 DEF Kept
  <2> QED BY <2>3 DEF v
<1>2. Fine(World)
  BY InvAtWorld DEF EndInv
<1> DEFINE reset == RecordState(RecordState(World, "DISCONNECTED"), "RECONNECTING")
<1>3. Fine(reset)
  BY <1>1, <1>2 DEF RunStates, FeedStates
<1>4. PICK next \in FeedNext :
         Become(RecordState(IF feedState = "CONNECTED" /\ next = "CONNECTING"
                            THEN reset ELSE World, next))
  BY DEF FeedMoves
<1>5. next \in RunStates
  BY <1>4 DEF FeedNext, RunStates, FeedStates
<1> HIDE DEF reset
<1> DEFINE w == IF feedState = "CONNECTED" /\ next = "CONNECTING" THEN reset ELSE World
           v == RecordState(w, next)
<1>6. Fine(w)
  BY <1>2, <1>3
<1>7. Become(v)
  BY <1>4
<1> HIDE DEF w
<1>8. Fine(v)
  BY <1>1, <1>5, <1>6
<1> HIDE DEF v
<1>9. /\ session'.status = session.status
      /\ runtime'.subscribed = runtime.subscribed
      /\ saved'.status \in {saved.status, session.status}
      /\ ~Active => saved'.status = saved.status
  BY <1>7, <1>8 DEF Become
<1>10. Active' <=> Active
  BY <1>9 DEF Active, ActiveIn, World
<1>11. UNCHANGED <<sessions, monitor, requestVars, recorders, hasFeed, referenceVars>>
  BY DEF FeedMoves, historyVars
<1>12. Firm' /\ Working' /\ StaysCompleted
  <2>1. Working'
    BY <1>9, <1>11 DEF EndInv, Closing, Working
  <2>2. CASE Active
    BY <1>9, <2>1, <2>2, ActiveIsOpen DEF EndInv, Closing, Firm, StaysCompleted
  <2>3. CASE ~Active
    BY <1>9, <2>1, <2>3 DEF EndInv, Closing, Firm, StaysCompleted
  <2> QED BY <2>2, <2>3, <2>1
<1> QED BY <1>9, <1>10, <1>11, <1>12, AsideKeepsEnd

LEMMA QuietStepsKeepEnd ==
  ASSUME EndInv,
         \/ \E k \in ApiCallers : Answer(k)
         \/ MonitorStarts
         \/ MonitorCancelled
         \/ ExchangeMoves
         \/ UNCHANGED sessionVars
  PROVE  Closing' /\ StaysCompleted
<1>1. UNCHANGED <<session, runtime, log, saved, hasFeed, referenceVars, sessions, recorders>>
  BY DEF Answer, MonitorStarts, MonitorCancelled, ExchangeMoves, sessionVars, worldVars,
         outsideVars, historyVars
<1>2. Active' <=> Active
  BY <1>1 DEF Active, ActiveIn, World
<1>3. Firm' /\ Working' /\ StaysCompleted
  BY <1>1 DEF EndInv, Closing, Firm, Working, StaysCompleted
<1>4. ASSUME NEW k \in ApiCallers, Answer(k) PROVE Closing'
  <2>1. /\ monitor' = monitor /\ started' = started /\ ~Ending
        /\ callers[k] = "answering" /\ callers'[k] = "idle"
        /\ \A j \in ApiCallers : j # k => callers'[j] = callers[j]
    BY <1>4, TypesAtEnd DEF Answer, LoopFree
  <2>2. OneStart' /\ (Subscribing' => Subscribing)
    BY <1>1, <2>1, SubscribersStay
  <2>3. Releasing' => Releasing
    BY <2>1 DEF Releasing
  <2>4. RefsOwed'
    BY <1>1, <1>2, <2>2, <2>3, RefsStay DEF Holding, referenceVars
  <2>5. Watch' /\ Judged'
    BY <1>1, <1>2, <2>1 DEF EndInv, Closing, Watch, Judged, Ending
  <2> QED BY <1>3, <2>2, <2>4, <2>5 DEF Closing
<1>5. CASE MonitorStarts \/ MonitorCancelled
  <2>1. /\ UNCHANGED requestVars /\ monitor' \in {"asleep", "done"} /\ ~Ending
        /\ monitor' = "asleep" => Active
        /\ monitor # "releasing"
    BY <1>5 DEF MonitorStarts, MonitorCancelled, LoopFree
  <2>2. OneStart' /\ (Subscribing' => Subscribing)
    BY <1>1, <2>1, SubscribersStay DEF requestVars
  <2>3. Releasing' => Releasing
    BY <2>1 DEF Releasing, requestVars
  <2>4. RefsOwed'
    BY <1>1, <1>2, <2>2, <2>3, RefsStay DEF Holding, referenceVars
  <2>5. Watch' /\ Judged'
    BY <1>1, <1>2, <2>1 DEF Watch, Judged, Ending, requestVars
  <2> QED BY <1>3, <2>2, <2>4, <2>5 DEF Closing
<1>6. CASE ExchangeMoves \/ UNCHANGED sessionVars
  <2>1. UNCHANGED <<monitor, requestVars>>
    BY <1>6 DEF ExchangeMoves, sessionVars
  <2> QED BY <1>1, <1>2, <1>3, <2>1, AsideKeepsEnd
<1> QED BY <1>3, <1>4, <1>5, <1>6

\* Wherever the loop is cut short after the end of a session, it has not gone back on it.
LEMMA InterruptedStays ==
  ASSUME EndInv, saved.status = "COMPLETED", NEW v \in {World} \union Interrupted
  PROVE  /\ v.session.status \in {session.status, "COMPLETED"}
         /\ v.saved.status = "COMPLETED"
<1> DEFINE Fine(w) == /\ w.session.status \in {session.status, "COMPLETED"}
                      /\ w.saved.status = "COMPLETED"
<1>1. /\ World.session = session /\ World.saved = saved /\ WorldInv(World)
      /\ exchange \in Exchanges /\ feedState \in FeedStates
  BY InvAtWorld DEF EndInv
<1>2. session.status \in {"NONE", "COMPLETED"} /\ ~ActiveIn(World) /\ ~Active
  BY DEF EndInv, Closing, Firm, Active, ActiveIn, Finished, World
<1>3. ASSUME \E k \in ApiCallers : callers[k] = "subscribing" PROVE session.status = "COMPLETED"
  <2>1. session.status # "NONE"
    BY <1>3 DEF EndInv, SessionInv, Dormant, Own
  <2> QED BY <1>2, <2>1
<1>4. Fine(World)
  BY <1>1
<1>5. ASSUME Ending PROVE Fine(Concluded(World))
  <2>1. session.status = "COMPLETED"
    BY <1>5 DEF EndInv, Closing, Judged
  <2> QED BY <1>1, <2>1, ConcludedKeeps
<1>6. \A recorded \in BOOLEAN : ObserveTick(World, recorded) = World
  BY <1>1, <1>2, ObserveTickKeeps
<1>7. \A st \in FeedNext \union {"DISCONNECTED"} : RecordState(World, st) = World
  BY <1>2 DEF RecordState
<1>8. RecordError(World) = World
  BY <1>2 DEF RecordError
<1>9. Fine(Ended(World))
  BY <1>1, EndedGrows
<1>10. ASSUME NEW outcome, \E k \in ApiCallers : callers[k] = "subscribing"
       PROVE  Fine(Subscribed(World, outcome))
  <2>1. session.status = "COMPLETED"
    BY <1>3, <1>10
  <2>2. /\ Subscribed(World, outcome).session.status = World.session.status
        /\ Subscribed(World, outcome).saved.status \in {World.saved.status, World.session.status}
    BY <1>1, SubscribedKeeps
  <2> QED BY <1>1, <2>1, <2>2
<1>11. ~Ending => monitor # "asleep"
  BY <1>2 DEF EndInv, Closing, Watch, Ending
<1>12. CASE v = World
  BY <1>4, <1>12
<1>13. CASE Ending
  <2>1. v \in {World, Concluded(World)}
    BY <1>13 DEF Interrupted
  <2> QED BY <1>4, <1>5, <1>13, <2>1
<1>14. CASE ~Ending
  <2>1. \/ v \in {World, RecordError(World), Ended(World)}
        \/ \E recorded \in BOOLEAN : v = ObserveTick(World, recorded)
        \/ \E st \in FeedNext \union {"DISCONNECTED"} : v = RecordState(World, st)
        \/ /\ \E k \in ApiCallers : callers[k] = "subscribing"
           /\ \E outcome \in {"resolved", "unresolved"} : v = Subscribed(World, outcome)
    BY <1>11, <1>14 DEF Interrupted
  <2> HIDE DEF Fine
  <2>2. Fine(v)
    BY <1>4, <1>6, <1>7, <1>8, <1>9, <1>10, <2>1
  <2> QED BY <2>2 DEF Fine
<1> QED BY <1>13, <1>14

\* Nothing is left in memory that could be owed, watched or written.
LEMMA MemoryIsLostKeepsEnd ==
  ASSUME EndInv, MemoryIsLost
  PROVE  Closing'
<1>1. /\ session'.status = "NONE" /\ feedRefs' = 0 /\ strays' = 0 /\ monitor' = "none"
      /\ \A k \in ApiCallers : callers'[k] = "idle"
      /\ \A r \in Recorders : recorders'[r].at = "idle"
  BY DEF MemoryIsLost, NoSession, IdleRecorder
<1>2. RefsOwed'
  BY <1>1 DEF RefsOwed
<1> QED BY <1>1, <1>2 DEF Closing, OneStart, Watch, Judged, Ending, Firm, Working

LEMMA CrashKeepsEnd ==
  ASSUME EndInv, Crash
  PROVE  Closing' /\ StaysCompleted
<1>1. PICK v \in {World} \union Interrupted : DiesOnTheWayTo(v)
  BY DEF Crash
<1>2. MemoryIsLost /\ session'.status = "NONE"
  BY DEF Crash, MemoryIsLost, NoSession
<1>3. ASSUME saved.status = "COMPLETED" PROVE saved'.status = "COMPLETED"
  <2>1. v.session.status \in {session.status, "COMPLETED"} /\ v.saved.status = "COMPLETED"
    BY <1>3, InterruptedStays
  <2>2. \/ saved' \in {saved, v.saved}
        \/ Recording({"appended"}) /\ saved' = v.session
    BY <1>1 DEF DiesOnTheWayTo
  <2>3. Recording({"appended"}) => session.status = "COMPLETED"
    BY <1>3 DEF Recording, EndInv, Closing, Working, Firm
  <2> QED BY <1>3, <2>1, <2>2, <2>3
<1> QED BY <1>2, <1>3, MemoryIsLostKeepsEnd DEF StaysCompleted

LEMMA CrashInStartKeepsEnd ==
  ASSUME EndInv, CrashInStart
  PROVE  Closing' /\ StaysCompleted
<1>1. MemoryIsLost /\ sessions' = sessions + 1
  BY DEF CrashInStart, NewSession
<1> QED BY <1>1, MemoryIsLostKeepsEnd, TypesAtEnd DEF StaysCompleted

LEMMA NextKeepsEnd ==
  EndInv /\ [SessionNext]_sessionVars => EndInv' /\ StaysCompleted
<1> SUFFICES ASSUME EndInv, [SessionNext]_sessionVars
             PROVE  EndInv' /\ StaysCompleted
  OBVIOUS
<1>1. Closing' /\ StaysCompleted
  BY StartKeepsEnd, StartSubscribedKeepsEnd, StopKeepsEnd, ReleasedKeepsEnd, ConcludesKeepsEnd,
     MonitorWakesKeepsEnd, TickKeepsEnd, RecorderKeepsEnd, FeedMovesKeepsEnd, QuietStepsKeepEnd,
     CrashKeepsEnd, CrashInStartKeepsEnd
  DEF SessionNext, Continue, MonitorSteps
<1>2. SessionInv'
  BY NextKeepsInv DEF EndInv
<1> QED BY <1>1, <1>2 DEF EndInv

\* In every behaviour the strengthened invariant holds.
THEOREM EndInvHolds ==
  SessionSafetySpec => []EndInv
<1>1. SessionInit => EndInv
  BY InitGivesEnd
<1>2. EndInv /\ [SessionNext]_sessionVars => EndInv'
  BY NextKeepsEnd
<1> QED BY <1>1, <1>2, PTL DEF SessionSafetySpec

\* However requests, the monitor and crashes interleave, a session that is over leaves
\* no reference in the feed but the strays: those that a start() took while feed.subscribe
\* raised, or while its session was ended under it.
THEOREM ReferencesReturnedAlways ==
  SessionSafetySpec => []ReferencesReturned
<1>1. EndInv => ReferencesReturned
  <2> SUFFICES ASSUME EndInv, Over PROVE feedRefs <= strays
    BY DEF ReferencesReturned
  <2>1. ~Holding
    BY DEF Over, Holding, Active, ActiveIn, Finished, World
  <2>2. feedRefs \in Nat /\ strays \in Nat
    BY TypesAtEnd
  <2> QED BY <2>1, <2>2 DEF EndInv, Closing, RefsOwed
<1> QED BY <1>1, EndInvHolds, PTL

\* No tick, connection event, monitor round, worker, request under way or restart
\* reopens a session that _finalize completed, in memory or on disk.
THEOREM CompletedForGood ==
  SessionSafetySpec => CompletionIsFinal
<1>1. EndInv /\ [SessionNext]_sessionVars => [StaysCompleted]_sessionVars
  BY NextKeepsEnd
<1>2. [StaysCompleted]_sessionVars
        <=> [sessions' = sessions =>
               /\ saved.status = "COMPLETED" => saved'.status = "COMPLETED"
               /\ session.status = "COMPLETED" => session'.status \in {"COMPLETED", "NONE"}]_sessionVars
  BY DEF StaysCompleted
<1> QED BY <1>1, <1>2, EndInvHolds, PTL DEF SessionSafetySpec, CompletionIsFinal
=============================================================================
