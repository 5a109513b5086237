---------------------------- MODULE AtinyFotaProofs ----------------------------
(***************************************************************************)
(* Theorems about module AtinyFota, for all packages, addresses, sizes of  *)
(* blocks and pieces, and every bound on restarts.                         *)
(***************************************************************************)
EXTENDS AtinyFota, SequenceTheorems, TLAPS

\* The states of the manager of the firmware object, atiny_fota_state_e.
State == {"IDLE", "DOWNLOADING", "DOWNLOADED", "UPDATING"}
\* The record of the manager.
Manager == [st : State, rpt : State, result : {"NULL", "SUCCESS", "FAIL"}, waitAck : BOOLEAN,
            uri : Uris \cup {NoUri}, changed : BOOLEAN, lost : BOOLEAN,
            notices : SUBSET {"stale", "fresh"}]
\* The result to report, and whether it may differ from the outcome.
Report == [flag : BOOLEAN, ok : BOOLEAN, parted : BOOLEAN]
\* What the boot loader reads from the flag, BAD if the checksum is wrong.
BootFlag == {"BAD", "IDLE", "NEED_UPGRADE", "SUCCEED", "FAILED"}

-----------------------------------------------------------------------------
(* The inductive invariant                                                 *)

\* Each variable has its type.
FotaTypeOK ==
  /\ m \in Manager /\ phase \in Phases
  /\ sector \in [boot : BootFlag, app : {"garbage", "none", "token"}]
  /\ flag \in BootFlag /\ report \in Report
  /\ outcome \in {"none", "SUCCEED", "FAILED"}
  /\ fw.num \in Nat /\ (req \in Nat \/ req = NoRequest)

\* The state the manager is in while the agent starts, arms the boot loader, and
\* has a result to report.
PhaseOK ==
  /\ phase \in Booting \cup Starting \cup {"off"} => m = ManagerInit /\ req = NoRequest
  /\ phase \in {"activate", "record"} => m.st = "DOWNLOADED" /\ m.rpt = "UPDATING"
  /\ report.flag => phase \in {"clear", "run"} /\ m = ManagerInit
  /\ phase = "record" => sector.boot = "NEED_UPGRADE"
  /\ phase = "copy" => sector.boot = "SUCCEED"

\* The part of the inductive invariant that no assumption is needed for.
FotaInv == FotaTypeOK /\ PhaseOK /\ UpdatingArmed

\* Unless the two have parted, the flag in the sector tells of the last upgrade asked
\* for as long as there is a token to report it to.
FlagTrue ==
  /\ ~report.parted =>
       /\ phase \notin {"clear", "copy"} /\ sector.app # "none" =>
            (sector.boot = "SUCCEED" <=> outcome = "SUCCEED")
       /\ phase \in {"run", "activate", "record"} /\ sector.app # "none" =>
            sector.boot # "SUCCEED"
       /\ phase \in {"activate", "record"} => outcome = "none"
       /\ sector.boot = "BAD" => outcome # "SUCCEED"
  /\ phase = "consume" => flag = sector.boot

\* A download under way is not waited for, and ends are told to the server.
DownloadsEnd ==
  /\ m.st = "DOWNLOADING" /\ m.rpt = "DOWNLOADING" <=> req # NoRequest
  /\ m.st = "DOWNLOADING" /\ m.rpt = "DOWNLOADING" => ~m.waitAck
  /\ phase = "run" /\ m.st # m.rpt => m.waitAck /\ (m.changed \/ "fresh" \in m.notices \/ m.lost)

\* A download that replaces a downloaded image is started without fail.
Answering == "restart" \notin Faults

-----------------------------------------------------------------------------
(* The manager's functions                                                 *)

\* The results that the manager keeps for the server.
Result == {"NULL", "SUCCESS", "FAIL"}

\* k2 has the fields of a manager's record in the states st and rpt.
Moved(k2, st, rpt) == k2 \in Manager /\ k2.st = st /\ k2.rpt = rpt

\* A result changes nothing else.
LEMMA SetResultOK ==
  ASSUME NEW k \in Manager, NEW r \in Result
  PROVE  /\ Moved(SetResult(k, r), k.st, k.rpt) /\ SetResult(k, r).waitAck = k.waitAck
         /\ SetResult(k, r).changed = k.changed /\ SetResult(k, r).notices = k.notices
         /\ SetResult(k, r).lost = k.lost
BY DEF Manager, SetResult, Moved, Result

\* A report of a state is waited for, and ages the notifications under way.
LEMMA SaveOK ==
  ASSUME NEW k \in Manager, NEW s \in State
  PROVE  /\ Moved(save_rpt_state(k, s), k.st, s) /\ save_rpt_state(k, s).waitAck
         /\ save_rpt_state(k, s).changed = k.changed
<1> DEFINE k1 == [k EXCEPT !.rpt = s]
           k2 == [k1 EXCEPT !.waitAck = TRUE]
           k3 == [k2 EXCEPT !.lost = FALSE]
           k4 == [k3 EXCEPT !.notices = IF @ = {} THEN {} ELSE {"stale"}]
<1>1. k1 \in Manager /\ k1.st = k.st /\ k1.rpt = s /\ k1.changed = k.changed
  BY DEF Manager
<1>2. save_rpt_state(k, s) = k4
  BY DEF save_rpt_state
<1> HIDE DEF k1
<1>3. /\ k2 \in Manager /\ k2.st = k.st /\ k2.rpt = s /\ k2.changed = k.changed /\ k2.waitAck = TRUE
  BY <1>1 DEF Manager
<1> HIDE DEF k2
<1>4. /\ k3 \in Manager /\ k3.st = k.st /\ k3.rpt = s /\ k3.changed = k.changed /\ k3.waitAck = TRUE
  BY <1>3 DEF Manager
<1> HIDE DEF k3
<1>5. /\ k4 \in Manager /\ k4.st = k.st /\ k4.rpt = s /\ k4.changed = k.changed /\ k4.waitAck = TRUE
  BY <1>4 DEF Manager
<1> HIDE DEF k4
<1> QED BY <1>2, <1>5 DEF Moved

\* A state to report is due to be told.
LEMMA ReportOK ==
  ASSUME NEW k \in Manager, NEW s \in State
  PROVE  Moved(rpt_state(k, s), k.st, s) /\ rpt_state(k, s).waitAck /\ rpt_state(k, s).changed
<1> DEFINE k1 == save_rpt_state(k, s)
<1>1. k1 \in Manager /\ k1.st = k.st /\ k1.rpt = s /\ k1.waitAck
  BY SaveOK DEF Moved
<1>2. rpt_state(k, s) = [k1 EXCEPT !.changed = TRUE]
  BY DEF rpt_state
<1> HIDE DEF k1
<1> QED BY <1>1, <1>2 DEF Moved, Manager

\* A state that is reached is no longer to be reported.
LEMMA SetStateOK ==
  ASSUME NEW k \in Manager, NEW s \in State
  PROVE  Moved(set_state(k, s), s, s)
<1> DEFINE k1 == [k EXCEPT !.st = s]
           k2 == [k1 EXCEPT !.rpt = s]
           k3 == [k2 EXCEPT !.waitAck = @ /\ k.st = s]
<1>1. k1 \in Manager /\ k1.st = s
  BY DEF Manager
<1>2. set_state(k, s) = k3
  BY DEF set_state
<1> HIDE DEF k1
<1>3. k2 \in Manager /\ k2.st = s /\ k2.rpt = s
  BY <1>1 DEF Manager
<1> HIDE DEF k2
<1>4. k3 \in Manager /\ k3.st = s /\ k3.rpt = s
  BY <1>3 DEF Manager
<1> HIDE DEF k3
<1> QED BY <1>2, <1>4 DEF Moved

\* An acknowledgement ends the wait.
LEMMA AckedOK ==
  ASSUME NEW k \in Manager
  PROVE  Moved(Acked(k), k.st, k.rpt) /\ ~Acked(k).waitAck
BY DEF Acked, Moved, Manager

\* A notification that is answered is no longer under way.
LEMMA AnsweredOK ==
  ASSUME m \in Manager, NEW n
  PROVE  /\ Moved(Answered(n), m.st, m.rpt) /\ Answered(n).waitAck = m.waitAck
         /\ Answered(n).changed = m.changed /\ Answered(n).notices = m.notices \ {n}
         /\ Answered(n).lost = m.lost
BY DEF Answered, Moved, Manager

\* The end of a download is reported, and an end without a download is ignored.
LEMMA FinishOK ==
  ASSUME NEW k \in Manager, NEW ok, NEW r, r = finish_download(k, ok)
  PROVE  /\ ~(k.st = "DOWNLOADING" /\ k.rpt = "DOWNLOADING") => r = k
         /\ k.st = "DOWNLOADING" /\ k.rpt = "DOWNLOADING" =>
              /\ r \in Manager /\ r.st = "DOWNLOADING" /\ r.rpt \in {"IDLE", "DOWNLOADED"}
              /\ r.waitAck /\ r.changed
<1>1. CASE ~(k.st = "DOWNLOADING" /\ k.rpt = "DOWNLOADING")
  BY <1>1 DEF finish_download
<1>2. CASE k.st = "DOWNLOADING" /\ k.rpt = "DOWNLOADING"
  <2>1. r \in {rpt_state(k, "DOWNLOADED"), rpt_state(SetResult(k, "FAIL"), "IDLE")}
    BY <1>2 DEF finish_download
  <2>2. SetResult(k, "FAIL") \in Manager /\ SetResult(k, "FAIL").st = "DOWNLOADING"
    BY <1>2, SetResultOK DEF Moved, Result
  <2>3. /\ rpt_state(k, "DOWNLOADED") \in Manager /\ rpt_state(k, "DOWNLOADED").st = "DOWNLOADING"
        /\ rpt_state(k, "DOWNLOADED").rpt = "DOWNLOADED" /\ rpt_state(k, "DOWNLOADED").waitAck
        /\ rpt_state(k, "DOWNLOADED").changed
    BY <1>2, ReportOK DEF Moved, State
  <2>4. PICK f : f = SetResult(k, "FAIL")
    OBVIOUS
  <2>5. /\ rpt_state(f, "IDLE") \in Manager /\ rpt_state(f, "IDLE").st = "DOWNLOADING"
        /\ rpt_state(f, "IDLE").rpt = "IDLE" /\ rpt_state(f, "IDLE").waitAck
        /\ rpt_state(f, "IDLE").changed
    BY <2>2, <2>4, ReportOK DEF Moved, State
  <2>6. r = rpt_state(k, "DOWNLOADED") \/ r = rpt_state(f, "IDLE")
    BY <2>1, <2>4
  <2>7. CASE r = rpt_state(k, "DOWNLOADED")
    BY <1>2, <2>3, <2>7
  <2>8. CASE r = rpt_state(f, "IDLE")
    BY <1>2, <2>5, <2>8
  <2> QED BY <2>6, <2>7, <2>8
<1> QED BY <1>1, <1>2

\* How a record that failed is reported.
LEMMA FailedOK ==
  ASSUME NEW k \in Manager, NEW s \in State
  PROVE  /\ Moved(rpt_state(SetResult(k, "FAIL"), s), k.st, s)
         /\ rpt_state(SetResult(k, "FAIL"), s).waitAck /\ rpt_state(SetResult(k, "FAIL"), s).changed
<1>1. PICK f : f = SetResult(k, "FAIL")
  OBVIOUS
<1>2. f \in Manager /\ f.st = k.st
  BY <1>1, SetResultOK DEF Moved, Result
<1>3. Moved(rpt_state(f, s), k.st, s) /\ rpt_state(f, s).waitAck /\ rpt_state(f, s).changed
  BY <1>2, ReportOK
<1> QED BY <1>1, <1>3

-----------------------------------------------------------------------------
(* The steps of the agent's normal work                                    *)

\* A step that only moves the manager and the download.
RunStep ==
  /\ phase = "run" /\ Kept /\ m' \in Manager
  /\ fw'.num \in Nat /\ (req' \in Nat \/ req' = NoRequest)
  /\ report.flag => m' = m
  /\ m'.st = "UPDATING" => m.st = "UPDATING"

\* Such a step touches neither the flag sector nor what is to be reported.
LEMMA RunStepInv ==
  ASSUME FotaInv, RunStep
  PROVE  FotaInv' /\ (FlagTrue => FlagTrue') /\ (ResultTrue => ResultTrue')
<1>1. UNCHANGED <<sector, flag, report, phase, outcome>>
  BY DEF RunStep, Kept
<1>2. FotaTypeOK'
  BY <1>1 DEF FotaInv, FotaTypeOK, RunStep
<1>3. PhaseOK' /\ UpdatingArmed'
  BY <1>1 DEF FotaInv, PhaseOK, UpdatingArmed, Booting, Starting, RunStep
<1> QED BY <1>1, <1>2, <1>3 DEF FotaInv, FlagTrue, ResultTrue

\* What the type invariant says of the manager at work.
LEMMA ManagerFacts ==
  ASSUME FotaInv
  PROVE  /\ m \in Manager /\ m.st \in State /\ m.rpt \in State /\ fw.num \in Nat
         /\ req \in Nat \/ req = NoRequest
         /\ report.flag => m.st = "IDLE" /\ m.rpt = "IDLE" /\ ~m.changed /\ m.notices = {}
BY DEF FotaInv, FotaTypeOK, PhaseOK, Manager, ManagerInit

\* The commands of the server.
LEMMA CommandsStep ==
  ASSUME FotaInv, Commands
  PROVE  RunStep /\ (DownloadsEnd => DownloadsEnd')
<1>1. /\ phase = "run" /\ ~report.flag /\ m.st = m.rpt /\ Kept /\ UNCHANGED <<d, fw, req>>
      /\ m \in Manager /\ fw.num \in Nat /\ (req \in Nat \/ req = NoRequest)
  BY ManagerFacts DEF Commands, atiny_fota_manager_start_download,
       atiny_fota_manager_execute_update, Registered, Running, ManagerOnly
<1>2. m' \in Manager /\ m'.st = m.st /\ (m'.rpt = m.rpt \/ (m.st # "DOWNLOADING" /\ m'.waitAck /\ m'.changed))
      /\ (m'.rpt = m.rpt => m'.waitAck = m.waitAck \/ m.st # "DOWNLOADING")
  <2>1. CASE atiny_fota_manager_start_download
    <3>1. PICK u \in Uris : \E k \in {[m EXCEPT !.uri = u]} :
             m' = IF m.st \in {"IDLE", "DOWNLOADED"}
                  THEN rpt_state(SetResult(k, "NULL"), "DOWNLOADING") ELSE k
      BY <2>1 DEF atiny_fota_manager_start_download
    <3>2. PICK k : /\ k = [m EXCEPT !.uri = u]
                   /\ m' = IF m.st \in {"IDLE", "DOWNLOADED"}
                           THEN rpt_state(SetResult(k, "NULL"), "DOWNLOADING") ELSE k
      BY <3>1
    <3>3. k \in Manager /\ k.st = m.st /\ k.rpt = m.rpt /\ k.waitAck = m.waitAck
      BY <1>1, <3>2 DEF Manager
    <3>4. CASE m.st \in {"IDLE", "DOWNLOADED"}
      <4>1. PICK f : f = SetResult(k, "NULL")
        OBVIOUS
      <4>2. f \in Manager /\ f.st = m.st
        BY <3>3, <4>1, SetResultOK DEF Moved, Result
      <4>3. Moved(rpt_state(f, "DOWNLOADING"), f.st, "DOWNLOADING")
             /\ rpt_state(f, "DOWNLOADING").waitAck /\ rpt_state(f, "DOWNLOADING").changed
        BY <4>2, ReportOK DEF State
      <4> QED BY <3>2, <3>4, <4>1, <4>2, <4>3 DEF Moved
    <3>5. CASE m.st \notin {"IDLE", "DOWNLOADED"}
      BY <3>2, <3>3, <3>5
    <3> QED BY <3>4, <3>5
  <2>2. CASE atiny_fota_manager_execute_update
    <3>1. /\ m.st = "DOWNLOADED"
          /\ m' = rpt_state(m, "UPDATING") \/ m' = rpt_state(SetResult(m, "FAIL"), "IDLE")
      BY <2>2 DEF atiny_fota_manager_execute_update
    <3>2. /\ Moved(rpt_state(m, "UPDATING"), m.st, "UPDATING")
          /\ rpt_state(m, "UPDATING").waitAck /\ rpt_state(m, "UPDATING").changed
      BY <1>1, ReportOK DEF State
    <3>3. /\ Moved(rpt_state(SetResult(m, "FAIL"), "IDLE"), m.st, "IDLE")
          /\ rpt_state(SetResult(m, "FAIL"), "IDLE").waitAck
          /\ rpt_state(SetResult(m, "FAIL"), "IDLE").changed
      BY <1>1, FailedOK DEF State
    <3>4. CASE m' = rpt_state(m, "UPDATING")
      BY <3>1, <3>2, <3>4 DEF Moved
    <3>5. CASE m' = rpt_state(SetResult(m, "FAIL"), "IDLE")
      BY <3>1, <3>3, <3>5 DEF Moved
    <3> QED BY <3>1, <3>4, <3>5
  <2> QED BY <2>1, <2>2 DEF Commands
<1>3. RunStep
  BY <1>1, <1>2 DEF RunStep
<1>4. phase' = phase /\ req' = req
  BY <1>1 DEF Kept
<1> QED BY <1>1, <1>2, <1>3, <1>4 DEF DownloadsEnd

\* The notification of a changed state.
LEMMA NotifyStep ==
  ASSUME FotaInv, Notify
  PROVE  RunStep /\ (DownloadsEnd => DownloadsEnd')
<1>1. /\ phase = "run" /\ m.changed /\ Kept /\ UNCHANGED <<d, fw, req>>
      /\ m \in Manager /\ fw.num \in Nat /\ (req \in Nat \/ req = NoRequest) /\ ~report.flag
      /\ m' = [m EXCEPT !.changed = FALSE, !.notices = @ \cup {"fresh"}]
  BY ManagerFacts DEF Notify, Running, ManagerOnly
<1>2. /\ m' \in Manager /\ m'.st = m.st /\ m'.rpt = m.rpt /\ m'.waitAck = m.waitAck
      /\ "fresh" \in m'.notices
  <2> DEFINE k1 == [m EXCEPT !.changed = FALSE]
  <2>1. k1 \in Manager /\ k1.st = m.st /\ k1.rpt = m.rpt /\ k1.waitAck = m.waitAck
    BY <1>1 DEF Manager
  <2>2. m' = [k1 EXCEPT !.notices = @ \cup {"fresh"}]
    BY <1>1
  <2> HIDE DEF k1
  <2> QED BY <2>1, <2>2 DEF Manager
<1>3. RunStep
  BY <1>1, <1>2 DEF RunStep
<1>4. phase' = phase /\ req' = req
  BY <1>1 DEF Kept
<1> QED BY <1>1, <1>2, <1>3, <1>4 DEF DownloadsEnd

\* A change that nobody is notified of.
LEMMA UnheardStep ==
  ASSUME FotaInv, Unheard
  PROVE  RunStep /\ (DownloadsEnd => DownloadsEnd')
<1>1. /\ phase = "run" /\ m.changed /\ Kept /\ UNCHANGED <<d, fw, req>>
      /\ m \in Manager /\ fw.num \in Nat /\ (req \in Nat \/ req = NoRequest) /\ ~report.flag
      /\ m' = [m EXCEPT !.changed = FALSE, !.lost = TRUE]
  BY ManagerFacts DEF Unheard, Running, ManagerOnly
<1>2. /\ m' \in Manager /\ m'.st = m.st /\ m'.rpt = m.rpt /\ m'.waitAck = m.waitAck /\ m'.lost
  BY <1>1 DEF Manager
<1>3. RunStep
  BY <1>1, <1>2 DEF RunStep
<1>4. phase' = phase /\ req' = req
  BY <1>1 DEF Kept
<1> QED BY <1>1, <1>2, <1>3, <1>4 DEF DownloadsEnd

\* An acknowledgement that changes the manager is of a fresh notification, and
\* there is one only when there is no result to report.
LEMMA AckFacts ==
  ASSUME FotaInv, NEW n \in m.notices, NEW k, k = Answered(n)
  PROVE  /\ k \in Manager /\ k.st = m.st /\ k.rpt = m.rpt /\ k.waitAck = m.waitAck
         /\ k.changed = m.changed /\ k.notices = m.notices \ {n} /\ k.lost = m.lost /\ ~report.flag
<1>1. m \in Manager /\ ~report.flag
  BY ManagerFacts
<1> QED BY <1>1, AnsweredOK DEF Moved

\* An acknowledgement that is not awaited leaves the fresh notification alone
\* while that is waited for.
LEMMA AckIgnoredStep ==
  ASSUME FotaInv, AckIgnored
  PROVE  RunStep /\ (DownloadsEnd => DownloadsEnd')
<1>1. PICK n \in m.notices : ~Awaited(n) /\ m' = Answered(n)
  BY DEF AckIgnored
<1>2. /\ phase = "run" /\ Kept /\ UNCHANGED <<d, fw, req>> /\ fw.num \in Nat
      /\ (req \in Nat \/ req = NoRequest)
  BY ManagerFacts DEF AckIgnored, Running, ManagerOnly
<1>3. /\ m' \in Manager /\ m'.st = m.st /\ m'.rpt = m.rpt /\ m'.waitAck = m.waitAck
      /\ m'.changed = m.changed /\ m'.notices = m.notices \ {n} /\ m'.lost = m.lost /\ ~report.flag
  BY <1>1, AckFacts
<1>4. RunStep
  BY <1>2, <1>3 DEF RunStep
<1>5. phase' = phase /\ req' = req
  BY <1>2 DEF Kept
<1>6. m.waitAck => n # "fresh"
  BY <1>1 DEF Awaited
<1> QED BY <1>3, <1>4, <1>5, <1>6 DEF DownloadsEnd

\* The acknowledgements that end a report.
LEMMA AckReachedStep ==
  ASSUME FotaInv, AckFailed \/ AckReached
  PROVE  RunStep /\ (DownloadsEnd => DownloadsEnd')
<1>1. PICK n \in m.notices :
        /\ Awaited(n) /\ m.st # "UPDATING"
        /\ \/ m' = Acked(set_state(SetResult(Answered(n), "FAIL"), "IDLE"))
           \/ /\ m.rpt \in {"IDLE", "DOWNLOADED"}
              /\ m' = Acked(IF m.st = "DOWNLOADED" /\ m.rpt = "DOWNLOADED"
                            THEN Answered(n) ELSE set_state(Answered(n), m.rpt))
  BY DEF AckFailed, AckReached
<1>2. /\ phase = "run" /\ Kept /\ UNCHANGED <<d, fw, req>> /\ fw.num \in Nat
      /\ (req \in Nat \/ req = NoRequest) /\ m.rpt \in State
  BY ManagerFacts DEF AckFailed, AckReached, Running, ManagerOnly
<1>3. PICK k : /\ k = Answered(n)
  OBVIOUS
<1>4. /\ k \in Manager /\ k.st = m.st /\ k.rpt = m.rpt /\ ~report.flag
  BY <1>3, AckFacts
<1>5. m' \in Manager /\ m'.st = m'.rpt /\ m'.st \in {"IDLE", "DOWNLOADED"} /\ m.waitAck
  <2>1. CASE m' = Acked(set_state(SetResult(k, "FAIL"), "IDLE"))
    <3>1. PICK f : f = SetResult(k, "FAIL")
      OBVIOUS
    <3>2. f \in Manager
      BY <1>4, <3>1, SetResultOK DEF Moved, Result
    <3>3. PICK g : g = set_state(f, "IDLE")
      OBVIOUS
    <3>4. g \in Manager /\ g.st = "IDLE" /\ g.rpt = "IDLE"
      BY <3>2, <3>3, SetStateOK DEF Moved, State
    <3>5. m' = Acked(g)
      BY <2>1, <3>1, <3>3
    <3> QED BY <1>1, <3>4, <3>5, AckedOK DEF Moved, Awaited
  <2>2. CASE /\ m.rpt \in {"IDLE", "DOWNLOADED"}
             /\ m' = Acked(IF m.st = "DOWNLOADED" /\ m.rpt = "DOWNLOADED"
                           THEN k ELSE set_state(k, m.rpt))
    <3>1. PICK g : g = IF m.st = "DOWNLOADED" /\ m.rpt = "DOWNLOADED" THEN k ELSE set_state(k, m.rpt)
      OBVIOUS
    <3>2. Moved(set_state(k, m.rpt), m.rpt, m.rpt)
      BY <1>2, <1>4, SetStateOK
    <3>3. g \in Manager /\ g.st = m.rpt /\ g.rpt = m.rpt
      BY <1>4, <3>1, <3>2 DEF Moved
    <3>4. m' = Acked(g)
      BY <2>2, <3>1
    <3> QED BY <1>1, <2>2, <3>3, <3>4, AckedOK DEF Moved, Awaited
  <2> QED BY <1>1, <1>3, <2>1, <2>2
<1>6. RunStep
  BY <1>2, <1>4, <1>5 DEF RunStep
<1>7. phase' = phase /\ req' = req
  BY <1>2 DEF Kept
<1> QED BY <1>1, <1>5, <1>6, <1>7 DEF DownloadsEnd

\* The download starts, or fails to.
LEMMA AckDownloadingStep ==
  ASSUME FotaInv, AckDownloading
  PROVE  RunStep /\ (Answering /\ DownloadsEnd => DownloadsEnd')
<1>1. PICK n \in m.notices :
        /\ Awaited(n)
        /\ \/ req' = FirstBlock(fw') /\ m' = Acked(set_state(Answered(n), "DOWNLOADING"))
           \/ /\ (IF m.st = "IDLE" THEN "start" ELSE "restart") \in Faults /\ req' = req
              /\ m' = Acked(rpt_state(SetResult(Answered(n), "FAIL"), "IDLE"))
  BY DEF AckDownloading
<1>2. /\ phase = "run" /\ Kept /\ m.st \in {"IDLE", "DOWNLOADED"} /\ fw' = StartFrom(m.uri)
      /\ fw.num \in Nat /\ (req \in Nat \/ req = NoRequest)
  BY ManagerFacts DEF AckDownloading, Running
<1>3. fw'.num \in Nat /\ FirstBlock(fw') \in Nat
  <2>1. fw' = fw \/ fw' = [RecordInit EXCEPT !.uri = m.uri]
    BY <1>2 DEF StartFrom
  <2>2. [RecordInit EXCEPT !.uri = m.uri].num = 0
    BY DEF RecordInit
  <2>3. fw'.num \in Nat
    <3>1. CASE fw' = fw
      BY <1>2, <3>1
    <3>2. CASE fw' = [RecordInit EXCEPT !.uri = m.uri]
      BY <2>2, <3>2
    <3> QED BY <2>1, <3>1, <3>2
  <2> QED BY <2>3 DEF FirstBlock
<1>4. PICK k : k = Answered(n)
  OBVIOUS
<1>5. k \in Manager /\ k.st = m.st /\ k.rpt = m.rpt /\ ~report.flag
  BY <1>4, AckFacts
<1>6. phase' = phase
  BY <1>2 DEF Kept
<1>7. NoRequest \notin Nat
  BY DEF NoRequest
<1>8. CASE req' = FirstBlock(fw') /\ m' = Acked(set_state(k, "DOWNLOADING"))
  <2>1. PICK g : g = set_state(k, "DOWNLOADING")
    OBVIOUS
  <2>2. g \in Manager /\ g.st = "DOWNLOADING" /\ g.rpt = "DOWNLOADING"
    BY <1>5, <2>1, SetStateOK DEF Moved, State
  <2>3. m' \in Manager /\ m'.st = "DOWNLOADING" /\ m'.rpt = "DOWNLOADING" /\ ~m'.waitAck
    BY <1>8, <2>1, <2>2, AckedOK DEF Moved
  <2>4. RunStep
    BY <1>2, <1>3, <1>5, <1>8, <2>3 DEF RunStep
  <2> QED BY <1>3, <1>6, <1>7, <1>8, <2>3, <2>4 DEF DownloadsEnd
<1>9. CASE /\ (IF m.st = "IDLE" THEN "start" ELSE "restart") \in Faults /\ req' = req
           /\ m' = Acked(rpt_state(SetResult(k, "FAIL"), "IDLE"))
  <2>1. PICK g : g = rpt_state(SetResult(k, "FAIL"), "IDLE")
    OBVIOUS
  <2>2. g \in Manager /\ g.st = m.st /\ g.rpt = "IDLE"
    BY <1>5, <2>1, FailedOK DEF Moved, State
  <2>3. m' \in Manager /\ m'.st = m.st /\ m'.rpt = "IDLE"
    BY <1>9, <2>1, <2>2, AckedOK DEF Moved
  <2>4. RunStep
    BY <1>2, <1>3, <1>5, <1>9, <2>3 DEF RunStep
  <2>5. Answering => m.st = "IDLE"
    BY <1>2, <1>9 DEF Answering
  <2> QED BY <1>2, <1>6, <1>9, <2>3, <2>4, <2>5 DEF DownloadsEnd
<1> QED BY <1>1, <1>4, <1>8, <1>9

\* A failure ends the download.
LEMMA FailStep ==
  ASSUME FotaInv, phase = "run", Kept, fw'.num \in Nat, NEW ok,
         req' = NoRequest /\ m' = finish_download(m, ok), req # NoRequest
  PROVE  RunStep /\ (DownloadsEnd => DownloadsEnd')
<1>1. m \in Manager /\ phase' = phase
  BY ManagerFacts DEF Kept
<1>2. CASE ~(m.st = "DOWNLOADING" /\ m.rpt = "DOWNLOADING")
  <2>1. m' = m
    BY <1>1, <1>2, FinishOK
  <2> QED BY <1>1, <1>2, <2>1 DEF RunStep, DownloadsEnd
<1>3. CASE m.st = "DOWNLOADING" /\ m.rpt = "DOWNLOADING"
  <2>1. /\ m' \in Manager /\ m'.st = "DOWNLOADING" /\ m'.rpt \in {"IDLE", "DOWNLOADED"}
        /\ m'.waitAck /\ m'.changed
    BY <1>1, <1>3, FinishOK
  <2>2. ~report.flag
    BY <1>3, ManagerFacts
  <2> QED BY <1>1, <2>1, <2>2 DEF RunStep, DownloadsEnd
<1> QED BY <1>2, <1>3

\* A block arrives, or none does.
LEMMA DownloadStep ==
  ASSUME FotaInv, Download
  PROVE  RunStep /\ (DownloadsEnd => DownloadsEnd')
<1>1. /\ phase = "run" /\ Kept /\ m \in Manager /\ fw.num \in Nat /\ phase' = phase
  BY ManagerFacts DEF Download, NoBlock, firmware_download_reply, Running, Kept
<1>2. CASE NoBlock
  <2>1. /\ req # NoRequest /\ req' = NoRequest /\ m' = finish_download(m, FALSE) /\ fw'.num \in Nat
    BY <1>1, <1>2 DEF NoBlock, Fail
  <2> QED BY <1>1, <2>1, FailStep
<1>3. CASE firmware_download_reply
  <2>1. /\ req \in Pieces /\ fw' = [fw EXCEPT !.inUse = @ \/ req = 0, !.num = req]
        /\ \/ \E ok : req' = NoRequest /\ m' = finish_download(m, ok)
           \/ req' = req + 1 /\ m' = m
    BY <1>3 DEF firmware_download_reply, Fail
  <2>2. req \in Nat /\ req # NoRequest
    BY <2>1 DEF Pieces, NoRequest
  <2>3. fw'.num \in Nat
    BY <1>1, <2>1, <2>2 DEF FotaInv, FotaTypeOK
  <2>4. CASE \E ok : req' = NoRequest /\ m' = finish_download(m, ok)
    BY <1>1, <2>2, <2>3, <2>4, FailStep
  <2>5. CASE req' = req + 1 /\ m' = m
    <3>1. req' \in Nat /\ req' # NoRequest
      BY <2>2, <2>5 DEF NoRequest
    <3> QED BY <1>1, <2>2, <2>3, <2>5, <3>1 DEF RunStep, DownloadsEnd
  <2> QED BY <2>1, <2>4, <2>5
<1> QED BY <1>2, <1>3 DEF Download

-----------------------------------------------------------------------------
(* The steps that arm the boot loader, and the restarts                    *)

\* The result that is reported, and the flag it will be read from.
ResultInv == FlagTrue /\ ResultTrue

\* What a step has to keep.
StepOK ==
  /\ FotaInv' /\ (ResultInv => ResultInv')
  /\ (Answering /\ DownloadsEnd => DownloadsEnd')

\* The sector of the upgrade flags: the part of the boot loader, that of the agent.
SectorType == [boot : BootFlag, app : {"garbage", "none", "token"}]

\* A write of one part of the sector leaves the other one alone.
LEMMA WriteOK ==
  ASSUME sector \in SectorType
  PROVE  /\ \A v \in BootFlag : flag_write("boot", v) =>
              sector' \in SectorType /\ sector'.boot = v /\ sector'.app = sector.app
         /\ \A v \in {"none", "token"} : flag_write("app", v) =>
              sector' \in SectorType /\ sector'.app = v /\ sector'.boot = sector.boot
BY DEF flag_write, SectorType

\* The agent's normal work.
LEMMA RunOK ==
  ASSUME FotaInv,
         Commands \/ Notify \/ Unheard \/ AckIgnored \/ AckFailed \/ AckReached \/ AckDownloading \/ Download
  PROVE  StepOK
<1>1. RunStep /\ (Answering /\ DownloadsEnd => DownloadsEnd')
  BY CommandsStep, NotifyStep, UnheardStep, AckIgnoredStep, AckReachedStep, AckDownloadingStep, DownloadStep
<1>2. FotaInv' /\ (ResultInv => ResultInv')
  BY <1>1, RunStepInv DEF ResultInv
<1> QED BY <1>1, <1>2 DEF StepOK

\* The result of the last upgrade is reported.
LEMMA ReportResultOK ==
  ASSUME FotaInv, atiny_fota_idle_state_report_result
  PROVE  StepOK
<1>1. /\ phase = "run" /\ report.flag /\ report' = [report EXCEPT !.flag = FALSE] /\ m.st = "IDLE"
      /\ UNCHANGED <<d, fw, req, sector, flag, phase, outcome, resets>>
      /\ m \in Manager /\ report \in Report
  BY ManagerFacts DEF atiny_fota_idle_state_report_result, Running, FotaInv, FotaTypeOK
<1>2. ~report'.flag /\ report' \in Report /\ report'.parted = report.parted
  BY <1>1 DEF Report
<1>3. PICK f, k :
        /\ f = SetResult(m, IF report.ok THEN "SUCCESS" ELSE "FAIL")
        /\ k = save_rpt_state(f, IF report.ok THEN "IDLE" ELSE "DOWNLOADED")
        /\ \/ m' = [k EXCEPT !.notices = @ \cup {"fresh"}]
           \/ (IF report.ok THEN "success" ELSE "failure") \in Faults /\ m' = [k EXCEPT !.lost = TRUE]
  BY DEF atiny_fota_idle_state_report_result
<1>4. f \in Manager /\ f.st = "IDLE"
  BY <1>1, <1>3, SetResultOK DEF Moved, Result
<1>5. /\ k \in Manager /\ k.st = "IDLE" /\ k.waitAck
      /\ k.rpt = IF report.ok THEN "IDLE" ELSE "DOWNLOADED"
  BY <1>3, <1>4, SaveOK DEF Moved, State
<1>6. m' \in Manager /\ m'.st = "IDLE" /\ m'.rpt = k.rpt /\ m'.waitAck
  <2>1. CASE m' = [k EXCEPT !.notices = @ \cup {"fresh"}]
    BY <1>5, <2>1 DEF Manager
  <2>2. CASE m' = [k EXCEPT !.lost = TRUE]
    BY <1>5, <2>2 DEF Manager
  <2> QED BY <1>3, <2>1, <2>2
<1>7. FotaInv'
  <2>1. FotaTypeOK'
    BY <1>1, <1>2, <1>6 DEF FotaInv, FotaTypeOK
  <2> QED BY <1>1, <1>2, <1>6, <2>1 DEF FotaInv, PhaseOK, UpdatingArmed, Booting, Starting
<1>8. ResultInv => ResultInv'
  BY <1>1, <1>2 DEF ResultInv, FlagTrue, ResultTrue
<1>9. "fresh" \in m'.notices \/ m'.lost
  BY <1>3, <1>5 DEF Manager
<1>10. Answering /\ DownloadsEnd => DownloadsEnd'
  BY <1>1, <1>5, <1>6, <1>9 DEF DownloadsEnd
<1> QED BY <1>7, <1>8, <1>10 DEF StepOK

\* The update starts, or nobody observes any more.
LEMMA AckUpdatingOK ==
  ASSUME FotaInv, AckUpdating
  PROVE  StepOK
<1>1. PICK n \in m.notices :
        /\ Awaited(n)
        /\ \/ m' = Answered(n) /\ phase' = "activate" /\ outcome' = "none"
           \/ /\ m' = Acked(rpt_state(SetResult(Answered(n), "FAIL"), "DOWNLOADED"))
              /\ UNCHANGED <<phase, outcome>>
  BY DEF AckUpdating
<1>2. /\ phase = "run" /\ m.st = "DOWNLOADED" /\ m.rpt = "UPDATING"
      /\ UNCHANGED <<d, fw, req, sector, flag, report, resets>>
  BY DEF AckUpdating, Running
<1>3. PICK k : k = Answered(n)
  OBVIOUS
<1>4. k \in Manager /\ k.st = "DOWNLOADED" /\ k.rpt = "UPDATING" /\ ~report.flag
  BY <1>2, <1>3, AckFacts
<1>5. CASE m' = k /\ phase' = "activate" /\ outcome' = "none"
  <2>1. FotaTypeOK'
    BY <1>2, <1>4, <1>5 DEF FotaInv, FotaTypeOK, Phases
  <2>2. FotaInv'
    BY <1>2, <1>4, <1>5, <2>1 DEF FotaInv, PhaseOK, UpdatingArmed, Booting, Starting
  <2>3. ResultInv => ResultInv'
    BY <1>2, <1>4, <1>5 DEF ResultInv, FlagTrue, ResultTrue
  <2>4. DownloadsEnd => DownloadsEnd'
    BY <1>2, <1>4, <1>5 DEF DownloadsEnd
  <2> QED BY <2>2, <2>3, <2>4 DEF StepOK
<1>6. CASE /\ m' = Acked(rpt_state(SetResult(k, "FAIL"), "DOWNLOADED"))
           /\ UNCHANGED <<phase, outcome>>
  <2>1. PICK g : g = rpt_state(SetResult(k, "FAIL"), "DOWNLOADED")
    OBVIOUS
  <2>2. g \in Manager /\ g.st = "DOWNLOADED" /\ g.rpt = "DOWNLOADED"
    BY <1>4, <2>1, FailedOK DEF Moved, State
  <2>3. m' \in Manager /\ m'.st = "DOWNLOADED" /\ m'.rpt = "DOWNLOADED"
    BY <1>6, <2>1, <2>2, AckedOK DEF Moved
  <2>4. RunStep
    BY <1>2, <1>4, <1>6, <2>3, ManagerFacts DEF RunStep, Kept
  <2>5. FotaInv' /\ (ResultInv => ResultInv')
    BY <2>4, RunStepInv DEF ResultInv
  <2>6. DownloadsEnd => DownloadsEnd'
    BY <1>2, <2>3 DEF DownloadsEnd
  <2> QED BY <2>5, <2>6 DEF StepOK
<1> QED BY <1>1, <1>3, <1>5, <1>6

\* A write that fails leaves the sector as it was, erased, or half written.
LEMMA FailedWriteOK ==
  ASSUME sector \in SectorType, NEW part \in {"boot", "app"}, NEW value, WriteFails(part, value),
         part = "boot" => value \in BootFlag
  PROVE  /\ sector' \in SectorType
         /\ \/ sector' = sector
            \/ /\ sector'.app = "garbage"
               /\ sector'.boot \in {"BAD", IF part = "boot" THEN value ELSE sector.boot}
               /\ sector'.boot # "BAD" => "half" \in Faults
<1> DEFINE b == IF part = "boot" THEN value ELSE sector.boot
<1>1. b \in BootFlag
  BY DEF SectorType
<1>2. /\ ErasedSector.boot = "BAD" /\ ErasedSector.app = "garbage" /\ ErasedSector \in SectorType
      /\ HalfWritten(b).boot = b /\ HalfWritten(b).app = "garbage" /\ HalfWritten(b) \in SectorType
  BY <1>1 DEF ErasedSector, HalfWritten, SectorType, BootFlag
<1>3. sector' = sector \/ sector' = ErasedSector \/ (sector' = HalfWritten(b) /\ "half" \in Faults)
  BY DEF WriteFails
<1> HIDE DEF b
<1>4. sector' # sector =>
        /\ sector'.app = "garbage" /\ sector'.boot \in {"BAD", b} /\ sector' \in SectorType
        /\ sector'.boot # "BAD" => "half" \in Faults
  BY <1>2, <1>3
<1> QED BY <1>4 DEF b

\* A write that is refused ends the attempt.
LEMMA RefusedOK ==
  ASSUME FotaInv, NEW write, NEW part \in {"boot", "app"}, NEW value, Refused(write, part, value),
         \/ phase = "activate" /\ part = "boot" /\ value = "NEED_UPGRADE"
         \/ phase = "record" /\ part = "app",
         UNCHANGED <<fw, req, report, outcome>>, flag' \in BootFlag
  PROVE  StepOK
<1>1. /\ phase' = "run" /\ m' = Acked(rpt_state(SetResult(m, "FAIL"), "DOWNLOADED"))
      /\ m \in Manager /\ m.st = "DOWNLOADED" /\ m.rpt = "UPDATING" /\ ~report.flag
      /\ WriteFails(part, value) /\ sector \in SectorType
  BY ManagerFacts DEF Refused, FotaInv, FotaTypeOK, SectorType, PhaseOK
<1>2. PICK g : g = rpt_state(SetResult(m, "FAIL"), "DOWNLOADED")
  OBVIOUS
<1>3. g \in Manager /\ g.st = "DOWNLOADED" /\ g.rpt = "DOWNLOADED"
  BY <1>1, <1>2, FailedOK DEF Moved, State
<1>4. m' \in Manager /\ m'.st = "DOWNLOADED" /\ m'.rpt = "DOWNLOADED"
  BY <1>1, <1>2, <1>3, AckedOK DEF Moved
<1>5. /\ sector' \in SectorType
      /\ sector' = sector \/ (sector'.app = "garbage" /\ sector'.boot \in {"BAD", "NEED_UPGRADE"})
  BY <1>1, FailedWriteOK DEF BootFlag, FotaInv, PhaseOK
<1>6. FotaTypeOK'
  BY <1>1, <1>4, <1>5 DEF FotaInv, FotaTypeOK, Phases, SectorType
<1>7. FotaInv'
  BY <1>1, <1>4, <1>6 DEF FotaInv, PhaseOK, UpdatingArmed, Booting, Starting
<1>8. ResultInv => ResultInv'
  BY <1>1, <1>5 DEF ResultInv, FlagTrue, ResultTrue
<1>9. DownloadsEnd => DownloadsEnd'
  BY <1>1, <1>4 DEF DownloadsEnd
<1> QED BY <1>7, <1>8, <1>9 DEF StepOK

\* The two writes of the flag sector.
LEMMA ArmOK ==
  ASSUME FotaInv, Arm
  PROVE  StepOK
<1>1. sector \in SectorType /\ m \in Manager /\ flag \in BootFlag
  BY DEF FotaInv, FotaTypeOK, SectorType
<1>2. CASE active_software
  <2>1. /\ phase = "activate" /\ flag' = "NEED_UPGRADE" /\ UNCHANGED <<d, fw, req, report, outcome, resets>>
        /\ \/ flag_write("boot", "NEED_UPGRADE") /\ phase' = "record" /\ m' = m
           \/ Refused("active", "boot", "NEED_UPGRADE")
    BY <1>2 DEF active_software
  <2>2. CASE flag_write("boot", "NEED_UPGRADE") /\ phase' = "record" /\ m' = m
    <3>1. /\ sector' \in SectorType /\ sector'.boot = "NEED_UPGRADE" /\ sector'.app = sector.app
          /\ m.st = "DOWNLOADED" /\ m.rpt = "UPDATING" /\ ~report.flag
      BY <1>1, <2>1, <2>2, WriteOK, ManagerFacts DEF BootFlag, FotaInv, PhaseOK
    <3>2. FotaTypeOK'
      BY <2>1, <2>2, <3>1 DEF FotaInv, FotaTypeOK, Phases, BootFlag, SectorType
    <3>3. FotaInv'
      BY <2>1, <2>2, <3>1, <3>2 DEF FotaInv, PhaseOK, UpdatingArmed, Booting, Starting
    <3>4. ResultInv => ResultInv'
      BY <2>1, <2>2, <3>1 DEF ResultInv, FlagTrue, ResultTrue
    <3>5. DownloadsEnd => DownloadsEnd'
      BY <2>1, <2>2 DEF DownloadsEnd
    <3> QED BY <3>3, <3>4, <3>5 DEF StepOK
  <2>3. CASE Refused("active", "boot", "NEED_UPGRADE")
    BY <2>1, <2>3, RefusedOK DEF BootFlag
  <2> QED BY <2>1, <2>2, <2>3
<1>3. CASE RecordToken
  <2>1. /\ phase = "record" /\ UNCHANGED <<d, fw, req, flag, report, outcome, resets>>
        /\ \/ flag_write("app", "token") /\ phase' = "run" /\ m' = Acked(set_state(m, "UPDATING"))
           \/ Refused("token", "app", "token")
    BY <1>3 DEF RecordToken
  <2>2. CASE flag_write("app", "token") /\ phase' = "run" /\ m' = Acked(set_state(m, "UPDATING"))
    <3>1. /\ sector' \in SectorType /\ sector'.boot = "NEED_UPGRADE" /\ sector'.app = "token"
          /\ sector.boot = "NEED_UPGRADE"
          /\ m.st = "DOWNLOADED" /\ m.rpt = "UPDATING" /\ ~report.flag
      BY <1>1, <2>1, <2>2, WriteOK, ManagerFacts DEF FotaInv, PhaseOK
    <3>2. sector' = [boot |-> "NEED_UPGRADE", app |-> "token"]
      BY <3>1 DEF SectorType
    <3>3. PICK g : g = set_state(m, "UPDATING")
      OBVIOUS
    <3>4. g \in Manager /\ g.st = "UPDATING" /\ g.rpt = "UPDATING"
      BY <1>1, <3>3, SetStateOK DEF Moved, State
    <3>5. m' \in Manager /\ m'.st = "UPDATING" /\ m'.rpt = "UPDATING"
      BY <2>2, <3>3, <3>4, AckedOK DEF Moved
    <3>6. FotaTypeOK'
      BY <2>1, <2>2, <3>1, <3>5 DEF FotaInv, FotaTypeOK, Phases, SectorType
    <3>7. FotaInv'
      BY <2>1, <2>2, <3>1, <3>2, <3>6 DEF FotaInv, PhaseOK, UpdatingArmed, Booting, Starting
    <3>8. ResultInv => ResultInv'
      BY <2>1, <2>2, <3>1 DEF ResultInv, FlagTrue, ResultTrue
    <3>9. DownloadsEnd => DownloadsEnd'
      BY <2>1, <2>2, <3>1, <3>5 DEF DownloadsEnd
    <3> QED BY <3>7, <3>8, <3>9 DEF StepOK
  <2>3. CASE Refused("token", "app", "token")
    BY <1>1, <2>1, <2>3, RefusedOK
  <2> QED BY <2>1, <2>2, <2>3
<1> QED BY <1>2, <1>3 DEF Arm

\* What is left of the sector when power is lost during a write.
LEMMA TornOK ==
  ASSUME FotaInv, WritesSector, NEW b \in BootWritten \cup {"BAD"},
         sector' = HalfWritten(b)
  PROVE  sector' \in SectorType /\ sector'.boot = b /\ sector'.app = "garbage"
<1>1. sector.boot \in BootFlag
  BY DEF FotaInv, FotaTypeOK
<1>2. b \in BootFlag
  BY <1>1 DEF BootWritten, BootFlag
<1> QED BY <1>2 DEF HalfWritten, SectorType, BootFlag

\* A restart, asked for or not.
LEMMA RestartOK ==
  ASSUME FotaInv, reboot_check \/ PowerLost
  PROVE  StepOK
<1>1. PICK p \in BOOLEAN :
        /\ phase' = "boot" /\ fw' = RecordInit /\ req' = NoRequest /\ flag' = "IDLE" /\ m' = ManagerInit
        /\ report' = [ReportInit EXCEPT !.parted = p] /\ outcome' = outcome
        /\ \/ sector' = sector /\ p = (report.parted \/ phase \in {"copy", "clear"})
           \/ /\ p = (report.parted \/ phase \notin {"init", "activate", "record"})
              /\ WritesSector
              /\ sector' \in {ErasedSector} \cup {HalfWritten(b) : b \in BootWritten}
  <2>1. report.parted \in BOOLEAN
    BY DEF FotaInv, FotaTypeOK, Report
  <2>2. CASE reboot_check
    BY <2>1, <2>2 DEF reboot_check, Restart, Running
  <2>3. CASE PowerLost
    BY <2>1, <2>3 DEF PowerLost, Restart
  <2> QED BY <2>2, <2>3
<1>2. /\ m' \in Manager /\ m'.st = "IDLE" /\ m'.rpt = "IDLE" /\ fw'.num = 0
      /\ report' \in Report /\ ~report'.flag /\ report'.parted = p
  BY <1>1 DEF Manager, ManagerInit, State, RecordInit, Report, ReportInit
<1>3. \/ sector' = sector /\ p = (report.parted \/ phase \in {"copy", "clear"})
      \/ /\ WritesSector /\ p = (report.parted \/ phase \notin {"init", "activate", "record"})
         /\ sector'.boot \in BootWritten \cup {"BAD"} /\ sector'.app = "garbage" /\ sector' \in SectorType
  <2>1. ErasedSector = HalfWritten("BAD")
    BY DEF ErasedSector, HalfWritten
  <2>2. ASSUME WritesSector, NEW b \in BootWritten \cup {"BAD"}, sector' = HalfWritten(b)
        PROVE  sector'.boot \in BootWritten \cup {"BAD"} /\ sector'.app = "garbage" /\ sector' \in SectorType
    BY <2>2, TornOK
  <2> QED BY <1>1, <2>1, <2>2
<1>4. sector' \in SectorType
  BY <1>3 DEF FotaInv, FotaTypeOK, SectorType
<1>5. FotaTypeOK'
  BY <1>1, <1>2, <1>4 DEF FotaInv, FotaTypeOK, Phases, Booting, BootFlag, SectorType
<1>6. FotaInv'
  BY <1>1, <1>2, <1>5 DEF FotaInv, PhaseOK, UpdatingArmed, Booting, Starting
<1>7. ResultInv => ResultInv'
  <2>1. CASE sector' = sector /\ p = (report.parted \/ phase \in {"copy", "clear"})
    BY <1>1, <1>2, <2>1 DEF ResultInv, FlagTrue, ResultTrue
  <2>2. CASE /\ WritesSector /\ p = (report.parted \/ phase \notin {"init", "activate", "record"})
             /\ sector'.boot \in BootWritten \cup {"BAD"} /\ sector'.app = "garbage"
    <3>1. ~p /\ ResultInv => outcome # "SUCCEED"
      BY <2>2 DEF WritesSector, ResultInv, FlagTrue
    <3>2. ~p => sector'.boot # "SUCCEED"
      BY <2>2 DEF BootWritten, FotaInv, PhaseOK
    <3> QED BY <1>1, <1>2, <3>1, <3>2 DEF ResultInv, FlagTrue, ResultTrue
  <2> QED BY <1>3, <2>1, <2>2
<1>8. DownloadsEnd'
  BY <1>1, <1>2 DEF DownloadsEnd
<1> QED BY <1>6, <1>7, <1>8 DEF StepOK

\* The facts that the steps of the boot loader and of the agent's start share.
LEMMA IdleFacts ==
  ASSUME FotaInv, phase \in Booting \cup Starting \cup {"off"}, UNCHANGED <<req, m>>, phase' # "record"
  PROVE  /\ sector \in SectorType /\ flag \in BootFlag /\ m \in Manager /\ report \in Report
         /\ outcome \in {"none", "SUCCEED", "FAILED"}
         /\ m = ManagerInit /\ m.st = "IDLE" /\ m.rpt = "IDLE" /\ req = NoRequest /\ DownloadsEnd'
<1>1. m = ManagerInit /\ m.st = "IDLE" /\ m.rpt = "IDLE" /\ req = NoRequest
  BY DEF FotaInv, PhaseOK, ManagerInit
<1>2. DownloadsEnd'
  BY <1>1 DEF DownloadsEnd
<1> QED BY <1>1, <1>2 DEF FotaInv, FotaTypeOK, SectorType

\* What is left to show of such a step.
LEMMA IdleOK ==
  ASSUME FotaInv, phase \in Booting \cup Starting \cup {"off"}, UNCHANGED <<fw, req, m>>,
         phase' \in Phases \ {"activate", "record"}, sector' \in SectorType, flag' \in BootFlag,
         report' \in Report, outcome' \in {"none", "SUCCEED", "FAILED"},
         phase' = "copy" => sector'.boot = "SUCCEED",
         report'.flag => phase' \in {"clear", "run"},
         ResultInv => ResultInv'
  PROVE  StepOK
<1>1. m = ManagerInit /\ m.st = "IDLE" /\ m.rpt = "IDLE" /\ req = NoRequest /\ DownloadsEnd'
  BY IdleFacts
<1>2. FotaTypeOK'
  BY DEF FotaInv, FotaTypeOK, SectorType
<1>3. FotaInv'
  BY <1>1, <1>2 DEF FotaInv, PhaseOK, UpdatingArmed, Booting, Starting
<1> QED BY <1>1, <1>3 DEF StepOK

\* A failure is recorded, or the flag and the outcome part.
LEMMA FailRecorded ==
  ASSUME FotaInv, recover_set_update_fail, ~report.flag
  PROVE  /\ sector' \in SectorType /\ report' \in Report /\ ~report'.flag
         /\ outcome' = "FAILED" /\ (sector'.boot = "FAILED" \/ report'.parted)
<1>1. sector \in SectorType /\ report \in Report
  BY DEF FotaInv, FotaTypeOK, SectorType
<1>2. CASE flag_write("boot", "FAILED") /\ UNCHANGED report
  BY <1>1, <1>2, WriteOK DEF recover_set_update_fail, BootFlag
<1>3. CASE WriteFails("boot", "FAILED") /\ report' = [report EXCEPT !.parted = TRUE]
  <2>1. sector' \in SectorType
    BY <1>1, <1>3, FailedWriteOK DEF BootFlag
  <2> QED BY <1>1, <1>3, <2>1 DEF Report, recover_set_update_fail
<1> QED BY <1>2, <1>3 DEF recover_set_update_fail

\* The boot loader.
LEMMA BootOK ==
  ASSUME FotaInv, Bootloader
  PROVE  StepOK
<1>1. /\ phase \in {"boot", "copy", "jump", "rollback"} /\ UNCHANGED <<d, fw, req, flag, m, resets>>
  BY DEF Bootloader, recover_image, board_update_copy, board_jump2app, board_rollback_copy
<1>2. /\ sector \in SectorType /\ flag \in BootFlag /\ report \in Report /\ ~report.flag
      /\ outcome \in {"none", "SUCCEED", "FAILED"} /\ phase \in Booting \cup Starting \cup {"off"}
      /\ phase = "copy" => sector.boot = "SUCCEED"
  BY <1>1 DEF FotaInv, FotaTypeOK, PhaseOK, SectorType, Booting
<1>3. /\ {"boot", "copy", "jump", "rollback", "init", "off"} \subseteq Phases \ {"activate", "record"}
  BY DEF Phases, Booting, Starting
<1>4. CASE recover_image
  <2>1. CASE sector.boot = "NEED_UPGRADE"
    <3>1. /\ report' = [report EXCEPT !.parted = FALSE]
          /\ \/ flag_write("boot", "SUCCEED") /\ phase' = "copy" /\ outcome' = outcome
             \/ flag_write("boot", "FAILED") /\ phase' = "jump" /\ outcome' = "FAILED"
      BY <1>4, <2>1 DEF recover_image
    <3>2. report' \in Report /\ ~report'.flag
      BY <1>2, <3>1 DEF Report
    <3>3. /\ sector' \in SectorType
          /\ \/ sector'.boot = "SUCCEED" /\ phase' = "copy" /\ outcome' = outcome
             \/ sector'.boot = "FAILED" /\ phase' = "jump" /\ outcome' = "FAILED"
      BY <1>2, <3>1, WriteOK DEF BootFlag
    <3>4. ResultInv'
      BY <3>2, <3>3 DEF ResultInv, FlagTrue, ResultTrue
    <3> QED BY <1>1, <1>2, <1>3, <3>2, <3>3, <3>4, IdleOK
  <2>2. CASE sector.boot # "NEED_UPGRADE"
    <3>1. phase = "boot" /\ phase' = "jump" /\ UNCHANGED <<sector, report, outcome>>
      BY <1>4, <2>2 DEF recover_image
    <3>2. ResultInv => ResultInv'
      BY <3>1 DEF ResultInv, FlagTrue, ResultTrue
    <3> QED BY <1>1, <1>2, <1>3, <3>1, <3>2, IdleOK
  <2> QED BY <2>1, <2>2
<1>5. ASSUME recover_set_update_fail, phase' \in {"jump", "rollback"}
      PROVE  StepOK
  <2>1. /\ sector' \in SectorType /\ report' \in Report /\ ~report'.flag
        /\ outcome' = "FAILED" /\ (sector'.boot = "FAILED" \/ report'.parted)
    BY <1>2, <1>5, FailRecorded
  <2>2. ResultInv'
    BY <1>5, <2>1 DEF ResultInv, FlagTrue, ResultTrue
  <2> QED BY <1>1, <1>2, <1>3, <1>5, <2>1, <2>2, IdleOK
<1>6. CASE board_update_copy
  <2>1. phase = "copy" /\ phase' = "jump"
    BY <1>6 DEF board_update_copy
  <2>2. CASE outcome' = "SUCCEED" /\ UNCHANGED <<sector, report>>
    <3>1. ResultInv => ResultInv'
      BY <1>2, <2>1, <2>2 DEF ResultInv, FlagTrue, ResultTrue
    <3> QED BY <1>1, <1>2, <1>3, <2>1, <2>2, <3>1, IdleOK
  <2> QED BY <1>5, <1>6, <2>1, <2>2 DEF board_update_copy
<1>7. CASE board_jump2app
  <2>1. CASE phase = "jump" /\ phase' = "init" /\ UNCHANGED <<sector, outcome, report>>
    <3>1. ResultInv => ResultInv'
      BY <2>1 DEF ResultInv, FlagTrue, ResultTrue
    <3> QED BY <1>1, <1>2, <1>3, <2>1, <3>1, IdleOK
  <2> QED BY <1>5, <1>7, <2>1 DEF board_jump2app
<1>8. CASE board_rollback_copy
  <2>1. phase = "rollback" /\ phase' \in {"init", "off"} /\ UNCHANGED <<sector, outcome, report>>
    BY <1>8 DEF board_rollback_copy
  <2>2. ResultInv => ResultInv'
    BY <2>1 DEF ResultInv, FlagTrue, ResultTrue
  <2> QED BY <1>1, <1>2, <1>3, <2>1, <2>2, IdleOK
<1> QED BY <1>4, <1>6, <1>7, <1>8 DEF Bootloader

\* The three steps of the agent's start.
LEMMA StartOK ==
  ASSUME FotaInv, Start
  PROVE  StepOK
<1>1. phase \in {"init", "consume", "clear", "drop"} /\ UNCHANGED <<d, fw, req, m, outcome, resets>>
  BY DEF Start, flag_upgrade_init, int_report_result, ClearToken
<1>2. /\ sector \in SectorType /\ flag \in BootFlag /\ report \in Report
      /\ report.flag => phase = "clear"
      /\ outcome \in {"none", "SUCCEED", "FAILED"} /\ phase \in Booting \cup Starting \cup {"off"}
  BY <1>1 DEF FotaInv, FotaTypeOK, PhaseOK, SectorType, Starting
<1>3. {"consume", "clear", "drop", "run", "off"} \subseteq Phases \ {"activate", "record"}
  BY DEF Phases, Booting, Starting
<1>4. CASE flag_upgrade_init
  <2>1. /\ phase = "init" /\ UNCHANGED <<report, outcome>> /\ ~report.flag
        /\ sector' \in SectorType /\ flag' \in BootFlag /\ phase' \in {"consume", "off"}
        /\ phase' = "consume" => flag' = sector'.boot
        /\ \/ sector.boot = "BAD" /\ sector'.boot \in {"BAD", "IDLE"}
           \/ sector' = sector
    <3>1. flag_write("boot", "IDLE") => sector'.boot = "IDLE" /\ sector' \in SectorType
      BY <1>2, WriteOK DEF BootFlag
    <3>2. WriteFails("boot", "IDLE") =>
            sector' \in SectorType /\ (sector' = sector \/ sector'.boot \in {"BAD", "IDLE"})
      BY <1>2, FailedWriteOK DEF BootFlag
    <3>3. sector.boot \in BootFlag /\ "IDLE" \in BootFlag /\ phase = "init"
      BY <1>2, <1>4 DEF SectorType, BootFlag, flag_upgrade_init
    <3>4. CASE sector.boot = "BAD" /\ phase' = "consume" /\ flag' = "IDLE" /\ flag_write("boot", "IDLE")
      BY <1>2, <1>4, <3>1, <3>3, <3>4 DEF flag_upgrade_init
    <3>5. CASE sector.boot # "BAD" /\ phase' = "consume" /\ flag' = sector.boot /\ UNCHANGED sector
      BY <1>2, <1>4, <3>3, <3>5 DEF flag_upgrade_init
    <3>6. CASE /\ phase' = "off" /\ flag' = "IDLE"
               /\ IF sector.boot = "BAD" THEN WriteFails("boot", "IDLE") ELSE UNCHANGED sector
      BY <1>2, <1>4, <3>2, <3>3, <3>6 DEF flag_upgrade_init
    <3> QED BY <1>4, <3>4, <3>5, <3>6 DEF flag_upgrade_init
  <2>2. ResultInv => ResultInv'
    BY <2>1 DEF ResultInv, FlagTrue, ResultTrue
  <2> QED BY <1>1, <1>2, <1>3, <2>1, <2>2, IdleOK
<1>5. CASE int_report_result
  <2>1. phase = "consume" /\ ~report.flag
    BY <1>2, <1>5 DEF int_report_result
  <2>2. CASE /\ UNCHANGED <<report, flag, sector>>
             /\ phase' = "drop" \/ (phase' = "run" /\ sector.app = "none")
    <3>1. ResultInv => ResultInv'
      BY <1>1, <2>1, <2>2 DEF ResultInv, FlagTrue, ResultTrue
    <3> QED BY <1>1, <1>2, <1>3, <2>1, <2>2, <3>1, IdleOK
  <2>3. CASE /\ sector.app # "none" /\ phase' = "clear" /\ flag' = "IDLE"
             /\ flag_write("boot", "IDLE")
             /\ report' = [report EXCEPT !.flag = TRUE, !.ok = flag = "SUCCEED"]
    <3>1. /\ sector'.boot = "IDLE" /\ sector'.app = sector.app /\ sector' \in SectorType
      BY <1>2, <2>3, WriteOK DEF BootFlag
    <3>2. /\ report' \in Report /\ report'.ok = (flag = "SUCCEED") /\ report'.parted = report.parted
      BY <1>2, <2>3 DEF Report
    <3>3. ResultInv => ResultInv'
      BY <1>1, <2>1, <2>3, <3>1, <3>2 DEF ResultInv, FlagTrue, ResultTrue
    <3> QED BY <1>1, <1>2, <1>3, <2>3, <3>1, <3>2, <3>3, IdleOK DEF BootFlag
  <2>4. CASE /\ phase' = "clear" /\ flag' = "IDLE" /\ WriteFails("boot", "IDLE")
             /\ report' = [flag |-> TRUE, ok |-> FALSE, parted |-> TRUE]
    <3>1. sector' \in SectorType
      BY <1>2, <2>4, FailedWriteOK DEF BootFlag
    <3>2. report' \in Report /\ report'.parted
      BY <2>4 DEF Report
    <3>3. ResultInv'
      BY <2>4, <3>2 DEF ResultInv, FlagTrue, ResultTrue
    <3> QED BY <1>1, <1>2, <1>3, <2>4, <3>1, <3>2, <3>3, IdleOK DEF BootFlag
  <2> QED BY <1>5, <2>2, <2>3, <2>4 DEF int_report_result
<1>6. CASE ClearToken
  <2>1. /\ flag' = flag /\ (report.flag => phase' = "run") /\ phase' \in {"run", "off"}
    BY <1>2, <1>6 DEF ClearToken
  <2>2. CASE flag_write("app", "none") /\ UNCHANGED report
    <3>1. sector'.app = "none" /\ sector'.boot = sector.boot /\ sector' \in SectorType
      BY <1>2, <2>2, WriteOK
    <3>2. ResultInv => ResultInv'
      BY <1>1, <2>1, <2>2, <3>1 DEF ResultInv, FlagTrue, ResultTrue
    <3> QED BY <1>1, <1>2, <1>3, <2>1, <2>2, <3>1, <3>2, IdleOK
  <2>3. CASE WriteFails("app", "none") /\ report' = [report EXCEPT !.parted = TRUE]
    <3>1. sector' \in SectorType
      BY <1>2, <2>3, FailedWriteOK
    <3>2. report' \in Report /\ report'.parted /\ report'.flag = report.flag
      BY <1>2, <2>3 DEF Report
    <3>3. ResultInv'
      BY <2>1, <3>2 DEF ResultInv, FlagTrue, ResultTrue
    <3> QED BY <1>1, <1>2, <1>3, <2>1, <3>1, <3>2, <3>3, IdleOK
  <2> QED BY <1>6, <2>2, <2>3 DEF ClearToken
<1> QED BY <1>4, <1>5, <1>6 DEF Start

\* Every step.
LEMMA FotaStep ==
  ASSUME FotaInv, [FotaNext]_vars
  PROVE  StepOK
<1>1. CASE FotaNext
  BY <1>1, RunOK, ReportResultOK, AckUpdatingOK, ArmOK, RestartOK, BootOK, StartOK DEF FotaNext, Acks
<1>2. CASE UNCHANGED vars
  BY <1>2 DEF vars, StepOK, FotaInv, FotaTypeOK, PhaseOK, UpdatingArmed, ResultInv, FlagTrue,
              ResultTrue, DownloadsEnd
<1> QED BY <1>1, <1>2

\* The agent's first start, with an erased sector or a fresh one.
LEMMA FotaInitInv ==
  ASSUME FotaInit
  PROVE  FotaInv /\ ResultInv /\ DownloadsEnd
<1>1. /\ m = ManagerInit /\ req = NoRequest /\ phase = "init" /\ flag = "IDLE" /\ outcome = "none"
      /\ report = ReportInit /\ fw = RecordInit
      /\ sector \in {ErasedSector, [boot |-> "IDLE", app |-> "none"]}
  BY DEF FotaInit
<1>2. /\ m \in Manager /\ m.st = "IDLE" /\ m.rpt = "IDLE" /\ fw.num = 0
      /\ sector \in SectorType /\ sector.boot \in {"BAD", "IDLE"}
      /\ report \in Report /\ ~report.flag
  BY <1>1 DEF Manager, ManagerInit, State, RecordInit, ErasedSector, SectorType, BootFlag, Report,
              ReportInit
<1>3. FotaTypeOK
  BY <1>1, <1>2 DEF FotaTypeOK, Phases, Starting, BootFlag, SectorType
<1>4. PhaseOK /\ UpdatingArmed
  BY <1>1, <1>2 DEF PhaseOK, UpdatingArmed
<1>5. ResultInv /\ DownloadsEnd
  BY <1>1, <1>2 DEF ResultInv, FlagTrue, ResultTrue, DownloadsEnd
<1> QED BY <1>3, <1>4, <1>5 DEF FotaInv

-----------------------------------------------------------------------------
(* Numbers                                                                 *)

\* Division with a remainder.
LEMMA DivMod ==
  ASSUME NEW a \in Nat, NEW b \in Nat \ {0}
  PROVE  /\ a \div b \in Nat /\ a % b \in 0 .. b - 1
         /\ a = (a \div b) * b + (a % b)
BY SMT

\* A larger multiple is larger by one divisor at least.
LEMMA NextMultiple ==
  ASSUME NEW b \in Nat \ {0}, NEW p \in Nat, NEW q \in Nat, p < q
  PROVE  p * b \in Nat /\ q * b \in Nat /\ p * b + b <= q * b
<1>1. PICK k \in Nat : q = p + 1 + k
  <2>1. q - p - 1 \in Nat /\ q = p + 1 + (q - p - 1)
    OBVIOUS
  <2> QED BY <2>1
<1>2. q * b = p * b + b + k * b /\ k * b \in Nat /\ p * b \in Nat
  BY <1>1
<1>3. PICK x \in Nat, y \in Nat : x = p * b /\ y = k * b
  BY <1>2
<1> QED BY <1>2, <1>3

\* A multiple has remainder 0.
LEMMA MultipleMod ==
  ASSUME NEW b \in Nat \ {0}, NEW q \in Nat
  PROVE  q * b \in Nat /\ (q * b) % b = 0 /\ (q * b) \div b = q
<1>1. q * b \in Nat
  OBVIOUS
<1>2. PICK p \in Nat, r \in 0 .. b - 1 : q * b = p * b + r /\ r = (q * b) % b /\ p = (q * b) \div b
  BY <1>1, DivMod
<1>3. ~(p < q)
  <2>1. SUFFICES ASSUME p < q PROVE FALSE
    OBVIOUS
  <2>2. p * b \in Nat /\ p * b + b <= q * b
    BY <2>1, NextMultiple
  <2>3. PICK x \in Nat, y \in Nat : x = p * b /\ y = q * b
    BY <1>1, <2>2
  <2> QED BY <1>2, <2>2, <2>3
<1>4. ~(q < p)
  <2>1. SUFFICES ASSUME q < p PROVE FALSE
    OBVIOUS
  <2>2. p * b \in Nat /\ q * b + b <= p * b
    BY <2>1, NextMultiple
  <2>3. PICK x \in Nat, y \in Nat : x = p * b /\ y = q * b
    BY <1>1, <2>2
  <2> QED BY <1>2, <2>2, <2>3
<1>5. PICK x \in Nat : x = q * b
  BY <1>1
<1>6. p = q
  BY <1>3, <1>4
<1> QED BY <1>1, <1>2, <1>5, <1>6

\* A number with remainder 0 is a multiple.
LEMMA ModMultiple ==
  ASSUME NEW b \in Nat \ {0}, NEW x \in Nat, x % b = 0
  PROVE  \E q \in Nat : x = q * b
<1>1. PICK q \in Nat : q = x \div b
  BY DivMod
<1>2. x = q * b + 0
  BY <1>1, DivMod
<1>3. q * b \in Nat
  OBVIOUS
<1>4. x = q * b
  BY <1>2, <1>3
<1> QED BY <1>4

\* Blocks begin at the multiples of their size, and two do not overlap in part.
LEMMA BlocksApart ==
  ASSUME NEW x \in Nat, NEW y \in Nat, x % BLOCK = 0, y % BLOCK = 0, x < y
  PROVE  x + BLOCK <= y
<1>1. PICK p \in Nat : x = p * BLOCK
  BY PackageAssumption, ModMultiple
<1>2. PICK q \in Nat : y = q * BLOCK
  BY PackageAssumption, ModMultiple
<1>3. p < q
  <2>1. SUFFICES ASSUME ~(p < q) PROVE FALSE
    OBVIOUS
  <2>2. CASE p = q
    BY <1>1, <1>2, <2>2
  <2>3. CASE q < p
    <3>1. q * BLOCK + BLOCK <= p * BLOCK
      BY <2>3, NextMultiple, PackageAssumption
    <3> QED BY <1>1, <1>2, <3>1, PackageAssumption
  <2> QED BY <2>1, <2>2, <2>3
<1>4. p * BLOCK + BLOCK <= q * BLOCK
  BY <1>3, NextMultiple, PackageAssumption
<1> QED BY <1>1, <1>2, <1>4

\* Where a block that is not at its beginning begins.
LEMMA BlockBegin ==
  ASSUME NEW x \in Nat
  PROVE  /\ (x \div BLOCK) * BLOCK \in Nat /\ ((x \div BLOCK) * BLOCK) % BLOCK = 0
         /\ x % BLOCK \in 0 .. BLOCK - 1 /\ x = (x \div BLOCK) * BLOCK + (x % BLOCK)
<1>1. x \div BLOCK \in Nat /\ x % BLOCK \in 0 .. BLOCK - 1
      /\ x = (x \div BLOCK) * BLOCK + (x % BLOCK)
  BY DivMod, PackageAssumption
<1>2. \A q \in Nat : q * BLOCK \in Nat /\ (q * BLOCK) % BLOCK = 0
  BY MultipleMod, PackageAssumption
<1>3. (x \div BLOCK) * BLOCK \in Nat /\ ((x \div BLOCK) * BLOCK) % BLOCK = 0
  BY <1>1, <1>2, Zenon
<1> QED BY <1>1, <1>3

\* A place within two blocks, at the end of the first perhaps, makes them one.
LEMMA SameBlock ==
  ASSUME NEW x \in Nat, NEW y \in Nat, x % BLOCK = 0, y % BLOCK = 0,
         NEW o \in Nat, x < o, o <= x + BLOCK, y < o, o < y + BLOCK
  PROVE  x = y
<1>1. ~(x < y)
  <2>1. x < y => x + BLOCK <= y
    BY BlocksApart
  <2> QED BY <2>1, PackageAssumption
<1>2. ~(y < x)
  <2>1. y < x => y + BLOCK <= x
    BY BlocksApart
  <2> QED BY <2>1, PackageAssumption
<1> QED BY <1>1, <1>2

\* Adding whole blocks keeps the alignment.
LEMMA BlocksOn ==
  ASSUME NEW x \in Nat, x % BLOCK = 0, NEW k \in Nat
  PROVE  x + k * BLOCK \in Nat /\ (x + k * BLOCK) % BLOCK = 0
<1>1. PICK p \in Nat : x = p * BLOCK
  BY PackageAssumption, ModMultiple
<1>2. x + k * BLOCK = (p + k) * BLOCK /\ p + k \in Nat
  BY <1>1, PackageAssumption
<1>3. PICK q \in Nat : q = p + k
  BY <1>2
<1>4. q * BLOCK \in Nat /\ (q * BLOCK) % BLOCK = 0
  BY MultipleMod, PackageAssumption
<1> QED BY <1>2, <1>3, <1>4

\* The lesser of two numbers.
LEMMA MinOfTwo ==
  ASSUME NEW a \in Nat, NEW b \in Nat
  PROVE  Min({a, b}) = IF a <= b THEN a ELSE b
<1> DEFINE n == IF a <= b THEN a ELSE b
<1>1. n \in {a, b} /\ \A y \in {a, b} : n <= y
  OBVIOUS
<1>2. \A x \in {a, b} : (\A y \in {a, b} : x <= y) => x = n
  OBVIOUS
<1>3. Min({a, b}) \in {a, b} /\ \A y \in {a, b} : Min({a, b}) <= y
  BY <1>1 DEF Min
<1> QED BY <1>2, <1>3

-----------------------------------------------------------------------------
(* The package device                                                      *)

\* What a place of the flash holds: a unit of a package, or nothing.
Cell == (Packages \cup {NoPackage}) \X Nat
\* The running checksum.
Checksum == [set : BOOLEAN, at : Nat, data : Seq(Cell)]
\* The record of the device.
Device == [flash : [Area -> Cell], head : Packages \cup {NoPackage}, sum : Checksum,
           held : BOOLEAN, at : Nat, data : Seq(Cell), left : Nat, ok : BOOLEAN]

\* The fields of the record, and its sizes.
LEMMA DeviceFields ==
  ASSUME NEW v \in Device
  PROVE  /\ v.flash \in [Area -> Cell] /\ v.head \in Packages \cup {NoPackage}
         /\ v.sum \in Checksum /\ v.held \in BOOLEAN /\ v.at \in Nat /\ v.data \in Seq(Cell)
         /\ v.left \in Nat /\ v.ok \in BOOLEAN /\ Len(v.data) \in Nat
         /\ v.data # <<>> <=> Len(v.data) > 0
<1>1. /\ v.flash \in [Area -> Cell] /\ v.head \in Packages \cup {NoPackage}
      /\ v.sum \in Checksum /\ v.held \in BOOLEAN /\ v.at \in Nat /\ v.data \in Seq(Cell)
      /\ v.left \in Nat /\ v.ok \in BOOLEAN
  BY DEF Device
<1>2. Len(v.data) \in Nat /\ (v.data # <<>> => Len(v.data) \in Nat \ {0}) /\ Len(<<>>) = 0
  BY <1>1, EmptySeq, LenProperties
<1> QED BY <1>1, <1>2

\* An erased place is one of the flash's.
LEMMA ErasedCell == Erased \in Cell
BY DEF Erased, Cell

\* The places i of a run of n from at.
Within(i, at, n) == at <= i /\ i < at + n

\* Units put somewhere are there, and nothing else changes.
LEMMA PutOK ==
  ASSUME NEW f \in [Area -> Cell], NEW at \in Nat, NEW u \in Seq(Cell)
  PROVE  /\ Put(f, at, u) \in [Area -> Cell]
         /\ \A i \in Area :
              Put(f, at, u)[i] = IF Within(i, at, Len(u)) THEN u[i - at + 1] ELSE f[i]
<1>1. Len(u) \in Nat /\ \A k \in 1 .. Len(u) : u[k] \in Cell
  BY LenProperties, ElementOfSeq
<1>2. Area \subseteq Nat /\ DOMAIN f = Area
  BY PackageAssumption DEF Area
<1>3. \A i \in Area : i \in at .. at + Len(u) - 1 <=> Within(i, at, Len(u))
  BY <1>1, <1>2 DEF Within
<1>4. \A i \in Area : Within(i, at, Len(u)) => i - at + 1 \in 1 .. Len(u)
  BY <1>1, <1>2 DEF Within
<1>5. Put(f, at, u) = [i \in Area |-> IF Within(i, at, Len(u)) THEN u[i - at + 1] ELSE f[i]]
  BY <1>2, <1>3 DEF Put
<1>6. \A i \in Area : (IF Within(i, at, Len(u)) THEN u[i - at + 1] ELSE f[i]) \in Cell
  BY <1>1, <1>4
<1> QED BY <1>5, <1>6

\* As many erased places as units.
LEMMA BlankOK ==
  ASSUME NEW u \in Seq(Cell)
  PROVE  /\ [k \in DOMAIN u |-> Erased] \in Seq(Cell)
         /\ Len([k \in DOMAIN u |-> Erased]) = Len(u)
<1>1. DOMAIN u = 1 .. Len(u) /\ Len(u) \in Nat
  BY LenProperties
<1>2. [k \in 1 .. Len(u) |-> Erased] \in Seq(Cell)
  BY <1>1, ErasedCell
<1>3. Len([k \in 1 .. Len(u) |-> Erased]) = Len(u)
  BY <1>1
<1> QED BY <1>1, <1>2, <1>3

\* w differs from v in the flash and in how writes went.
SameRam(v, w) ==
  /\ w.head = v.head /\ w.sum = v.sum /\ w.held = v.held /\ w.at = v.at /\ w.data = v.data

\* w is v after a write of u at a place, which changes that place only, and to u
\* if it succeeds.
WrittenAt(v, at, u, w) ==
  /\ w \in Device /\ SameRam(v, w)
  /\ \A i \in Area : ~Within(i, at, Len(u)) => w.flash[i] = v.flash[i]
  /\ v.left > 0 =>
       /\ w.ok = v.ok
       /\ \A i \in Area : Within(i, at, Len(u)) => w.flash[i] = u[i - at + 1]
  /\ ~(v.left > 0) => ~w.ok

\* That is what pack_write_data does.
LEMMA WriteData ==
  ASSUME NEW v \in Device, NEW at \in Nat, NEW u \in Seq(Cell),
         NEW w, w = pack_write_data(v, at, u)
  PROVE  WrittenAt(v, at, u, w)
<1>1. v.flash \in [Area -> Cell] /\ v.left \in Nat
  BY DeviceFields
<1>2. CASE v.left > 0
  <2> DEFINE f == Put(v.flash, at, u)
  <2>1. w = [v EXCEPT !.flash = f, !.left = @ - 1]
    BY <1>2 DEF pack_write_data
  <2>2. f \in [Area -> Cell] /\ v.left - 1 \in Nat
    BY <1>1, <1>2, PutOK
  <2>3. \A i \in Area : f[i] = IF Within(i, at, Len(u)) THEN u[i - at + 1] ELSE v.flash[i]
    BY <1>1, PutOK
  <2> HIDE DEF f
  <2>4. /\ w \in Device /\ w.flash = f /\ w.ok = v.ok /\ w.head = v.head /\ w.sum = v.sum
        /\ w.held = v.held /\ w.at = v.at /\ w.data = v.data
    BY <2>1, <2>2 DEF Device
  <2> QED BY <1>2, <2>3, <2>4 DEF SameRam, WrittenAt
<1>3. CASE ~(v.left > 0)
  <2> DEFINE b == [k \in DOMAIN u |-> Erased]
             f == Put(v.flash, at, b)
  <2>1. w = [v EXCEPT !.flash = f, !.ok = FALSE]
    BY <1>3 DEF pack_write_data
  <2>2. b \in Seq(Cell) /\ Len(b) = Len(u)
    BY BlankOK
  <2> HIDE DEF b
  <2>3. /\ f \in [Area -> Cell]
        /\ \A i \in Area : f[i] = IF Within(i, at, Len(b)) THEN b[i - at + 1] ELSE v.flash[i]
    BY <1>1, <2>2, PutOK
  <2> HIDE DEF f
  <2>4. /\ w \in Device /\ w.flash = f /\ w.ok = FALSE /\ w.head = v.head /\ w.sum = v.sum
        /\ w.held = v.held /\ w.at = v.at /\ w.data = v.data
    BY <2>1, <2>3 DEF Device
  <2> QED BY <1>3, <2>2, <2>3, <2>4 DEF SameRam, WrittenAt
<1> QED BY <1>2, <1>3

\* What is read from the flash is what it holds there.
LEMMA ReadOK ==
  ASSUME NEW v \in Device, NEW at \in Nat, NEW n \in Nat, at + n <= TOTAL + BLOCK,
         NEW u, u = ReadFlash(v, at, n)
  PROVE  u \in Seq(Cell) /\ Len(u) = n /\ \A k \in 1 .. n : u[k] = v.flash[at + k - 1]
<1>1. v.flash \in [Area -> Cell]
  BY DeviceFields
<1>2. \A k \in 1 .. n : at + k - 1 \in Area
  BY PackageAssumption DEF Area
<1>3. \A k \in 1 .. n : v.flash[at + k - 1] \in Cell
  BY <1>1, <1>2
<1>4. u = [k \in 1 .. n |-> v.flash[at + k - 1]]
  BY DEF ReadFlash
<1>5. [k \in 1 .. n |-> v.flash[at + k - 1]] \in Seq(Cell)
  BY <1>3
<1> QED BY <1>4, <1>5

\* The software's units that come with piece r begin and end at.
Begin(r) == IF r = 0 THEN 0 ELSE r * PIECE - HEAD
End(r) == Length(r) - HEAD

\* The block at x begins in one piece and ends in a later one.
Shared(x) == x % BLOCK = 0 /\ \E r \in Pieces : x < End(r) /\ End(r) < x + BLOCK

\* What the image will be once the block under construction is written.
Image(v, i) == IF v.held /\ Within(i, v.at, Len(v.data)) THEN v.data[i - v.at + 1] ELSE v.flash[i]

\* The block that was stored last is one that two pieces share, and it is in the
\* flash unless it is still held.
DeviceOK(v) ==
  /\ v \in Device
  /\ v.data # <<>> => Len(v.data) <= BLOCK /\ Shared(v.at)
  /\ v.held => v.data # <<>>
  /\ ~v.held => \A i \in Area : Within(i, v.at, Len(v.data)) => v.flash[i] = v.data[i - v.at + 1]

\* A piece begins where the one before it ends, and no piece ends within another.
LEMMA PieceBounds ==
  ASSUME NEW r \in Pieces
  PROVE  /\ r \in Nat /\ Begin(r) \in Nat /\ End(r) \in Nat /\ Begin(r) <= End(r)
         /\ Length(r) \in Nat /\ r * PIECE \in Nat /\ r * PIECE < Length(r)
         /\ End(r) <= TOTAL - HEAD /\ Length(r) <= TOTAL
         /\ r > 0 => /\ r - 1 \in Pieces /\ Length(r - 1) = r * PIECE /\ PIECE <= r * PIECE
                     /\ Begin(r) = End(r - 1) /\ Begin(r) < End(r) /\ r * PIECE <= TOTAL
         /\ \A b \in Pieces : End(b) <= Begin(r) \/ End(r) <= End(b)
<1>1. PIECE \in Nat \ {0} /\ HEAD \in Nat \ {0} /\ TOTAL \in Nat /\ HEAD < TOTAL /\ HEAD <= PIECE
  BY PackageAssumption, FotaAssumption
<1> DEFINE n == (TOTAL - 1) \div PIECE
<1>2. n \in Nat /\ n * PIECE \in Nat /\ n * PIECE <= TOTAL - 1
  <2>1. TOTAL - 1 \in Nat
    BY <1>1
  <2>2. n \in Nat /\ (TOTAL - 1) % PIECE \in 0 .. PIECE - 1
        /\ TOTAL - 1 = n * PIECE + ((TOTAL - 1) % PIECE)
    BY <1>1, <2>1, DivMod
  <2> HIDE DEF n
  <2>3. n * PIECE \in Nat
    BY <1>1, <2>2
  <2> QED BY <1>1, <2>2, <2>3
<1>3. Pieces = 0 .. n
  BY DEF Pieces
<1> HIDE DEF n
<1>4. ASSUME NEW b \in Pieces
      PROVE  /\ b \in Nat /\ b * PIECE \in Nat /\ b * PIECE <= TOTAL - 1
             /\ (b + 1) * PIECE = b * PIECE + PIECE
             /\ Length(b) = IF TOTAL <= b * PIECE + PIECE THEN TOTAL ELSE b * PIECE + PIECE
  <2>1. b \in Nat /\ b <= n
    BY <1>2, <1>3
  <2>2. b * PIECE \in Nat /\ (b + 1) * PIECE = b * PIECE + PIECE
    BY <1>1, <2>1
  <2>3. b * PIECE <= n * PIECE
    <3>1. CASE b = n
      BY <1>2, <3>1
    <3>2. CASE b < n
      <4>1. b * PIECE + PIECE <= n * PIECE
        BY <1>1, <1>2, <2>1, <3>2, NextMultiple
      <4> QED BY <1>1, <1>2, <2>2, <4>1
    <3> QED BY <1>2, <2>1, <3>1, <3>2
  <2>4. PICK x \in Nat : x = b * PIECE
    BY <2>2
  <2>5. (b + 1) * PIECE = x + PIECE /\ x + PIECE \in Nat
    BY <1>1, <2>2, <2>4
  <2>6. Length(b) = IF TOTAL <= x + PIECE THEN TOTAL ELSE x + PIECE
    BY <1>1, <2>5, MinOfTwo DEF Length
  <2>7. x <= TOTAL - 1
    BY <1>1, <1>2, <2>3, <2>4
  <2> QED BY <2>1, <2>2, <2>4, <2>6, <2>7
<1>5. /\ r \in Nat /\ r * PIECE \in Nat /\ r * PIECE <= TOTAL - 1
      /\ Length(r) = IF TOTAL <= r * PIECE + PIECE THEN TOTAL ELSE r * PIECE + PIECE
  BY <1>4
<1>6. PICK x \in Nat : x = r * PIECE
  BY <1>5
<1>7. /\ Length(r) \in Nat /\ x < Length(r) /\ Length(r) <= TOTAL /\ HEAD <= Length(r)
  BY <1>1, <1>5, <1>6
<1>8. End(r) \in Nat /\ End(r) <= TOTAL - HEAD
  BY <1>1, <1>7 DEF End
<1>9. r > 0 => /\ r - 1 \in Pieces /\ Length(r - 1) = x /\ PIECE <= x
               /\ Begin(r) = End(r - 1) /\ Begin(r) \in Nat /\ Begin(r) < End(r)
  <2>1. SUFFICES ASSUME r > 0 PROVE /\ r - 1 \in Pieces /\ Length(r - 1) = x /\ PIECE <= x
               /\ Begin(r) = End(r - 1) /\ Begin(r) \in Nat /\ Begin(r) < End(r)
    OBVIOUS
  <2>2. r - 1 \in Pieces /\ r - 1 \in Nat
    BY <1>2, <1>3, <1>5, <2>1
  <2>3. PICK b \in Pieces : b = r - 1
    BY <2>2
  <2>4. b \in Nat /\ b * PIECE \in Nat /\ (b + 1) * PIECE = b * PIECE + PIECE /\ b + 1 = r
        /\ Length(b) = IF TOTAL <= b * PIECE + PIECE THEN TOTAL ELSE b * PIECE + PIECE
    BY <1>4, <1>5, <2>3
  <2>5. PICK y \in Nat : y = b * PIECE
    BY <2>4
  <2>6. x = y + PIECE
    BY <1>6, <2>4, <2>5
  <2>7. Length(b) = x /\ PIECE <= x
    BY <1>1, <1>5, <1>6, <2>4, <2>5, <2>6
  <2>8. Begin(r) = x - HEAD /\ End(b) = x - HEAD /\ End(r) = Length(r) - HEAD
    BY <1>6, <2>1, <2>7 DEF Begin, End
  <2> QED BY <1>1, <1>7, <2>2, <2>3, <2>7, <2>8
<1>10. r = 0 => Begin(r) = 0
  BY DEF Begin
<1>11. Begin(r) \in Nat /\ Begin(r) <= End(r)
  BY <1>5, <1>8, <1>9, <1>10
<1>12. ASSUME NEW b \in Pieces PROVE End(b) <= Begin(r) \/ End(r) <= End(b)
  <2>1. /\ b \in Nat /\ b * PIECE \in Nat /\ b * PIECE <= TOTAL - 1
        /\ Length(b) = IF TOTAL <= b * PIECE + PIECE THEN TOTAL ELSE b * PIECE + PIECE
    BY <1>4
  <2>2. PICK y \in Nat : y = b * PIECE
    BY <2>1
  <2>3. CASE b = r
    BY <1>8, <2>3
  <2>4. CASE b < r
    <3>1. y + PIECE <= x
      BY <1>1, <1>5, <1>6, <2>1, <2>2, <2>4, NextMultiple
    <3>2. Length(b) <= x
      BY <1>1, <2>1, <2>2, <3>1
    <3>3. Begin(r) = x - HEAD /\ End(b) = Length(b) - HEAD
      BY <1>5, <1>6, <2>1, <2>4 DEF Begin, End
    <3>4. Length(b) \in Nat
      BY <1>1, <2>1, <2>2
    <3> QED BY <1>1, <3>2, <3>3, <3>4
  <2>5. CASE r < b
    <3>1. x + PIECE <= y
      BY <1>1, <1>5, <1>6, <2>1, <2>2, <2>5, NextMultiple
    <3>2. Length(r) <= Length(b) /\ Length(b) \in Nat
      BY <1>1, <1>5, <1>6, <2>1, <2>2, <3>1
    <3> QED BY <1>1, <1>7, <3>2 DEF End
  <2> QED BY <1>5, <2>1, <2>3, <2>4, <2>5
<1> QED BY <1>1, <1>5, <1>6, <1>7, <1>8, <1>9, <1>11, <1>12

\* The block that was stored is written, again if it is not held; the image it
\* will be part of stays the same, whether the write fails or not.
LEMMA StoredOK ==
  ASSUME NEW v, DeviceOK(v), v.ok, v.data # <<>>, v.held \/ v.left > 0,
         NEW w, w = pack_wr_write_stored_data(v)
  PROVE  /\ DeviceOK(w) /\ w.head = v.head /\ w.sum = v.sum /\ w.at = v.at /\ w.data = v.data
         /\ w.held = (v.held /\ ~w.ok)
         /\ \A i \in Area : Image(w, i) = Image(v, i)
<1>1. /\ v \in Device /\ Len(v.data) <= BLOCK /\ Shared(v.at) /\ v.at \in Nat
      /\ v.data \in Seq(Cell) /\ Len(v.data) \in Nat /\ v.held \in BOOLEAN /\ v.left \in Nat
      /\ ~v.held => \A i \in Area : Within(i, v.at, Len(v.data)) => v.flash[i] = v.data[i - v.at + 1]
  BY DeviceFields DEF DeviceOK
<1> DEFINE e == pack_write_data(v, v.at, v.data)
<1>2. /\ e \in Device /\ SameRam(v, e)
      /\ \A i \in Area : ~Within(i, v.at, Len(v.data)) => e.flash[i] = v.flash[i]
      /\ v.left > 0 =>
           /\ e.ok
           /\ \A i \in Area : Within(i, v.at, Len(v.data)) => e.flash[i] = v.data[i - v.at + 1]
      /\ ~(v.left > 0) => ~e.ok
  <2>1. PICK at \in Nat, u \in Seq(Cell) : at = v.at /\ u = v.data
    BY <1>1
  <2>2. e = pack_write_data(v, at, u)
    BY <2>1
  <2> HIDE DEF e
  <2>3. WrittenAt(v, at, u, e)
    BY <1>1, <2>2, WriteData
  <2> QED BY <1>1, <2>1, <2>3 DEF WrittenAt
<1>3. w = [e EXCEPT !.held = v.held /\ ~e.ok]
  <2>1. w = [e EXCEPT !.held = @ /\ ~e.ok]
    BY DEF pack_wr_write_stored_data
  <2> HIDE DEF e
  <2> QED BY <1>2, <2>1 DEF Device, SameRam
<1> HIDE DEF e
<1> DEFINE h == v.held /\ ~e.ok
<1>5. h \in BOOLEAN
  OBVIOUS
<1>6. w = [e EXCEPT !.held = h]
  BY <1>3
<1> HIDE DEF h
<1>7. /\ w \in Device /\ w.flash = e.flash /\ w.ok = e.ok /\ w.head = e.head /\ w.sum = e.sum
      /\ w.held = h /\ w.at = e.at /\ w.data = e.data
  BY <1>2, <1>5, <1>6 DEF Device
<1>8. w.head = v.head /\ w.sum = v.sum /\ w.at = v.at /\ w.data = v.data /\ w.held = (v.held /\ ~w.ok)
  BY <1>2, <1>7 DEF SameRam, h
<1>9. ~w.held => v.left > 0
  BY <1>1, <1>2, <1>7, <1>8
<1>10. ~w.held => \A i \in Area : Within(i, w.at, Len(w.data)) => w.flash[i] = w.data[i - w.at + 1]
  BY <1>2, <1>7, <1>8, <1>9
<1>11. DeviceOK(w)
  BY <1>1, <1>7, <1>8, <1>10 DEF DeviceOK
<1>12. ASSUME NEW i \in Area PROVE Image(w, i) = Image(v, i)
  <2>1. CASE ~Within(i, v.at, Len(v.data))
    BY <1>2, <1>7, <1>8, <2>1 DEF Image
  <2>2. CASE Within(i, v.at, Len(v.data)) /\ w.held
    BY <1>8, <2>2 DEF Image
  <2>3. CASE Within(i, v.at, Len(v.data)) /\ ~w.held
    <3>1. Image(w, i) = v.data[i - v.at + 1]
      BY <1>8, <1>10, <2>3 DEF Image
    <3>2. Image(v, i) = v.data[i - v.at + 1]
      BY <1>1, <2>3 DEF Image
    <3> QED BY <3>1, <3>2
  <2> QED BY <2>1, <2>2, <2>3
<1> QED BY <1>8, <1>11, <1>12

\* u are the units that follow offset o, and x is what they make of v.
Units(o, u) == o \in Nat /\ u \in Seq(Cell) /\ Len(u) > 0 /\ o + Len(u) <= TOTAL - HEAD
Added(v, o, u, x) ==
  /\ \A i \in Area : i < o => Image(x, i) = Image(v, i)
  /\ \A i \in Area : Within(i, o, Len(u)) => Image(x, i) = u[i - o + 1]

\* The rest of a block that was begun by the piece before: it is held, or
\* written when it is complete.
LEMMA BeginOK ==
  ASSUME NEW v, DeviceOK(v), v.ok, NEW o, NEW u, Units(o, u),
         NEW b \in Pieces, o = End(b), o % BLOCK # 0, (o % BLOCK) + Len(u) <= BLOCK,
         v.held => v.at + Len(v.data) = o,
         NEW w, w = pack_wr_begin_not_aligned(v, o, u)
  PROVE  /\ DeviceOK(w) /\ w.head = v.head /\ w.sum = v.sum
         /\ Added(v, o, u, w)
         /\ w.ok => (w.held <=> (o % BLOCK) + Len(u) < BLOCK) /\ (w.held => Len(w.data) < BLOCK)
<1>1. /\ v \in Device /\ v.at \in Nat /\ v.data \in Seq(Cell) /\ Len(v.data) \in Nat
      /\ v.held \in BOOLEAN /\ v.data # <<>> => Len(v.data) <= BLOCK /\ Shared(v.at)
      /\ v.held => v.data # <<>> /\ Len(v.data) > 0
      /\ v.flash \in [Area -> Cell]
  BY DeviceFields DEF DeviceOK
<1>2. /\ o \in Nat /\ u \in Seq(Cell) /\ Len(u) \in Nat /\ Len(u) > 0 /\ o + Len(u) <= TOTAL - HEAD
      /\ TOTAL \in Nat /\ HEAD \in Nat /\ BLOCK \in Nat \ {0}
  BY PackageAssumption, LenProperties DEF Units
<1> DEFINE c == (o \div BLOCK) * BLOCK
           m1 == o % BLOCK
<1>3. c \in Nat /\ c % BLOCK = 0 /\ m1 \in 0 .. BLOCK - 1 /\ o = c + m1
  BY <1>2, BlockBegin
<1>4. m1 > 0 /\ m1 + Len(u) <= BLOCK /\ o - c = m1
  <2>1. m1 # 0 /\ m1 + Len(u) <= BLOCK
    OBVIOUS
  <2> HIDE DEF c, m1
  <2> QED BY <1>2, <1>3, <2>1
<1> DEFINE f == IF v.held /\ v.data # <<>>
                THEN [v EXCEPT !.data = @ \o u]
                ELSE [v EXCEPT !.held = TRUE, !.at = c, !.data = ReadFlash(v, c, o - c) \o u]
<1>5. w = IF Len(f.data) < BLOCK THEN f ELSE pack_wr_write_stored_data(f)
  BY DEF pack_wr_begin_not_aligned
<1> HIDE DEF c, m1
<1>6. Shared(c)
  <2>1. c < End(b) /\ End(b) < c + BLOCK
    BY <1>2, <1>3, <1>4
  <2> QED BY <1>3, <2>1 DEF Shared
<1>12. v.held => v.at = c /\ Len(v.data) = m1
  <2>1. SUFFICES ASSUME v.held PROVE v.at = c /\ Len(v.data) = m1
    OBVIOUS
  <2>2. PICK x \in Nat, n \in Nat : x = v.at /\ n = Len(v.data)
    BY <1>1
  <2>3. x % BLOCK = 0 /\ n <= BLOCK /\ n > 0 /\ x + n = o
    BY <1>1, <2>1, <2>2 DEF Shared
  <2>4. x < o /\ o <= x + BLOCK /\ c < o /\ o < c + BLOCK
    BY <1>2, <1>3, <1>4, <2>3
  <2>5. x = c
    BY <1>2, <1>3, <2>3, <2>4, SameBlock
  <2> QED BY <1>3, <2>2, <2>3, <2>5
<1>7. /\ f \in Device /\ f.flash = v.flash /\ f.head = v.head /\ f.sum = v.sum /\ f.held = TRUE
      /\ f.at = c /\ f.ok /\ f.left = v.left
      /\ f.data \in Seq(Cell) /\ Len(f.data) = m1 + Len(u)
      /\ \A k \in 1 .. m1 : f.data[k] = Image(v, c + k - 1)
      /\ \A k \in 1 .. Len(u) : f.data[m1 + k] = u[k]
  <2>1. CASE v.held
    <3>1. f = [v EXCEPT !.data = @ \o u]
      BY <1>1, <2>1
    <3>2. v.at = c /\ Len(v.data) = m1
      BY <1>12, <2>1
    <3> DEFINE g == v.data \o u
    <3>4. /\ g \in Seq(Cell) /\ Len(g) = m1 + Len(u)
          /\ \A k \in 1 .. m1 + Len(u) : g[k] = IF k <= m1 THEN v.data[k] ELSE u[k - m1]
      <4>1. PICK x \in Seq(Cell) : x = v.data
        BY <1>1
      <4>2. /\ x \o u \in Seq(Cell) /\ Len(x \o u) = Len(x) + Len(u)
            /\ \A k \in 1 .. Len(x) + Len(u) :
                 (x \o u)[k] = IF k <= Len(x) THEN x[k] ELSE u[k - Len(x)]
        BY <1>2, ConcatProperties
      <4> QED BY <3>2, <4>1, <4>2
    <3>5. f = [v EXCEPT !.data = g]
      BY <3>1
    <3> HIDE DEF g, f
    <3>6. /\ f \in Device /\ f.flash = v.flash /\ f.head = v.head /\ f.sum = v.sum /\ f.held = v.held
          /\ f.at = v.at /\ f.ok = v.ok /\ f.left = v.left /\ f.data = g
      BY <1>1, <3>4, <3>5 DEF Device
    <3>7. ASSUME NEW k \in 1 .. m1 PROVE g[k] = Image(v, c + k - 1)
      <4>1. Within(c + k - 1, v.at, Len(v.data)) /\ (c + k - 1) - v.at + 1 = k
        BY <1>3, <3>2 DEF Within
      <4>2. g[k] = v.data[k]
        BY <1>2, <1>3, <3>4
      <4> QED BY <2>1, <4>1, <4>2 DEF Image
    <3>8. ASSUME NEW k \in 1 .. Len(u) PROVE g[m1 + k] = u[k]
      <4>1. m1 + k \in 1 .. m1 + Len(u) /\ ~(m1 + k <= m1) /\ (m1 + k) - m1 = k
        BY <1>2, <1>3
      <4> QED BY <3>4, <4>1
    <3> QED BY <2>1, <3>2, <3>4, <3>6, <3>7, <3>8
  <2>2. CASE ~v.held
    <3> DEFINE old == ReadFlash(v, c, m1)
               g == old \o u
    <3>1. f = [v EXCEPT !.held = TRUE, !.at = c, !.data = g]
      BY <1>4, <2>2
    <3>2. /\ old \in Seq(Cell) /\ Len(old) = m1 /\ \A k \in 1 .. m1 : old[k] = v.flash[c + k - 1]
      <4>1. m1 \in Nat /\ c + m1 <= TOTAL + BLOCK
        BY <1>2, <1>3
      <4>2. PICK at \in Nat, n \in Nat : at = c /\ n = m1
        BY <1>3, <4>1
      <4>3. /\ ReadFlash(v, at, n) \in Seq(Cell) /\ Len(ReadFlash(v, at, n)) = n
            /\ \A k \in 1 .. n : ReadFlash(v, at, n)[k] = v.flash[at + k - 1]
        BY <1>1, <4>1, <4>2, ReadOK
      <4> QED BY <4>2, <4>3
    <3> HIDE DEF old
    <3>4. /\ g \in Seq(Cell) /\ Len(g) = m1 + Len(u)
          /\ \A k \in 1 .. m1 + Len(u) : g[k] = IF k <= m1 THEN old[k] ELSE u[k - m1]
      <4>2. /\ old \o u \in Seq(Cell) /\ Len(old \o u) = Len(old) + Len(u)
            /\ \A k \in 1 .. Len(old) + Len(u) :
                 (old \o u)[k] = IF k <= Len(old) THEN old[k] ELSE u[k - Len(old)]
        BY <1>2, <3>2, ConcatProperties
      <4> QED BY <3>2, <4>2
    <3> HIDE DEF g, f
    <3>6. /\ f \in Device /\ f.flash = v.flash /\ f.head = v.head /\ f.sum = v.sum /\ f.held = TRUE
          /\ f.at = c /\ f.ok = v.ok /\ f.left = v.left /\ f.data = g
      BY <1>1, <1>3, <3>1, <3>4 DEF Device
    <3>7. ASSUME NEW k \in 1 .. m1 PROVE g[k] = Image(v, c + k - 1)
      <4>1. g[k] = old[k]
        BY <1>2, <1>3, <3>4
      <4> QED BY <2>2, <3>2, <4>1 DEF Image
    <3>8. ASSUME NEW k \in 1 .. Len(u) PROVE g[m1 + k] = u[k]
      <4>1. m1 + k \in 1 .. m1 + Len(u) /\ ~(m1 + k <= m1) /\ (m1 + k) - m1 = k
        BY <1>2, <1>3
      <4> QED BY <3>4, <4>1
    <3> QED BY <3>4, <3>6, <3>7, <3>8
  <2> QED BY <1>1, <2>1, <2>2
<1> HIDE DEF f
<1>8. DeviceOK(f) /\ f.data # <<>>
  <2>1. Len(f.data) > 0 /\ Len(f.data) <= BLOCK
    BY <1>2, <1>3, <1>4, <1>7
  <2>2. f.data # <<>>
    BY <1>7, <2>1, DeviceFields
  <2> QED BY <1>6, <1>7, <2>1, <2>2 DEF DeviceOK
<1>9. Added(v, o, u, f)
  <2>1. ASSUME NEW i \in Area, i < o PROVE Image(f, i) = Image(v, i)
    <3>1. i \in Nat
      BY PackageAssumption DEF Area
    <3>2. CASE i < c
      <4>1. ~Within(i, f.at, Len(f.data))
        BY <1>3, <1>7, <3>1, <3>2 DEF Within
      <4>2. Image(f, i) = v.flash[i]
        BY <1>7, <4>1 DEF Image
      <4>4. v.held => ~Within(i, v.at, Len(v.data))
        BY <1>3, <1>12, <3>1, <3>2 DEF Within
      <4> QED BY <4>2, <4>4 DEF Image
    <3>3. CASE ~(i < c)
      <4>1. i - c + 1 \in 1 .. m1 /\ c + (i - c + 1) - 1 = i
        BY <1>3, <2>1, <3>1, <3>3
      <4>2. Within(i, f.at, Len(f.data)) /\ i - f.at + 1 = i - c + 1
        BY <1>2, <1>3, <1>7, <2>1, <3>1, <3>3 DEF Within
      <4>3. Image(f, i) = f.data[i - c + 1]
        BY <1>7, <4>2 DEF Image
      <4> QED BY <1>7, <4>1, <4>3
    <3> QED BY <3>2, <3>3
  <2>2. ASSUME NEW i \in Area, Within(i, o, Len(u)) PROVE Image(f, i) = u[i - o + 1]
    <3>1. i \in Nat
      BY PackageAssumption DEF Area
    <3>2. i - o + 1 \in 1 .. Len(u) /\ m1 + (i - o + 1) = i - c + 1
      BY <1>2, <1>3, <2>2, <3>1 DEF Within
    <3>3. Within(i, f.at, Len(f.data)) /\ i - f.at + 1 = i - c + 1
      BY <1>2, <1>3, <1>7, <2>2, <3>1 DEF Within
    <3>4. Image(f, i) = f.data[i - c + 1]
      BY <1>7, <3>3 DEF Image
    <3> QED BY <1>7, <3>2, <3>4
  <2> QED BY <2>1, <2>2 DEF Added
<1>10. CASE Len(f.data) < BLOCK
  <2>1. w = f
    BY <1>5, <1>10
  <2> QED BY <1>3, <1>7, <1>8, <1>9, <1>10, <2>1 DEF m1
<1>11. CASE ~(Len(f.data) < BLOCK)
  <2>1. w = pack_wr_write_stored_data(f)
    BY <1>5, <1>11
  <2>2. /\ DeviceOK(w) /\ w.head = f.head /\ w.sum = f.sum /\ w.held = (f.held /\ ~w.ok)
        /\ \A i \in Area : Image(w, i) = Image(f, i)
    BY <1>7, <1>8, <2>1, StoredOK
  <2>3. Added(v, o, u, w)
    BY <1>9, <2>2 DEF Added
  <2> QED BY <1>3, <1>7, <1>11, <2>2, <2>3 DEF m1
<1> QED BY <1>10, <1>11

\* No block that two pieces share is among blocks within one piece.
LEMMA SharedApart ==
  ASSUME NEW x \in Nat, Shared(x), NEW o \in Nat, o % BLOCK = 0, NEW n \in Nat,
         \A b \in Pieces : End(b) <= o \/ o + n * BLOCK <= End(b),
         NEW i \in Nat, Within(i, x, BLOCK)
  PROVE  ~Within(i, o, n * BLOCK)
<1>1. x % BLOCK = 0 /\ \E b \in Pieces : x < End(b) /\ End(b) < x + BLOCK
  BY DEF Shared
<1>2. PICK b \in Pieces : x < End(b) /\ End(b) < x + BLOCK
  BY <1>1
<1>3. PICK y \in Nat : y = o + n * BLOCK /\ y % BLOCK = 0
  BY BlocksOn
<1>4. End(b) \in Nat /\ (End(b) <= o \/ y <= End(b))
  BY <1>3, PieceBounds
<1>5. x < y => x + BLOCK <= y
  BY <1>1, <1>3, BlocksApart
<1>6. x < o => x + BLOCK <= o
  BY <1>1, BlocksApart
<1>7. SUFFICES ASSUME o <= i, i < y PROVE FALSE
  <2>1. n * BLOCK \in Nat
    BY PackageAssumption, MultipleMod
  <2> QED BY <1>3, <2>1 DEF Within
<1>8. x <= i /\ i < x + BLOCK /\ BLOCK \in Nat
  BY PackageAssumption DEF Within
<1>9. x < y /\ ~(x < o)
  BY <1>3, <1>6, <1>7, <1>8
<1> QED BY <1>2, <1>3, <1>4, <1>5, <1>8, <1>9

\* A part of a sequence of units.
LEMMA PartOK ==
  ASSUME NEW u \in Seq(Cell), NEW i \in Nat, NEW j \in Nat, i <= j, j <= Len(u),
         NEW x, x = SubSeq(u, i + 1, j)
  PROVE  x \in Seq(Cell) /\ Len(x) = j - i /\ \A k \in 1 .. j - i : x[k] = u[i + k]
<1>1. Len(u) \in Nat /\ \A k \in i + 1 .. j : u[k] \in Cell
  BY LenProperties, ElementOfSeq
<1>2. i + 1 \in Int /\ j \in Int
  OBVIOUS
<1>3. /\ x \in Seq(Cell) /\ Len(x) = IF i + 1 <= j THEN j - (i + 1) + 1 ELSE 0
      /\ \A k \in 1 .. j - (i + 1) + 1 : x[k] = u[(i + 1) + k - 1]
  BY <1>1, <1>2, SubSeqProperties
<1>4. \A k \in 1 .. j - i : (i + 1) + k - 1 = i + k /\ k \in 1 .. j - (i + 1) + 1
  OBVIOUS
<1> QED BY <1>3, <1>4

\* w is v after whole blocks of units were put in the flash, all of them if it is ok.
BlocksIn(v, o, u, w) ==
  /\ w \in Device /\ SameRam(v, w)
  /\ \A i \in Area : ~Within(i, o, Len(u)) => w.flash[i] = v.flash[i]
  /\ w.ok => \A i \in Area : Within(i, o, Len(u)) => w.flash[i] = u[i - o + 1]

\* That is what the loop over blocks does.
LEMMA BlocksWritten ==
  ASSUME NEW v \in Device, NEW o \in Nat, NEW u \in Seq(Cell), NEW n \in Nat, Len(u) = n * BLOCK,
         NEW w, w = pack_wr_entire_blocks(v, o, u)
  PROVE  BlocksIn(v, o, u, w)
<1>1. BLOCK \in Nat \ {0} /\ v.left \in Nat /\ v.flash \in [Area -> Cell] /\ Len(u) \in Nat
  BY PackageAssumption, DeviceFields, LenProperties
<1>2. Len(u) \div BLOCK = n
  BY <1>1, MultipleMod
<1> DEFINE k == Min({n, v.left})
           y == k * BLOCK
           s == SubSeq(u, 1, y)
           f == Put(v.flash, o, s)
           e == [v EXCEPT !.flash = f, !.left = @ - k]
<1>3. /\ k = n => w = e
      /\ k # n => w = pack_write_data(e, o + y, SubSeq(u, y + 1, (k + 1) * BLOCK))
  BY <1>2 DEF pack_wr_entire_blocks
<1>4. k \in Nat /\ k <= n /\ k <= v.left /\ (k # n => k = v.left)
  <2>1. k = IF n <= v.left THEN n ELSE v.left
    BY <1>1, MinOfTwo
  <2> HIDE DEF k
  <2> QED BY <1>1, <2>1
<1> HIDE DEF k
<1>5. y \in Nat /\ y <= Len(u) /\ (k # n => y + BLOCK <= Len(u)) /\ (k + 1) * BLOCK = y + BLOCK
  <2>1. y \in Nat /\ n * BLOCK \in Nat /\ (k + 1) * BLOCK = y + BLOCK
    BY <1>1, <1>4
  <2>2. k < n => k * BLOCK + BLOCK <= n * BLOCK
    BY <1>1, <1>4, NextMultiple
  <2>3. PICK z \in Nat : z = n * BLOCK
    BY <2>1
  <2>4. k < n \/ k = n
    BY <1>4
  <2>5. CASE k < n
    BY <1>1, <1>4, <2>1, <2>2, <2>3, <2>5
  <2>6. CASE k = n
    BY <2>1, <2>6
  <2> QED BY <2>4, <2>5, <2>6
<1> HIDE DEF y
<1>6. s \in Seq(Cell) /\ Len(s) = y /\ \A j \in 1 .. y : s[j] = u[j]
  <2>1. s = SubSeq(u, 0 + 1, y)
    OBVIOUS
  <2> HIDE DEF s
  <2>2. s \in Seq(Cell) /\ Len(s) = y - 0 /\ \A j \in 1 .. y - 0 : s[j] = u[0 + j]
    BY <1>1, <1>5, <2>1, PartOK
  <2>3. y - 0 = y /\ \A j \in 1 .. y : 0 + j = j
    BY <1>5
  <2> QED BY <2>2, <2>3
<1> HIDE DEF s
<1>7. /\ f \in [Area -> Cell]
      /\ \A i \in Area : f[i] = IF Within(i, o, y) THEN s[i - o + 1] ELSE v.flash[i]
  <2>1. PICK g \in [Area -> Cell] : g = v.flash
    BY <1>1
  <2>2. /\ Put(g, o, s) \in [Area -> Cell]
        /\ \A i \in Area : Put(g, o, s)[i] = IF Within(i, o, Len(s)) THEN s[i - o + 1] ELSE g[i]
    BY <1>6, PutOK
  <2> QED BY <1>6, <2>1, <2>2
<1> HIDE DEF f
<1>8. /\ e \in Device /\ SameRam(v, e) /\ e.flash = f /\ e.left = v.left - k /\ e.ok = v.ok
  <2>1. v.left - k \in Nat
    BY <1>1, <1>4
  <2> QED BY <1>7, <2>1 DEF Device, SameRam
<1> HIDE DEF e
<1>9. ASSUME NEW i \in Area PROVE i \in Nat
  BY PackageAssumption DEF Area
<1>10. CASE k = n
  <2>1. w = e /\ y = Len(u)
    BY <1>3, <1>10 DEF y
  <2>2. ASSUME NEW i \in Area, Within(i, o, Len(u)) PROVE w.flash[i] = u[i - o + 1]
    <3>1. i - o + 1 \in 1 .. y
      BY <1>1, <1>9, <2>1, <2>2 DEF Within
    <3> QED BY <1>6, <1>7, <1>8, <2>1, <2>2, <3>1
  <2>3. ASSUME NEW i \in Area, ~Within(i, o, Len(u)) PROVE w.flash[i] = v.flash[i]
    BY <1>7, <1>8, <2>1, <2>3
  <2> QED BY <1>8, <2>1, <2>2, <2>3 DEF BlocksIn
<1>11. CASE k # n
  <2> DEFINE x == SubSeq(u, y + 1, (k + 1) * BLOCK)
  <2>1. x \in Seq(Cell) /\ Len(x) = BLOCK
    <3>1. PICK z \in Nat : z = (k + 1) * BLOCK /\ z = y + BLOCK /\ z <= Len(u)
      BY <1>1, <1>5, <1>11
    <3>2. x = SubSeq(u, y + 1, z)
      BY <3>1
    <3> HIDE DEF x
    <3>3. x \in Seq(Cell) /\ Len(x) = z - y
      BY <1>1, <1>5, <3>1, <3>2, PartOK
    <3> QED BY <1>1, <1>5, <3>1, <3>3
  <2>2. PICK a \in Nat : a = o + y
    BY <1>5
  <2>3. w = pack_write_data(e, a, x) /\ e.left = 0
    BY <1>1, <1>3, <1>4, <1>8, <1>11, <2>2
  <2> HIDE DEF x
  <2>4. WrittenAt(e, a, x, w)
    BY <1>8, <2>1, <2>3, WriteData
  <2>5. /\ w \in Device /\ SameRam(e, w) /\ ~w.ok
        /\ \A i \in Area : ~Within(i, a, BLOCK) => w.flash[i] = e.flash[i]
    BY <2>1, <2>3, <2>4 DEF WrittenAt
  <2>6. SameRam(v, w)
    BY <1>8, <2>5 DEF SameRam
  <2>7. ASSUME NEW i \in Area, ~Within(i, o, Len(u)) PROVE w.flash[i] = v.flash[i]
    <3>1. ~Within(i, a, BLOCK) /\ ~Within(i, o, y)
      BY <1>1, <1>5, <1>9, <1>11, <2>2, <2>7 DEF Within
    <3> QED BY <1>7, <1>8, <2>5, <3>1
  <2> QED BY <2>5, <2>6, <2>7 DEF BlocksIn
<1> QED BY <1>10, <1>11

\* Whole blocks within one piece leave the block under construction alone.
LEMMA EntireOK ==
  ASSUME NEW v, DeviceOK(v), NEW o \in Nat, NEW u \in Seq(Cell),
         NEW n \in Nat, Len(u) = n * BLOCK, o % BLOCK = 0 \/ n = 0,
         \A b \in Pieces : End(b) <= o \/ o + n * BLOCK <= End(b),
         NEW w, w = pack_wr_entire_blocks(v, o, u)
  PROVE  DeviceOK(w) /\ BlocksIn(v, o, u, w)
<1>1. /\ v \in Device /\ v.at \in Nat /\ Len(v.data) \in Nat /\ v.held \in BOOLEAN
      /\ v.data # <<>> => Len(v.data) <= BLOCK /\ Shared(v.at)
      /\ v.held => v.data # <<>>
      /\ ~v.held => \A i \in Area : Within(i, v.at, Len(v.data)) => v.flash[i] = v.data[i - v.at + 1]
      /\ v.data # <<>> <=> Len(v.data) > 0
  BY DeviceFields DEF DeviceOK
<1>2. BlocksIn(v, o, u, w)
  BY <1>1, BlocksWritten
<1>3. /\ w \in Device /\ SameRam(v, w)
      /\ \A i \in Area : ~Within(i, o, Len(u)) => w.flash[i] = v.flash[i]
  BY <1>2 DEF BlocksIn
<1>4. w.held = v.held /\ w.at = v.at /\ w.data = v.data
  BY <1>3 DEF SameRam
<1>5. ASSUME NEW i \in Area, Within(i, v.at, Len(v.data)) PROVE ~Within(i, o, Len(u))
  <2>1. i \in Nat /\ BLOCK \in Nat
    BY PackageAssumption DEF Area
  <2>2. PICK x \in Nat, l \in Nat : x = v.at /\ l = Len(v.data)
    BY <1>1
  <2>3. x <= i /\ i < x + l
    BY <1>5, <2>2 DEF Within
  <2>4. l > 0
    BY <2>1, <2>3
  <2>5. l <= BLOCK /\ Shared(x)
    BY <1>1, <2>2, <2>4
  <2>6. Within(i, x, BLOCK)
    BY <2>1, <2>3, <2>5 DEF Within
  <2>7. CASE n = 0
    <3>1. n * BLOCK = 0
      BY <2>1, <2>7
    <3> QED BY <2>1, <3>1 DEF Within
  <2>8. CASE n # 0
    <3>1. o % BLOCK = 0
      BY <2>8
    <3> QED BY <2>1, <2>5, <2>6, <3>1, SharedApart
  <2> QED BY <2>7, <2>8
<1>6. ~w.held => \A i \in Area : Within(i, w.at, Len(w.data)) => w.flash[i] = w.data[i - w.at + 1]
  BY <1>1, <1>3, <1>4, <1>5
<1> QED BY <1>1, <1>2, <1>3, <1>4, <1>6 DEF DeviceOK

\* How much of l units from offset o belongs to a block that was begun before,
\* and how much with the n whole blocks that follow.
Split(o, l, a, n, b) ==
  /\ a = IF o % BLOCK = 0 THEN 0 ELSE Min({l, BLOCK - (o % BLOCK)})
  /\ n = (l - a) \div BLOCK /\ b = a + n * BLOCK

\* What is left is less than a block, and begins one.
LEMMA SplitOK ==
  ASSUME NEW o \in Nat, NEW l \in Nat, l > 0, NEW a, NEW n, NEW b, Split(o, l, a, n, b)
  PROVE  /\ a \in Nat /\ n \in Nat /\ b \in Nat /\ a <= b /\ b <= l /\ l < b + BLOCK
         /\ b - a = n * BLOCK
         /\ a > 0 => o % BLOCK # 0 /\ (o % BLOCK) + a <= BLOCK
         /\ a = 0 => o % BLOCK = 0
         /\ a < l => (o + a) % BLOCK = 0 /\ (a > 0 => (o % BLOCK) + a = BLOCK)
         /\ b < l => (o + b) % BLOCK = 0
         /\ a = l => n = 0
<1>1. BLOCK \in Nat \ {0}
  BY PackageAssumption
<1>2. PICK c \in Nat, r \in Nat : c % BLOCK = 0 /\ r < BLOCK /\ o = c + r /\ r = o % BLOCK
  <2>1. /\ (o \div BLOCK) * BLOCK \in Nat /\ ((o \div BLOCK) * BLOCK) % BLOCK = 0
        /\ o % BLOCK \in 0 .. BLOCK - 1 /\ o = (o \div BLOCK) * BLOCK + (o % BLOCK)
    BY BlockBegin
  <2>2. PICK c \in Nat : c = (o \div BLOCK) * BLOCK /\ c % BLOCK = 0
    BY <2>1
  <2>3. PICK r \in 0 .. BLOCK - 1 : r = o % BLOCK
    BY <2>1
  <2>4. o = c + r /\ r \in Nat /\ r < BLOCK
    BY <1>1, <2>1, <2>2, <2>3
  <2> QED BY <2>2, <2>3, <2>4
<1>3. a = IF r = 0 THEN 0 ELSE IF l <= BLOCK - r THEN l ELSE BLOCK - r
  <2>1. BLOCK - r \in Nat
    BY <1>1, <1>2
  <2>2. Min({l, BLOCK - r}) = IF l <= BLOCK - r THEN l ELSE BLOCK - r
    BY <2>1, MinOfTwo
  <2> QED BY <1>2, <2>2 DEF Split
<1>4. a \in Nat /\ a <= l /\ (a > 0 => r # 0 /\ r + a <= BLOCK) /\ (a = 0 => r = 0)
      /\ (a < l => (a = 0 /\ r = 0) \/ r + a = BLOCK) /\ (a < l /\ a > 0 => r + a = BLOCK)
  BY <1>1, <1>2, <1>3
<1>5. a < l => (o + a) % BLOCK = 0
  <2>1. (c + 1 * BLOCK) % BLOCK = 0
    BY <1>2, BlocksOn
  <2>2. SUFFICES ASSUME a < l PROVE (o + a) % BLOCK = 0
    OBVIOUS
  <2>3. CASE a = 0 /\ r = 0
    <3>1. o + a = c
      BY <1>2, <2>3
    <3> QED BY <1>2, <3>1
  <2>4. CASE r + a = BLOCK
    <3>1. o + a = c + 1 * BLOCK
      BY <1>1, <1>2, <1>4, <2>4
    <3> QED BY <2>1, <3>1
  <2> QED BY <1>4, <2>2, <2>3, <2>4
<1>6. PICK q \in Nat, s \in Nat, y \in Nat :
        /\ q = n /\ l - a = y + s /\ s < BLOCK /\ y = n * BLOCK /\ (l - a = 0 => q = 0)
  <2>1. PICK x \in Nat : x = l - a
    BY <1>4
  <2>2. x \div BLOCK \in Nat /\ x % BLOCK \in 0 .. BLOCK - 1
        /\ x = (x \div BLOCK) * BLOCK + (x % BLOCK)
    BY <1>1, DivMod
  <2>3. n = x \div BLOCK
    BY <2>1 DEF Split
  <2>4. n \in Nat /\ n * BLOCK \in Nat
    BY <1>1, <2>2, <2>3
  <2>5. PICK y \in Nat : y = n * BLOCK
    BY <2>4
  <2>6. PICK s \in 0 .. BLOCK - 1 : s = x % BLOCK
    BY <2>2
  <2>7. x = y + s
    BY <2>2, <2>3, <2>5, <2>6
  <2>8. x = 0 => n = 0
    <3>1. SUFFICES ASSUME x = 0 PROVE n = 0
      OBVIOUS
    <3>2. ~(0 < n)
      <4>1. 0 < n => 0 * BLOCK + BLOCK <= n * BLOCK
        BY <1>1, <2>4, NextMultiple
      <4>2. y = 0
        BY <1>1, <2>7, <3>1
      <4>3. 0 * BLOCK + BLOCK = BLOCK
        BY <1>1
      <4>4. 0 < n => BLOCK <= 0
        BY <2>5, <4>1, <4>2, <4>3
      <4> QED BY <1>1, <4>4
    <3> QED BY <2>4, <3>2
  <2>9. s \in Nat /\ s < BLOCK /\ l - a = y + s
    BY <1>1, <2>1, <2>6, <2>7
  <2>10. y = n * BLOCK /\ n \in Nat /\ (l - a = 0 => n = 0)
    BY <2>1, <2>4, <2>5, <2>8
  <2> QED BY <2>9, <2>10, Zenon
<1>7. b = a + y /\ b \in Nat
  BY <1>4, <1>6 DEF Split
<1>8. b < l => (o + b) % BLOCK = 0
  <2>1. SUFFICES ASSUME b < l PROVE (o + b) % BLOCK = 0
    OBVIOUS
  <2>2. a < l
    BY <1>4, <1>6, <1>7, <2>1
  <2>3. PICK z \in Nat : z = o + a
    BY <1>4
  <2>4. (z + n * BLOCK) % BLOCK = 0
    BY <1>5, <1>6, <2>2, <2>3, BlocksOn
  <2>5. o + b = z + n * BLOCK
    BY <1>4, <1>6, <1>7, <2>3
  <2> QED BY <2>4, <2>5
<1>9. a <= b /\ b <= l /\ l < b + BLOCK /\ b - a = n * BLOCK
  BY <1>1, <1>4, <1>6, <1>7
<1> QED BY <1>2, <1>4, <1>5, <1>6, <1>7, <1>8, <1>9

\* The block that was stored last goes to the flash first, unless it goes on at o.
Ready(v, o, w) ==
  /\ DeviceOK(w) /\ w.head = v.head /\ w.sum = v.sum
  /\ \A i \in Area : Image(w, i) = Image(v, i)
  /\ w.ok /\ w.held => v.held /\ w.data = v.data /\ w.at + Len(w.data) = o

\* That is how pack_wr_write begins.
LEMMA ReadyOK ==
  ASSUME NEW v, DeviceOK(v), v.ok, NEW o \in Nat,
         NEW w, w = IF v.held /\ v.at + Len(v.data) # o /\ v.data # <<>>
                    THEN pack_wr_write_stored_data(v) ELSE v
  PROVE  Ready(v, o, w)
<1>1. CASE v.held /\ v.at + Len(v.data) # o /\ v.data # <<>>
  <2>1. w = pack_wr_write_stored_data(v)
    BY <1>1
  <2>2. /\ DeviceOK(w) /\ w.head = v.head /\ w.sum = v.sum /\ w.held = (v.held /\ ~w.ok)
        /\ \A i \in Area : Image(w, i) = Image(v, i)
    BY <1>1, <2>1, StoredOK
  <2> QED BY <2>2 DEF Ready
<1>2. CASE ~(v.held /\ v.at + Len(v.data) # o /\ v.data # <<>>)
  <2>1. w = v
    BY <1>2
  <2>2. v.held => v.at + Len(v.data) = o
    BY <1>2 DEF DeviceOK
  <2> QED BY <2>1, <2>2 DEF Ready
<1> QED BY <1>1, <1>2

\* x is v with the first k of units u added from offset o on.
Joined(v, o, u, k, x) ==
  \A i \in Area : i < o + k => Image(x, i) = IF i < o THEN Image(v, i) ELSE u[i - o + 1]

\* The block that v holds is not complete, unless the software begins anew.
Going(v, o) == v.held /\ o > 0 => Len(v.data) < BLOCK

\* What piece r brings, from offset o.
Brought(r, o, u) == o = Begin(r) /\ u \in Seq(Cell) /\ Len(u) > 0 /\ o + Len(u) = End(r)

\* The numbers of a piece.
LEMMA BroughtOK ==
  ASSUME NEW r \in Pieces, NEW o, NEW u, Brought(r, o, u)
  PROVE  /\ o \in Nat /\ Len(u) \in Nat /\ o + Len(u) <= TOTAL - HEAD /\ TOTAL - HEAD \in Nat
         /\ \A b \in Pieces : End(b) <= o \/ o + Len(u) <= End(b)
         /\ o > 0 => r - 1 \in Pieces /\ o = End(r - 1)
<1>1. /\ r \in Nat /\ Begin(r) \in Nat /\ End(r) \in Nat /\ End(r) <= TOTAL - HEAD
      /\ r > 0 => r - 1 \in Pieces /\ Begin(r) = End(r - 1)
      /\ \A b \in Pieces : End(b) <= Begin(r) \/ End(r) <= End(b)
  BY PieceBounds
<1>2. o = Begin(r) /\ u \in Seq(Cell) /\ o + Len(u) = End(r)
  BY DEF Brought
<1>3. Len(u) \in Nat
  BY <1>2, LenProperties
<1>4. o > 0 => r > 0
  BY <1>1, <1>2 DEF Begin
<1>5. TOTAL - HEAD \in Nat
  BY PackageAssumption
<1> QED BY <1>1, <1>2, <1>3, <1>4, <1>5

\* A block that goes on at a block's beginning is complete.
LEMMA NotGoing ==
  ASSUME NEW v, DeviceOK(v), v.held, NEW o \in Nat, o % BLOCK = 0, v.at + Len(v.data) = o
  PROVE  o > 0 /\ ~(Len(v.data) < BLOCK)
<1>1. v \in Device /\ v.data # <<>> /\ Shared(v.at)
  BY DEF DeviceOK
<1>2. PICK x \in Nat, n \in Nat : x = v.at /\ n = Len(v.data) /\ n > 0
  BY <1>1, DeviceFields
<1>3. x % BLOCK = 0
  BY <1>1, <1>2 DEF Shared
<1>4. x < o /\ x + n = o
  BY <1>2
<1>5. x + BLOCK <= o
  BY <1>3, <1>4, BlocksApart
<1>6. BLOCK \in Nat
  BY PackageAssumption
<1> QED BY <1>2, <1>4, <1>5, <1>6

\* After what belongs to a block that was begun before, nothing is held but that
\* block, if there are no more units and it is not complete.
LEMMA BegunOK ==
  ASSUME NEW v, NEW r \in Pieces, NEW o, NEW u, Brought(r, o, u),
         NEW a, NEW n, NEW b, Split(o, Len(u), a, n, b), NEW v1, Ready(v, o, v1),
         NEW w, w = IF v1.ok /\ a > 0 THEN pack_wr_begin_not_aligned(v1, o, SubSeq(u, 1, a)) ELSE v1
  PROVE  /\ DeviceOK(w) /\ w.head = v.head /\ w.sum = v.sum
         /\ w.ok /\ Going(v, o) =>
              Joined(v, o, u, a, w) /\ (w.held => a = Len(u) /\ Len(w.data) < BLOCK)
<1>1. /\ o \in Nat /\ Len(u) \in Nat /\ Len(u) > 0 /\ u \in Seq(Cell) /\ o + Len(u) <= TOTAL - HEAD
      /\ TOTAL - HEAD \in Nat /\ (o > 0 => r - 1 \in Pieces /\ o = End(r - 1))
  BY BroughtOK DEF Brought
<1>2. PICK l \in Nat : l = Len(u) /\ l > 0
  BY <1>1
<1>3. /\ a \in Nat /\ a <= l
      /\ a > 0 => o % BLOCK # 0 /\ (o % BLOCK) + a <= BLOCK
      /\ a = 0 => o % BLOCK = 0
      /\ a < l => (a > 0 => (o % BLOCK) + a = BLOCK)
  <2>1. Split(o, l, a, n, b)
    BY <1>2
  <2>2. /\ a \in Nat /\ b \in Nat /\ a <= b /\ b <= l
        /\ a > 0 => o % BLOCK # 0 /\ (o % BLOCK) + a <= BLOCK
        /\ a = 0 => o % BLOCK = 0
        /\ a < l => (a > 0 => (o % BLOCK) + a = BLOCK)
    BY <1>1, <1>2, <2>1, SplitOK
  <2> QED BY <2>2
<1>4. /\ DeviceOK(v1) /\ v1.head = v.head /\ v1.sum = v.sum
      /\ \A i \in Area : Image(v1, i) = Image(v, i)
      /\ v1.ok /\ v1.held => v.held /\ v1.data = v.data /\ v1.at + Len(v1.data) = o
  BY DEF Ready
<1>5. ASSUME NEW i \in Area PROVE i \in Nat
  BY PackageAssumption DEF Area
<1>6. CASE ~v1.ok
  BY <1>4, <1>6
<1>7. CASE v1.ok /\ a > 0
  <2> DEFINE x == SubSeq(u, 1, a)
  <2>1. w = pack_wr_begin_not_aligned(v1, o, x)
    BY <1>7
  <2>2. x \in Seq(Cell) /\ Len(x) = a /\ \A k \in 1 .. a : x[k] = u[k]
    <3>1. x = SubSeq(u, 0 + 1, a)
      OBVIOUS
    <3> HIDE DEF x
    <3>2. x \in Seq(Cell) /\ Len(x) = a - 0 /\ \A k \in 1 .. a - 0 : x[k] = u[0 + k]
      BY <1>1, <1>2, <1>3, <3>1, PartOK
    <3>3. a - 0 = a /\ \A k \in 1 .. a : 0 + k = k
      BY <1>3
    <3> QED BY <3>2, <3>3
  <2> HIDE DEF x
  <2>3. Units(o, x)
    BY <1>1, <1>2, <1>3, <1>7, <2>2 DEF Units
  <2>4. o > 0
    <3>1. 0 % BLOCK = 0
      BY PackageAssumption
    <3> QED BY <1>1, <1>3, <1>7, <3>1
  <2>5. PICK q \in Pieces : o = End(q)
    BY <1>1, <2>4
  <2>6. /\ DeviceOK(w) /\ w.head = v1.head /\ w.sum = v1.sum
        /\ Added(v1, o, x, w)
        /\ w.ok => (w.held <=> (o % BLOCK) + Len(x) < BLOCK) /\ (w.held => Len(w.data) < BLOCK)
    BY <1>3, <1>4, <1>7, <2>1, <2>2, <2>3, <2>5, BeginOK
  <2>7. Joined(v, o, u, a, w)
    <3>1. SUFFICES ASSUME NEW i \in Area, i < o + a
                   PROVE  Image(w, i) = IF i < o THEN Image(v, i) ELSE u[i - o + 1]
      BY DEF Joined
    <3>2. CASE i < o
      BY <1>4, <2>6, <3>2 DEF Added
    <3>3. CASE ~(i < o)
      <4>1. Within(i, o, Len(x)) /\ i - o + 1 \in 1 .. a
        BY <1>1, <1>3, <1>5, <2>2, <3>1, <3>3 DEF Within
      <4> QED BY <2>2, <2>6, <3>3, <4>1 DEF Added
    <3> QED BY <3>2, <3>3
  <2>8. w.ok /\ w.held => a = l /\ Len(w.data) < BLOCK
    <3>1. SUFFICES ASSUME w.ok, w.held PROVE a = l /\ Len(w.data) < BLOCK
      OBVIOUS
    <3>2. (o % BLOCK) + a < BLOCK /\ Len(w.data) < BLOCK
      BY <2>2, <2>6, <3>1
    <3>3. (o % BLOCK) + a # BLOCK
      <4>1. PICK y \in Nat : y = o % BLOCK
        BY <1>1, BlockBegin, PackageAssumption
      <4> QED BY <1>3, <3>2, <4>1, PackageAssumption
    <3> QED BY <1>2, <1>3, <1>7, <3>2, <3>3
  <2> QED BY <1>2, <1>4, <2>6, <2>7, <2>8
<1>8. CASE v1.ok /\ ~(a > 0)
  <2>1. w = v1 /\ a = 0 /\ o % BLOCK = 0
    BY <1>3, <1>8
  <2>2. Joined(v, o, u, a, w)
    BY <1>1, <1>4, <1>5, <2>1 DEF Joined
  <2>3. Going(v, o) => ~w.held
    <3>1. SUFFICES ASSUME Going(v, o), w.held PROVE FALSE
      OBVIOUS
    <3>2. o > 0 /\ ~(Len(w.data) < BLOCK)
      BY <1>1, <1>4, <1>8, <2>1, <3>1, NotGoing
    <3> QED BY <1>4, <1>8, <2>1, <3>1, <3>2 DEF Going
  <2> QED BY <1>4, <2>1, <2>2, <2>3
<1> QED BY <1>6, <1>7, <1>8

\* The whole blocks come next, and the block that is held is not among them.
LEMMA MiddleOK ==
  ASSUME NEW v, NEW r \in Pieces, NEW o, NEW u, Brought(r, o, u),
         NEW a, NEW n, NEW b, Split(o, Len(u), a, n, b), NEW v2, DeviceOK(v2),
         NEW w, w = IF v2.ok THEN pack_wr_entire_blocks(v2, o + a, SubSeq(u, a + 1, b)) ELSE v2
  PROVE  /\ DeviceOK(w) /\ w.head = v2.head /\ w.sum = v2.sum
         /\ w.held = v2.held /\ w.data = v2.data /\ (w.ok => v2.ok)
         /\ w.ok /\ Joined(v, o, u, a, v2) => Joined(v, o, u, b, w)
<1>1. /\ o \in Nat /\ Len(u) \in Nat /\ Len(u) > 0 /\ u \in Seq(Cell)
      /\ \A q \in Pieces : End(q) <= o \/ o + Len(u) <= End(q)
  BY BroughtOK DEF Brought
<1>2. PICK l \in Nat : l = Len(u) /\ l > 0
  BY <1>1
<1>3. /\ a \in Nat /\ n \in Nat /\ b \in Nat /\ a <= b /\ b <= l /\ b - a = n * BLOCK
      /\ a < l => (o + a) % BLOCK = 0
      /\ a = l => n = 0
  <2>1. Split(o, l, a, n, b)
    BY <1>2
  <2> QED BY <1>1, <1>2, <2>1, SplitOK
<1>4. CASE ~v2.ok
  BY <1>4
<1>5. CASE v2.ok
  <2> DEFINE x == SubSeq(u, a + 1, b)
  <2>1. PICK s \in Nat : s = o + a
    BY <1>1, <1>3
  <2>2. w = pack_wr_entire_blocks(v2, s, x)
    BY <1>5, <2>1
  <2>3. x \in Seq(Cell) /\ Len(x) = b - a /\ \A k \in 1 .. b - a : x[k] = u[a + k]
    BY <1>1, <1>2, <1>3, PartOK
  <2> HIDE DEF x
  <2>4. s % BLOCK = 0 \/ n = 0
    BY <1>2, <1>3, <2>1
  <2>5. PICK y \in Nat : y = n * BLOCK /\ y = b - a /\ Len(x) = y
    BY <1>3, <2>3
  <2>6. \A q \in Pieces : End(q) <= s \/ s + n * BLOCK <= End(q)
    <3>1. \A q \in Pieces : End(q) \in Nat
      BY PieceBounds
    <3> QED BY <1>1, <1>2, <1>3, <2>1, <2>5, <3>1
  <2>7. DeviceOK(w) /\ BlocksIn(v2, s, x, w)
    BY <2>2, <2>3, <2>4, <2>5, <2>6, <1>3, EntireOK
  <2>8. /\ w.head = v2.head /\ w.sum = v2.sum /\ w.held = v2.held /\ w.at = v2.at /\ w.data = v2.data
        /\ \A i \in Area : ~Within(i, s, y) => w.flash[i] = v2.flash[i]
        /\ w.ok => \A i \in Area : Within(i, s, y) => w.flash[i] = x[i - s + 1]
    BY <2>5, <2>7 DEF BlocksIn, SameRam
  <2>9. ASSUME w.ok, Joined(v, o, u, a, v2) PROVE Joined(v, o, u, b, w)
    <3>1. SUFFICES ASSUME NEW i \in Area, i < o + b
                   PROVE  Image(w, i) = IF i < o THEN Image(v, i) ELSE u[i - o + 1]
      BY DEF Joined
    <3>2. i \in Nat
      BY PackageAssumption DEF Area
    <3>3. CASE i < s
      <4>1. ~Within(i, s, y)
        BY <2>1, <3>2, <3>3 DEF Within
      <4>2. Image(w, i) = Image(v2, i)
        BY <2>8, <4>1 DEF Image
      <4> QED BY <2>1, <2>9, <3>3, <4>2 DEF Joined
    <3>4. CASE ~(i < s)
      <4>1. Within(i, s, y) /\ i - s + 1 \in 1 .. b - a /\ a + (i - s + 1) = i - o + 1 /\ ~(i < o)
        BY <1>1, <1>3, <2>1, <2>5, <3>1, <3>2, <3>4 DEF Within
      <4>2. w.flash[i] = u[i - o + 1]
        BY <2>3, <2>8, <2>9, <4>1
      <4>3. ~(w.held /\ Within(i, w.at, Len(w.data)))
        <5>1. SUFFICES ASSUME w.held, Within(i, w.at, Len(w.data)) PROVE FALSE
          OBVIOUS
        <5>2. w \in Device /\ w.data # <<>> /\ Len(w.data) <= BLOCK /\ Shared(w.at)
          BY <2>7, <5>1 DEF DeviceOK
        <5>3. PICK z \in Nat, m1 \in Nat : z = w.at /\ m1 = Len(w.data)
          BY <5>2, DeviceFields
        <5>4. Within(i, z, BLOCK) /\ Shared(z)
          BY <3>2, <5>1, <5>2, <5>3, PackageAssumption DEF Within
        <5>5. n # 0
          <6>1. 0 * BLOCK = 0
            BY PackageAssumption
          <6> QED BY <2>5, <3>2, <4>1, <6>1 DEF Within
        <5>6. s % BLOCK = 0
          BY <2>4, <5>5
        <5>7. ~Within(i, s, n * BLOCK)
          BY <1>3, <2>6, <3>2, <5>4, <5>6, SharedApart
        <5> QED BY <2>5, <4>1, <5>7
      <4> QED BY <4>1, <4>2, <4>3 DEF Image
    <3> QED BY <3>3, <3>4
  <2> QED BY <1>5, <2>7, <2>8, <2>9
<1> QED BY <1>4, <1>5

\* What a piece's write does: if nothing failed, its units are in the image that
\* the flash and the block under construction make.
Written(v, o, u, w) ==
  /\ DeviceOK(w) /\ w.head = v.head /\ w.sum = v.sum
  /\ w.ok /\ Going(v, o) => Added(v, o, u, w) /\ (w.held => Len(w.data) < BLOCK)

\* The last units begin a block, which is held.
LEMMA LastOK ==
  ASSUME NEW v, NEW r \in Pieces, NEW o, NEW u, Brought(r, o, u),
         NEW a, NEW n, NEW b, Split(o, Len(u), a, n, b),
         NEW v3, DeviceOK(v3), v3.head = v.head, v3.sum = v.sum,
         v3.ok /\ Going(v, o) =>
           Joined(v, o, u, b, v3) /\ (v3.held => a = Len(u) /\ Len(v3.data) < BLOCK),
         NEW w, w = IF v3.ok /\ b < Len(u)
                    THEN pack_wr_end_not_aligned_block(v3, o + b, SubSeq(u, b + 1, Len(u))) ELSE v3
  PROVE  Written(v, o, u, w)
<1>1. /\ o \in Nat /\ Len(u) \in Nat /\ Len(u) > 0 /\ u \in Seq(Cell) /\ o + Len(u) = End(r)
      /\ BLOCK \in Nat \ {0}
  BY BroughtOK, PackageAssumption DEF Brought
<1>2. PICK l \in Nat : l = Len(u) /\ l > 0
  BY <1>1
<1>3. /\ a \in Nat /\ b \in Nat /\ a <= b /\ b <= l /\ l < b + BLOCK
      /\ b < l => (o + b) % BLOCK = 0
  <2>1. Split(o, l, a, n, b)
    BY <1>2
  <2>2. /\ a \in Nat /\ n \in Nat /\ b \in Nat /\ a <= b /\ b <= l /\ l < b + BLOCK
        /\ b < l => (o + b) % BLOCK = 0
    BY <1>1, <1>2, <2>1, SplitOK
  <2> QED BY <2>2
<1>4. ASSUME NEW i \in Area PROVE i \in Nat
  BY PackageAssumption DEF Area
<1>5. CASE ~(v3.ok /\ b < Len(u))
  <2>1. w = v3
    BY <1>5
  <2>2. ASSUME w.ok, Going(v, o) PROVE Added(v, o, u, w) /\ (w.held => Len(w.data) < BLOCK)
    <3>1. b = l /\ Joined(v, o, u, l, w) /\ (w.held => Len(w.data) < BLOCK)
      BY <1>2, <1>3, <1>5, <2>1, <2>2
    <3>2. ASSUME NEW i \in Area, i < o PROVE Image(w, i) = Image(v, i)
      <4>1. i < o + l
        BY <1>1, <1>4, <3>2
      <4> QED BY <3>1, <3>2, <4>1 DEF Joined
    <3>3. ASSUME NEW i \in Area, Within(i, o, Len(u)) PROVE Image(w, i) = u[i - o + 1]
      <4>1. i < o + l /\ ~(i < o)
        BY <1>1, <1>2, <1>4, <3>3 DEF Within
      <4> QED BY <3>1, <4>1 DEF Joined
    <3> QED BY <3>1, <3>2, <3>3 DEF Added
  <2> QED BY <2>1, <2>2 DEF Written
<1>6. CASE v3.ok /\ b < Len(u)
  <2> DEFINE x == SubSeq(u, b + 1, l)
  <2>1. PICK s \in Nat : s = o + b
    BY <1>1, <1>3
  <2>2. w = [v3 EXCEPT !.held = TRUE, !.at = s, !.data = x]
    BY <1>2, <1>6, <2>1 DEF pack_wr_end_not_aligned_block
  <2>3. x \in Seq(Cell) /\ Len(x) = l - b /\ \A k \in 1 .. l - b : x[k] = u[b + k]
    BY <1>1, <1>2, <1>3, PartOK
  <2> HIDE DEF x
  <2>4. v3 \in Device
    BY DEF DeviceOK
  <2>5. /\ w \in Device /\ w.flash = v3.flash /\ w.head = v3.head /\ w.sum = v3.sum /\ w.held = TRUE
        /\ w.at = s /\ w.data = x /\ w.ok = v3.ok
    BY <2>1, <2>2, <2>3, <2>4 DEF Device
  <2>6. PICK y \in Nat : y = Len(x) /\ y = l - b /\ y > 0 /\ y < BLOCK
    BY <1>1, <1>2, <1>3, <1>6, <2>3
  <2>7. w.data # <<>> /\ Len(w.data) <= BLOCK /\ Len(w.data) < BLOCK
    <3>1. Len(w.data) = y
      BY <2>5, <2>6
    <3>2. Len(w.data) > 0 /\ Len(w.data) < BLOCK
      BY <2>6, <3>1
    <3> QED BY <1>1, <2>5, <3>2, DeviceFields
  <2>8. Shared(s)
    <3>1. s % BLOCK = 0
      BY <1>2, <1>3, <1>6, <2>1
    <3>2. s < End(r) /\ End(r) < s + BLOCK
      BY <1>1, <1>2, <1>3, <1>6, <2>1
    <3> QED BY <3>1, <3>2 DEF Shared
  <2>9. DeviceOK(w)
    BY <2>5, <2>7, <2>8 DEF DeviceOK
  <2>10. ASSUME Going(v, o) PROVE Added(v, o, u, w)
    <3>1. Joined(v, o, u, b, v3) /\ ~v3.held
      BY <1>1, <1>2, <1>3, <1>6, <2>10
    <3>2. ASSUME NEW i \in Area, i < s PROVE Image(w, i) = IF i < o THEN Image(v, i) ELSE u[i - o + 1]
      <4>1. ~Within(i, w.at, Len(w.data))
        BY <1>4, <2>1, <2>5, <3>2 DEF Within
      <4>2. Image(w, i) = Image(v3, i)
        BY <2>5, <3>1, <4>1 DEF Image
      <4> QED BY <2>1, <3>1, <3>2, <4>2 DEF Joined
    <3>3. ASSUME NEW i \in Area, i < o PROVE Image(w, i) = Image(v, i)
      <4>1. i < s
        BY <1>1, <1>3, <1>4, <2>1, <3>3
      <4> QED BY <3>2, <3>3, <4>1
    <3>4. ASSUME NEW i \in Area, Within(i, o, Len(u)) PROVE Image(w, i) = u[i - o + 1]
      <4>1. ~(i < o) /\ i < o + l
        BY <1>1, <1>2, <1>4, <3>4 DEF Within
      <4>2. CASE i < s
        BY <3>2, <4>1, <4>2
      <4>3. CASE ~(i < s)
        <5>1. w.at = s /\ Len(w.data) = y /\ i \in Nat
          BY <1>4, <2>5, <2>6
        <5>3. i < s + y
          BY <1>1, <1>3, <2>1, <2>6, <4>1, <5>1
        <5>4. Within(i, w.at, Len(w.data))
          BY <4>3, <5>1, <5>3 DEF Within
        <5>5. i - s + 1 \in 1 .. l - b
          BY <2>6, <4>3, <5>1, <5>3
        <5>6. b + (i - s + 1) = i - o + 1
          BY <1>1, <1>3, <2>1, <5>1
        <5>7. Image(w, i) = x[i - s + 1]
          BY <2>5, <5>1, <5>4 DEF Image
        <5> QED BY <2>3, <5>5, <5>6, <5>7
      <4> QED BY <4>2, <4>3
    <3> QED BY <3>3, <3>4 DEF Added
  <2> QED BY <2>5, <2>7, <2>9, <2>10 DEF Written
<1> QED BY <1>5, <1>6

\* All of pack_wr_write.
LEMMA SoftwareWritten ==
  ASSUME NEW v, DeviceOK(v), v.ok, NEW r \in Pieces, NEW o, NEW u, Brought(r, o, u),
         NEW w, w = pack_wr_write(v, o, u)
  PROVE  Written(v, o, u, w)
<1> DEFINE a == IF o % BLOCK = 0 THEN 0 ELSE Min({Len(u), BLOCK - (o % BLOCK)})
           n == (Len(u) - a) \div BLOCK
           b == a + n * BLOCK
           v1 == IF v.held /\ v.at + Len(v.data) # o /\ v.data # <<>>
                 THEN pack_wr_write_stored_data(v) ELSE v
           v2 == IF v1.ok /\ a > 0 THEN pack_wr_begin_not_aligned(v1, o, SubSeq(u, 1, a)) ELSE v1
           v3 == IF v2.ok THEN pack_wr_entire_blocks(v2, o + a, SubSeq(u, a + 1, b)) ELSE v2
<1>1. w = IF v3.ok /\ b < Len(u)
          THEN pack_wr_end_not_aligned_block(v3, o + b, SubSeq(u, b + 1, Len(u))) ELSE v3
  BY DEF pack_wr_write
<1>2. Split(o, Len(u), a, n, b)
  BY DEF Split
<1>3. o \in Nat
  BY BroughtOK
<1> HIDE DEF a, n, b
<1>4. Ready(v, o, v1)
  BY <1>3, ReadyOK
<1> HIDE DEF v1
<1>5. /\ DeviceOK(v2) /\ v2.head = v.head /\ v2.sum = v.sum
      /\ v2.ok /\ Going(v, o) =>
           Joined(v, o, u, a, v2) /\ (v2.held => a = Len(u) /\ Len(v2.data) < BLOCK)
  BY <1>2, <1>4, BegunOK
<1> HIDE DEF v2
<1>6. /\ DeviceOK(v3) /\ v3.head = v2.head /\ v3.sum = v2.sum
      /\ v3.held = v2.held /\ v3.data = v2.data /\ (v3.ok => v2.ok)
      /\ v3.ok /\ Joined(v, o, u, a, v2) => Joined(v, o, u, b, v3)
  BY <1>2, <1>5, MiddleOK
<1> HIDE DEF v3
<1>7. v3.ok /\ Going(v, o) =>
        Joined(v, o, u, b, v3) /\ (v3.held => a = Len(u) /\ Len(v3.data) < BLOCK)
  BY <1>5, <1>6
<1> QED BY <1>1, <1>2, <1>5, <1>6, <1>7, LastOK

\* What was hashed is what the image holds; or it has a head's length too much,
\* because it began with what the flash held after a gap.
Good(v) ==
  /\ Len(v.sum.data) + HEAD = v.sum.at
  /\ v.held => Len(v.data) < BLOCK
  /\ \A i \in Area : i + HEAD < v.sum.at => Image(v, i) = v.sum.data[i + 1]
Bad(v) == Len(v.sum.data) = v.sum.at

\* The fields of a checksum.
LEMMA SumFields ==
  ASSUME NEW v \in Device
  PROVE  v.sum.set \in BOOLEAN /\ v.sum.at \in Nat /\ v.sum.data \in Seq(Cell) /\ Len(v.sum.data) \in Nat
<1>1. v.sum \in Checksum
  BY DEF Device
<1>2. v.sum.set \in BOOLEAN /\ v.sum.at \in Nat /\ v.sum.data \in Seq(Cell)
  BY <1>1 DEF Checksum
<1> QED BY <1>2, LenProperties

\* The checksum that is begun, or that went on, after u were written from offset o.
SumOf(w, o, u) ==
  DeviceOK(w) /\ w.ok /\ w.sum.set /\ w.sum.at = o + HEAD + Len(u) /\ (Good(w) \/ Bad(w))

\* What pack_checksum_update_data makes of it.
LEMMA SummedOK ==
  ASSUME NEW v, DeviceOK(v), NEW r \in Pieces, NEW o, NEW u, Brought(r, o, u),
         o = 0 => v.sum.data = <<>>,
         o > 0 /\ v.sum.set /\ v.sum.at = o + HEAD => Good(v) \/ Bad(v),
         NEW e, Written(v, o, u, e), e.ok,
         NEW w, w = pack_checksum_update_data(e, o + HEAD, u)
  PROVE  SumOf(w, o, u)
<1>1. /\ o \in Nat /\ u \in Seq(Cell) /\ Len(u) \in Nat /\ o + Len(u) <= TOTAL - HEAD /\ HEAD \in Nat
      /\ TOTAL \in Nat /\ BLOCK \in Nat
  BY BroughtOK, PackageAssumption DEF Brought
<1>2. /\ DeviceOK(e) /\ e.sum = v.sum /\ e \in Device /\ v \in Device
      /\ Going(v, o) => Added(v, o, u, e) /\ (e.held => Len(e.data) < BLOCK)
  BY DEF Written, DeviceOK
<1>3. v.sum.set \in BOOLEAN /\ v.sum.at \in Nat /\ v.sum.data \in Seq(Cell) /\ Len(v.sum.data) \in Nat
  BY <1>2, SumFields
<1> DEFINE next == (e.sum.set /\ e.sum.at = o + HEAD) \/ o + HEAD = HEAD
           before == IF next THEN e.sum.data ELSE ReadFlash(e, 0, o + HEAD)
           g == before \o u
           s == [set |-> TRUE, at |-> o + HEAD + Len(u), data |-> g]
<1>4. w = [e EXCEPT !.sum = s]
  BY DEF pack_checksum_update_data
<1>5. before \in Seq(Cell) /\ (next => before = v.sum.data) /\ (~next => Len(before) = o + HEAD)
  <2>1. PICK n \in Nat : n = o + HEAD
    BY <1>1
  <2>2. 0 + n <= TOTAL + BLOCK
    BY <1>1, <2>1
  <2>3. ReadFlash(e, 0, n) \in Seq(Cell) /\ Len(ReadFlash(e, 0, n)) = n
    BY <1>2, <2>2, ReadOK
  <2>4. CASE next
    BY <1>2, <1>3, <2>4
  <2>5. CASE ~next
    BY <2>1, <2>3, <2>5
  <2> QED BY <2>4, <2>5
<1> HIDE DEF before
<1>6. /\ g \in Seq(Cell) /\ Len(g) = Len(before) + Len(u) /\ Len(before) \in Nat
      /\ \A k \in 1 .. Len(before) + Len(u) :
           g[k] = IF k <= Len(before) THEN before[k] ELSE u[k - Len(before)]
  BY <1>1, <1>5, ConcatProperties, LenProperties
<1> HIDE DEF g
<1>7. s \in Checksum
  BY <1>1, <1>6 DEF Checksum
<1>8. s.set /\ s.at = o + HEAD + Len(u) /\ s.data = g
  OBVIOUS
<1> HIDE DEF s
<1>9. /\ w \in Device /\ w.sum = s /\ w.flash = e.flash /\ w.held = e.held /\ w.at = e.at
      /\ w.data = e.data /\ w.ok = e.ok /\ w.head = e.head
  BY <1>2, <1>4, <1>7 DEF Device
<1>10. DeviceOK(w)
  BY <1>2, <1>9 DEF DeviceOK
<1>11. \A i \in Area : Image(w, i) = Image(e, i)
  BY <1>9 DEF Image
<1>12. CASE ~next
  <2>1. Bad(w)
    BY <1>1, <1>5, <1>6, <1>8, <1>9, <1>12 DEF Bad
  <2> QED BY <1>8, <1>9, <1>10, <2>1 DEF SumOf
<1>13. CASE next /\ o > 0
  <2>1. v.sum.set /\ v.sum.at = o + HEAD /\ before = v.sum.data
    BY <1>1, <1>2, <1>5, <1>13
  <2>2. CASE Bad(v)
    <3>1. Bad(w)
      BY <1>1, <1>6, <1>8, <1>9, <2>1, <2>2 DEF Bad
    <3> QED BY <1>8, <1>9, <1>10, <3>1 DEF SumOf
  <2>3. CASE Good(v)
    <3>1. /\ Len(before) = o /\ Going(v, o)
          /\ \A i \in Area : i + HEAD < o + HEAD => Image(v, i) = before[i + 1]
      BY <1>1, <1>3, <2>1, <2>3 DEF Good, Going
    <3>2. Added(v, o, u, e) /\ (w.held => Len(w.data) < BLOCK)
      BY <1>2, <1>9, <3>1
    <3>3. ASSUME NEW i \in Area, i + HEAD < o + HEAD + Len(u) PROVE Image(w, i) = g[i + 1]
      <4>1. i \in Nat
        BY PackageAssumption DEF Area
      <4>2. CASE i < o
        <5>1. i + 1 \in 1 .. o + Len(u) /\ i + 1 <= o /\ i + HEAD < o + HEAD
          BY <1>1, <4>1, <4>2
        <5>2. g[i + 1] = before[i + 1]
          BY <1>6, <3>1, <5>1
        <5>3. Image(e, i) = Image(v, i)
          BY <3>2, <4>2 DEF Added
        <5> QED BY <1>11, <3>1, <5>1, <5>2, <5>3
      <4>3. CASE ~(i < o)
        <5>1. Within(i, o, Len(u)) /\ i + 1 \in 1 .. o + Len(u) /\ ~(i + 1 <= o) /\ (i + 1) - o = i - o + 1
          BY <1>1, <3>3, <4>1, <4>3 DEF Within
        <5>2. g[i + 1] = u[i - o + 1]
          BY <1>6, <3>1, <5>1
        <5> QED BY <1>11, <3>2, <5>1, <5>2 DEF Added
      <4> QED BY <4>2, <4>3
    <3>4. Good(w)
      <4>1. w.sum.at = o + HEAD + Len(u) /\ w.sum.data = g
        BY <1>8, <1>9
      <4>2. Len(w.sum.data) + HEAD = w.sum.at
        <5>1. Len(g) = o + Len(u)
          BY <1>6, <3>1
        <5>2. PICK n \in Nat : n = Len(u)
          BY <1>1
        <5>3. Len(w.sum.data) = o + n /\ w.sum.at = o + HEAD + n
          BY <4>1, <5>1, <5>2
        <5> QED BY <1>1, <5>3
      <4>3. \A i \in Area : i + HEAD < w.sum.at => Image(w, i) = w.sum.data[i + 1]
        BY <3>3, <4>1
      <4> QED BY <3>2, <4>2, <4>3 DEF Good
    <3> QED BY <1>8, <1>9, <1>10, <3>4 DEF SumOf
  <2> QED BY <1>13, <2>1, <2>2, <2>3
<1>14. CASE o = 0
  <2>1. before = <<>> /\ Len(before) = 0
    BY <1>1, <1>5, <1>14, EmptySeq
  <2>2. Going(v, o)
    BY <1>14 DEF Going
  <2>3. Added(v, o, u, e) /\ (w.held => Len(w.data) < BLOCK)
    BY <1>2, <1>9, <2>2
  <2>4. ASSUME NEW i \in Area, i + HEAD < o + HEAD + Len(u) PROVE Image(w, i) = g[i + 1]
    <3>1. i \in Nat
      BY PackageAssumption DEF Area
    <3>2. Within(i, o, Len(u)) /\ i + 1 \in 1 .. Len(u) /\ i - o + 1 = i + 1
      BY <1>1, <1>14, <2>4, <3>1 DEF Within
    <3>3. g[i + 1] = u[i + 1]
      BY <1>1, <1>6, <2>1, <3>2
    <3> QED BY <1>11, <2>3, <3>2, <3>3 DEF Added
  <2>5. Good(w)
    BY <1>1, <1>6, <1>8, <1>9, <1>14, <2>1, <2>3, <2>4 DEF Good
  <2> QED BY <1>8, <1>9, <1>10, <2>5 DEF SumOf
<1> QED BY <1>1, <1>12, <1>13, <1>14

\* A piece is a part of its package.
LEMMA PieceOK ==
  ASSUME NEW p \in Packages, NEW r \in Pieces, NEW x, x = Piece(p, r)
  PROVE  /\ x \in Seq(Cell) /\ Len(x) = Length(r) - r * PIECE
         /\ \A k \in 1 .. Length(r) - r * PIECE : x[k] = Unit(p, r * PIECE + k - 1)
<1>1. /\ TOTAL \in Nat /\ r * PIECE \in Nat /\ Length(r) \in Nat /\ r * PIECE < Length(r)
      /\ Length(r) <= TOTAL
  BY PackageAssumption, PieceBounds
<1> DEFINE t == [i \in 1 .. TOTAL |-> Unit(p, i - 1)]
<1>2. t \in Seq(Cell) /\ Len(t) = TOTAL /\ \A i \in 1 .. TOTAL : t[i] = Unit(p, i - 1)
  <2>1. \A i \in 1 .. TOTAL : Unit(p, i - 1) \in Cell
    BY <1>1 DEF Unit, Cell
  <2> QED BY <1>1, <2>1
<1>3. x = SubSeq(t, r * PIECE + 1, Length(r))
  BY DEF Piece, Length
<1> HIDE DEF t
<1>4. PICK i \in Nat, j \in Nat : i = r * PIECE /\ j = Length(r)
  BY <1>1
<1>5. x \in Seq(Cell) /\ Len(x) = j - i /\ \A k \in 1 .. j - i : x[k] = t[i + k]
  <2>1. x = SubSeq(t, i + 1, j)
    BY <1>3, <1>4
  <2>2. i <= j /\ j <= Len(t)
    BY <1>1, <1>2, <1>4
  <2> QED BY <1>2, <2>1, <2>2, PartOK
<1>6. ASSUME NEW k \in 1 .. j - i PROVE x[k] = Unit(p, i + k - 1)
  <2>1. i + k \in 1 .. TOTAL
    BY <1>1, <1>4
  <2> QED BY <1>2, <1>5, <2>1
<1> QED BY <1>4, <1>5, <1>6

\* What the checksum must be when piece r comes.
Hashing(v, r) ==
  /\ ~v.sum.set => v.sum.data = <<>>
  /\ r > 0 /\ v.sum.set => r * PIECE # HEAD
  /\ r > 0 /\ v.sum.set /\ v.sum.at = r * PIECE => Good(v) \/ Bad(v)

\* What it is when that piece is written: complete, or as it was before, or reset.
Hashed(v, r, w) ==
  /\ DeviceOK(w) /\ (~w.sum.set => w.sum.data = <<>>)
  /\ w.ok /\ w.sum.set => w.sum.at = Length(r) /\ (Good(w) \/ Bad(w))
  /\ ~w.ok => ~w.sum.set \/ (r > 0 /\ w.sum = v.sum)
  /\ r = 0 /\ HEAD = PIECE => ~w.sum.set

\* What pack_head_parse makes of the device, before piece r is written.
Parsed(v, r, x) ==
  /\ DeviceOK(x) /\ x.held = v.held /\ x.data = v.data
  /\ \A i \in Area : Image(x, i) = Image(v, i)
  /\ r > 0 => x.sum = v.sum
  /\ r = 0 => x.ok = v.ok /\ ~x.sum.set /\ x.sum.data = <<>>

\* A first piece resets the checksum, and brings the head.
LEMMA ParsedOK ==
  ASSUME NEW v, DeviceOK(v), NEW p \in Packages, NEW r \in Pieces,
         NEW x, x = pack_head_parse(v, r * PIECE, Piece(p, r))
  PROVE  Parsed(v, r, x)
<1>1. /\ v \in Device /\ r \in Nat /\ r * PIECE \in Nat /\ r * PIECE < Length(r) /\ Length(r) \in Nat
      /\ (r > 0 => PIECE <= r * PIECE) /\ PIECE \in Nat \ {0}
  BY PieceBounds, PackageAssumption, FotaAssumption DEF DeviceOK
<1> DEFINE s == [set |-> FALSE, at |-> 0, data |-> <<>>]
<1>2. CASE r = 0
  <2>1. r * PIECE = 0
    BY <1>1, <1>2
  <2> DEFINE h == Piece(p, r)[1][1]
  <2>2. h \in Packages
    <3>1. 1 \in 1 .. Length(r) - r * PIECE
      BY <1>1
    <3>2. Piece(p, r)[1] = Unit(p, r * PIECE + 1 - 1)
      BY <3>1, PieceOK
    <3> QED BY <3>2 DEF Unit
  <2>3. x = [v EXCEPT !.head = h, !.sum = s]
    BY <2>1 DEF pack_head_parse
  <2>4. s \in Checksum /\ s.set = FALSE /\ s.data = <<>>
    BY EmptySeq DEF Checksum
  <2> HIDE DEF s, h
  <2>5. /\ x \in Device /\ x.sum = s /\ x.flash = v.flash /\ x.held = v.held /\ x.at = v.at
        /\ x.data = v.data /\ x.ok = v.ok
    BY <1>1, <2>2, <2>3, <2>4 DEF Device
  <2>6. DeviceOK(x)
    BY <2>5 DEF DeviceOK
  <2>7. \A i \in Area : Image(x, i) = Image(v, i)
    BY <2>5 DEF Image
  <2> QED BY <1>2, <2>4, <2>5, <2>6, <2>7 DEF Parsed
<1>3. CASE r > 0
  <2>1. r * PIECE # 0
    <3>1. PICK y \in Nat : y = r * PIECE
      BY <1>1
    <3> QED BY <1>1, <1>3, <3>1
  <2> DEFINE k == v.head # NoPackage
  <2>2. k \in BOOLEAN
    OBVIOUS
  <2>3. x = [v EXCEPT !.ok = k]
    BY <2>1 DEF pack_head_parse
  <2> HIDE DEF k
  <2>4. /\ x \in Device /\ x.sum = v.sum /\ x.flash = v.flash /\ x.held = v.held /\ x.at = v.at
        /\ x.data = v.data
    BY <1>1, <2>2, <2>3 DEF Device
  <2>5. DeviceOK(x)
    BY <2>4 DEF DeviceOK
  <2>6. \A i \in Area : Image(x, i) = Image(v, i)
    BY <2>4 DEF Image
  <2> QED BY <1>3, <2>4, <2>5, <2>6 DEF Parsed
<1> QED BY <1>1, <1>2, <1>3

\* All of write_software.
LEMMA SoftwareOK ==
  ASSUME NEW v, DeviceOK(v), NEW p \in Packages, NEW r \in Pieces, Hashing(v, r),
         NEW w, w = write_software(v, r * PIECE, Piece(p, r))
  PROVE  Hashed(v, r, w)
<1>1. /\ r \in Nat /\ r * PIECE \in Nat /\ r * PIECE < Length(r) /\ Length(r) \in Nat
      /\ (r > 0 => PIECE <= r * PIECE) /\ PIECE \in Nat \ {0} /\ HEAD \in Nat \ {0} /\ HEAD <= PIECE
      /\ Begin(r) \in Nat /\ Begin(r) <= End(r) /\ (r > 0 => Begin(r) < End(r)) /\ TOTAL \in Nat
      /\ HEAD < TOTAL
  BY PieceBounds, PackageAssumption, FotaAssumption
<1>2. PICK y \in Nat : y = r * PIECE /\ (r = 0 => y = 0) /\ (r > 0 => HEAD <= y)
  <2>1. r = 0 => r * PIECE = 0
    BY <1>1
  <2>2. PICK y \in Nat : y = r * PIECE
    BY <1>1
  <2> QED BY <1>1, <2>1, <2>2
<1> DEFINE units == Piece(p, r)
           used == IF y < HEAD THEN HEAD - y ELSE 0
           rest == SubSeq(units, used + 1, Len(units))
           d1 == pack_head_parse(v, y, units)
           o == y + used - HEAD
           d2 == pack_wr_write(d1, o, rest)
<1>3. w = IF ~d1.ok \/ rest = <<>> THEN d1
          ELSE IF ~d2.ok THEN d2 ELSE pack_checksum_update_data(d2, y + used, rest)
  BY <1>2 DEF write_software
<1>4. units \in Seq(Cell) /\ Len(units) = Length(r) - y
  BY <1>2, PieceOK
<1>5. Parsed(v, r, d1)
  BY <1>2, ParsedOK
<1>6. used \in Nat /\ (r = 0 => used = HEAD) /\ (r > 0 => used = 0) /\ o = Begin(r) /\ y + used = o + HEAD
  BY <1>1, <1>2 DEF Begin
<1> HIDE DEF units, d1, used, o
<1>7. HEAD <= Length(r) /\ used <= Len(units)
  <2>1. r = 0 => HEAD <= Length(r)
    <3>1. r = 0 => Length(r) = Min({TOTAL, PIECE})
      <4>1. (0 + 1) * PIECE = PIECE
        BY <1>1
      <4> QED BY <4>1 DEF Length
    <3>2. Min({TOTAL, PIECE}) = IF TOTAL <= PIECE THEN TOTAL ELSE PIECE
      BY <1>1, MinOfTwo
    <3> QED BY <1>1, <3>1, <3>2
  <2> QED BY <1>1, <1>2, <1>4, <1>6, <2>1
<1>8. rest \in Seq(Cell) /\ Len(rest) = Length(r) - y - used
  <2>1. PICK j \in Nat : j = Len(units)
    BY <1>1, <1>2, <1>4
  <2>2. used <= j /\ rest = SubSeq(units, used + 1, j)
    BY <1>7, <2>1
  <2> HIDE DEF rest
  <2>3. rest \in Seq(Cell) /\ Len(rest) = j - used
    BY <1>4, <1>6, <2>1, <2>2, PartOK
  <2> QED BY <1>1, <1>4, <2>1, <2>3
<1> HIDE DEF rest
<1>9. DeviceOK(d1) /\ (r > 0 => d1.sum = v.sum) /\ (r = 0 => ~d1.sum.set /\ d1.sum.data = <<>>)
  BY <1>5 DEF Parsed
<1>10. (~v.sum.set => v.sum.data = <<>>) /\ (~d1.sum.set => d1.sum.data = <<>>)
  BY <1>1, <1>9 DEF Hashing
<1>11. CASE ~d1.ok
  <2>1. w = d1 /\ ~w.ok
    BY <1>3, <1>11
  <2> QED BY <1>1, <1>9, <1>10, <2>1 DEF Hashed
<1>12. CASE d1.ok /\ rest = <<>>
  <2>1. w = d1
    BY <1>3, <1>12
  <2>2. r = 0
    <3>1. Len(rest) = 0
      BY <1>12, EmptySeq
    <3>2. r > 0 => Length(r) - y > 0
      BY <1>1, <1>2
    <3> QED BY <1>1, <1>2, <1>6, <1>8, <3>1, <3>2
  <2> QED BY <1>9, <1>10, <2>1, <2>2 DEF Hashed
<1>13. CASE d1.ok /\ rest # <<>>
  <2>1. Brought(r, o, rest)
    <3>1. Len(rest) \in Nat /\ Len(rest) # 0
      BY <1>8, <1>13, EmptySeq, LenProperties
    <3>2. o + Len(rest) = End(r)
      BY <1>1, <1>2, <1>6, <1>8 DEF End
    <3> QED BY <1>6, <1>8, <3>1, <3>2 DEF Brought
  <2>2. Written(d1, o, rest, d2)
    BY <1>9, <1>13, <2>1, SoftwareWritten
  <2> HIDE DEF d2
  <2>3. r = 0 => HEAD # PIECE
    <3>1. SUFFICES ASSUME r = 0, HEAD = PIECE PROVE FALSE
      OBVIOUS
    <3>2. Length(r) = Min({TOTAL, PIECE}) /\ Min({TOTAL, PIECE}) = IF TOTAL <= PIECE THEN TOTAL ELSE PIECE
      <4>1. (0 + 1) * PIECE = PIECE
        BY <1>1
      <4> QED BY <1>1, <3>1, <4>1, MinOfTwo DEF Length
    <3>3. Len(rest) = 0
      BY <1>1, <1>2, <1>6, <1>8, <3>1, <3>2
    <3> QED BY <2>1, <3>3 DEF Brought
  <2>4. CASE ~d2.ok
    <3>1. w = d2 /\ ~w.ok
      BY <1>3, <1>13, <2>4
    <3>2. DeviceOK(w) /\ w.sum = d1.sum
      BY <2>2, <3>1 DEF Written
    <3> QED BY <1>1, <1>9, <1>10, <2>3, <3>1, <3>2 DEF Hashed
  <2>5. CASE d2.ok
    <3>1. w = pack_checksum_update_data(d2, o + HEAD, rest)
      BY <1>3, <1>6, <1>13, <2>5
    <3>2. o = 0 => d1.sum.data = <<>>
      <4>1. SUFFICES ASSUME o = 0 PROVE d1.sum.data = <<>>
        OBVIOUS
      <4>2. CASE r = 0
        BY <1>9, <4>2
      <4>3. CASE r > 0
        <5>1. y = HEAD
          BY <1>1, <1>2, <1>6, <4>1, <4>3
        <5>2. ~v.sum.set
          BY <1>2, <4>3, <5>1 DEF Hashing
        <5> QED BY <1>9, <1>10, <4>3, <5>2
      <4> QED BY <1>1, <4>2, <4>3
    <3>3. o > 0 /\ d1.sum.set /\ d1.sum.at = o + HEAD => Good(d1) \/ Bad(d1)
      <4>1. SUFFICES ASSUME o > 0, d1.sum.set, d1.sum.at = o + HEAD PROVE Good(d1) \/ Bad(d1)
        OBVIOUS
      <4>2. r > 0
        BY <1>1, <1>9, <4>1
      <4>3. v.sum.set /\ v.sum.at = r * PIECE
        BY <1>2, <1>6, <1>9, <4>1, <4>2, <1>1
      <4>4. Good(v) \/ Bad(v)
        BY <4>2, <4>3 DEF Hashing
      <4>5. /\ d1.sum = v.sum /\ d1.held = v.held /\ d1.data = v.data
            /\ \A i \in Area : Image(d1, i) = Image(v, i)
        BY <1>5, <4>2 DEF Parsed
      <4> QED BY <4>4, <4>5 DEF Good, Bad
    <3>4. SumOf(w, o, rest)
      BY <1>9, <2>1, <2>2, <2>5, <3>1, <3>2, <3>3, SummedOK
    <3>5. DeviceOK(w) /\ w.ok /\ w.sum.set /\ w.sum.at = o + HEAD + Len(rest) /\ (Good(w) \/ Bad(w))
      BY <3>4 DEF SumOf
    <3>6. o + HEAD + Len(rest) = Length(r)
      BY <1>1, <1>2, <1>6, <1>8
    <3> QED BY <2>3, <3>5, <3>6 DEF Hashed
  <2> QED BY <2>4, <2>5
<1> QED BY <1>11, <1>12, <1>13

\* w has the image and the checksum of v, and holds no more.
Like(v, w) ==
  /\ DeviceOK(w) /\ w.sum = v.sum /\ w.head = v.head /\ w.data = v.data /\ (w.held => v.held)
  /\ \A i \in Area : Image(w, i) = Image(v, i)

\* The luck of the next call.
LEMMA WithOK ==
  ASSUME NEW v, DeviceOK(v), NEW n \in Nat, NEW w, w = With(v, n)
  PROVE  Like(v, w) /\ w.ok = TRUE /\ w.left = n /\ w.held = v.held /\ w.flash = v.flash
<1>1. v \in Device
  BY DEF DeviceOK
<1>2. /\ w \in Device /\ w.sum = v.sum /\ w.head = v.head /\ w.held = v.held /\ w.data = v.data
      /\ w.at = v.at /\ w.flash = v.flash /\ w.ok = TRUE /\ w.left = n
  BY <1>1 DEF With, Device
<1>3. DeviceOK(w)
  BY <1>2 DEF DeviceOK
<1>4. \A i \in Area : Image(w, i) = Image(v, i)
  BY <1>2 DEF Image
<1> QED BY <1>2, <1>3, <1>4 DEF Like

\* What is alike is as good.
LEMMA LikeGood ==
  ASSUME NEW v, NEW w, Like(v, w)
  PROVE  (Good(v) => Good(w)) /\ (Bad(v) => Bad(w))
BY DEF Like, Good, Bad

\* And so is what is like it.
LEMMA LikeLike ==
  ASSUME NEW v, NEW w, NEW x, Like(v, w), Like(w, x)
  PROVE  Like(v, x)
BY DEF Like

\* No write of a block that the flash has fails.
NoRewrite == "rewrite" \notin Faults

\* The luck that the end of a download has.
LEMMA EndLuckOK ==
  ASSUME NoRewrite, NEW e, NEW n \in EndLuck(e)
  PROVE  n \in Nat /\ (e.held \/ n > 0)
<1>1. WRITES \in Nat \ {0}
  BY PackageAssumption
<1>2. EndLuck(e) = IF e.held THEN Luck \cap {0, WRITES} ELSE {WRITES}
  BY DEF EndLuck, NoRewrite
<1> QED BY <1>1, <1>2

\* At the end of a download the block under construction is written; if that
\* succeeds the flash has all of the image.
LEMMA FlushOK ==
  ASSUME NoRewrite, NEW e, DeviceOK(e), NEW n \in EndLuck(e), NEW w, w = pack_wr_write_end(With(e, n))
  PROVE  Like(e, w) /\ (w.ok => ~w.held)
<1> DEFINE v == With(e, n)
<1>1. n \in Nat /\ (e.held \/ n > 0)
  BY EndLuckOK
<1>2. Like(e, v) /\ v.ok = TRUE /\ v.left = n /\ v.held = e.held
  BY <1>1, WithOK
<1>3. w = IF v.data = <<>> THEN v ELSE pack_wr_write_stored_data(v)
  BY DEF pack_wr_write_end
<1> HIDE DEF v
<1>4. DeviceOK(v)
  BY <1>2 DEF Like
<1>5. CASE v.data = <<>>
  BY <1>2, <1>3, <1>4, <1>5 DEF DeviceOK
<1>6. CASE v.data # <<>>
  <2>1. w = pack_wr_write_stored_data(v)
    BY <1>3, <1>6
  <2>2. v.ok /\ (v.held \/ v.left > 0)
    BY <1>1, <1>2
  <2>3. /\ DeviceOK(w) /\ w.head = v.head /\ w.sum = v.sum /\ w.at = v.at /\ w.data = v.data
        /\ w.held = (v.held /\ ~w.ok)
        /\ \A i \in Area : Image(w, i) = Image(v, i)
    BY <1>4, <1>6, <2>1, <2>2, StoredOK
  <2>4. Like(v, w)
    BY <2>3 DEF Like
  <2> QED BY <1>2, <2>3, <2>4, LikeLike
<1> QED BY <1>5, <1>6

\* A download that fails leaves the image and the checksum as they are.
LEMMA EndFailedOK ==
  ASSUME NoRewrite, NEW e, DeviceOK(e), NEW n \in EndLuck(e),
         NEW w, w = Settled(write_software_end(With(e, n), FALSE, 0))
  PROVE  Like(e, w)
<1> DEFINE f == pack_wr_write_end(With(e, n))
<1>1. Like(e, f)
  BY FlushOK
<1>2. w = With(f, WRITES)
  BY DEF Settled, write_software_end
<1> HIDE DEF f
<1>3. Like(f, w)
  <2>1. DeviceOK(f)
    BY <1>1 DEF Like
  <2>2. PICK k \in Nat : k = WRITES
    BY PackageAssumption
  <2> QED BY <1>2, <2>1, <2>2, WithOK
<1> QED BY <1>1, <1>3, LikeLike

\* A device without anything under way.
Idle(w) == DeviceOK(w) /\ ~w.sum.set /\ w.sum.data = <<>>

\* That is how it starts.
LEMMA DeviceInitOK ==
  ASSUME NEW f \in [Area -> Cell]
  PROVE  Idle(DeviceInit(f)) /\ DeviceInit(f).flash = f
<1> DEFINE s == [set |-> FALSE, at |-> 0, data |-> <<>>]
<1>1. s \in Checksum /\ <<>> \in Seq(Cell) /\ Len(<<>>) = 0
  BY EmptySeq DEF Checksum
<1>2. DeviceInit(f) \in Device
  BY <1>1, PackageAssumption DEF DeviceInit, Device, NoPackage
<1>3. \A i \in Area : ~Within(i, 0, 0)
  BY PackageAssumption DEF Area, Within
<1>4. DeviceOK(DeviceInit(f))
  BY <1>1, <1>2, <1>3 DEF DeviceOK, DeviceInit
<1> QED BY <1>4 DEF Idle, DeviceInit

\* A download that is complete is accepted only with the whole software in flash.
LEMMA EndCompleteOK ==
  ASSUME NoRewrite, NEW e, DeviceOK(e), NEW n \in EndLuck(e), NEW len,
         ~e.sum.set => e.sum.data = <<>>,
         e.sum.set => e.sum.at = len /\ (Good(e) \/ Bad(e)),
         NEW w, w = write_software_end(With(e, n), TRUE, len)
  PROVE  Idle(Settled(w)) /\ (w.ok => WholeImage(Settled(w)))
<1> DEFINE f == pack_wr_write_end(With(e, n))
           k == f.ok /\ pack_head_check(f, len)
           g == DeviceInit(f.flash)
<1>1. Like(e, f) /\ (f.ok => ~f.held)
  BY FlushOK
<1>2. w = [g EXCEPT !.ok = k]
  BY DEF write_software_end
<1> HIDE DEF f
<1>3. DeviceOK(f) /\ f \in Device /\ f.flash \in [Area -> Cell]
  BY <1>1, DeviceFields DEF Like, DeviceOK
<1>4. Idle(g) /\ g.flash = f.flash
  BY <1>3, DeviceInitOK
<1>5. k \in BOOLEAN
  <2>1. f.ok \in BOOLEAN /\ pack_head_check(f, len) \in BOOLEAN
    BY <1>3, DeviceFields DEF pack_head_check
  <2> QED BY <2>1
<1> HIDE DEF k, g
<1>6. /\ w \in Device /\ w.ok = k /\ w.flash = g.flash /\ w.held = g.held /\ w.at = g.at
      /\ w.data = g.data /\ w.sum = g.sum
  BY <1>2, <1>4, <1>5 DEF Idle, DeviceOK, Device
<1>7. Idle(w)
  BY <1>4, <1>6 DEF Idle, DeviceOK
<1>8. /\ Idle(Settled(w)) /\ Settled(w).flash = f.flash
  <2>1. DeviceOK(w)
    BY <1>7 DEF Idle
  <2>2. Like(w, With(w, WRITES)) /\ With(w, WRITES).flash = w.flash
    <3>1. PICK k1 \in Nat : k1 = WRITES
      BY PackageAssumption
    <3> QED BY <2>1, <3>1, WithOK
  <2> QED BY <1>4, <1>6, <1>7, <2>2 DEF Idle, Like, Settled
<1>9. ASSUME w.ok PROVE WholeImage(Settled(w))
  <2>1. /\ f.ok /\ ~f.held /\ f.head # NoPackage /\ len = TOTAL /\ f.sum.data = Software(f.head)
    BY <1>1, <1>6, <1>9 DEF k, pack_head_check
  <2>2. PICK p \in Packages : p = f.head
    BY <1>3, <2>1, DeviceFields
  <2>3. TOTAL \in Nat /\ HEAD \in Nat \ {0} /\ HEAD < TOTAL /\ TOTAL - HEAD \in Nat /\ BLOCK \in Nat
    BY PackageAssumption
  <2>4. PICK z \in Nat : z = TOTAL - HEAD
    BY <2>3
  <2> DEFINE t == Software(p)
  <2>5. t = [j \in 1 .. z |-> Unit(p, HEAD + j - 1)]
    BY <2>4 DEF Software
  <2>6. Len(t) = z /\ e.sum.data = t
    <3>1. e.sum.data = t
      BY <1>1, <2>1, <2>2 DEF Like
    <3>2. Len([j \in 1 .. z |-> Unit(p, HEAD + j - 1)]) = z
      OBVIOUS
    <3> HIDE DEF t
    <3> QED BY <2>5, <3>1, <3>2
  <2> HIDE DEF t
  <2>7. e.sum.set
    <3>1. Len(t) # 0
      BY <2>3, <2>4, <2>6
    <3> QED BY <2>6, <3>1, EmptySeq
  <2>8. e.sum.at = TOTAL /\ ~Bad(e)
    BY <2>1, <2>3, <2>4, <2>6, <2>7 DEF Bad
  <2>9. Good(e)
    BY <2>7, <2>8
  <2>10. ASSUME NEW j \in 1 .. z PROVE f.flash[0 + j - 1] = t[j]
    <3>1. PICK i \in Area : i = 0 + j - 1 /\ i + HEAD < TOTAL /\ i + 1 = j
      <4>1. j - 1 \in Area /\ j - 1 + HEAD < TOTAL
        BY <2>3, <2>4 DEF Area
      <4> QED BY <4>1
    <3>2. Image(e, i) = t[i + 1]
      BY <2>6, <2>8, <2>9, <3>1 DEF Good
    <3>3. Image(f, i) = f.flash[i]
      BY <2>1 DEF Image
    <3> QED BY <1>1, <3>1, <3>2, <3>3 DEF Like
  <2>11. ReadFlash(Settled(w), 0, TOTAL - HEAD) = [j \in 1 .. z |-> f.flash[0 + j - 1]]
    BY <1>8, <2>4 DEF ReadFlash
  <2>12. t = [j \in 1 .. z |-> t[j]]
    BY <2>5
  <2>13. ReadFlash(Settled(w), 0, TOTAL - HEAD) = Software(p)
    BY <2>10, <2>11, <2>12 DEF t
  <2> QED BY <2>13 DEF WholeImage
<1> QED BY <1>8, <1>9

-----------------------------------------------------------------------------
(* The device between the calls of the download                            *)

\* How the checksum goes on after piece k, the last that came.
Follows(v, k) ==
  /\ v.sum.at <= Length(k)
  /\ v.sum.at = Length(k) => Good(v) \/ Bad(v)
  /\ k = 0 => HEAD # PIECE

\* The record of the download.
Record == [inUse : BOOLEAN, uri : Uris \cup {NoUri}, num : Pieces]

\* The device between two calls of the download.
DeviceInv ==
  /\ DeviceOK(d) /\ (~d.sum.set => d.sum.data = <<>>)
  /\ fw \in Record
  /\ req = NoRequest \/ req = 0 \/ (fw.inUse /\ req = fw.num + 1)
  /\ fw.inUse /\ d.sum.set => Follows(d, fw.num)

\* A download begins with a piece there is.
LEMMA FirstPiece == 0 \in Pieces
<1>1. TOTAL - 1 \in Nat /\ PIECE \in Nat \ {0}
  BY PackageAssumption, FotaAssumption
<1>2. (TOTAL - 1) \div PIECE \in Nat
  BY <1>1, DivMod
<1> QED BY <1>2 DEF Pieces

\* The fields of the download's record.
LEMMA RecordFields ==
  ASSUME fw \in Record
  PROVE  fw.inUse \in BOOLEAN /\ fw.uri \in Uris \cup {NoUri} /\ fw.num \in Pieces /\ fw.num \in Nat
BY DEF Record, Pieces

\* A device like one before goes on like it.
LEMMA LikeFollows ==
  ASSUME NEW v, NEW w, Like(v, w), NEW k, ~v.sum.set => v.sum.data = <<>>, v.sum.set => Follows(v, k)
  PROVE  DeviceOK(w) /\ (~w.sum.set => w.sum.data = <<>>) /\ (w.sum.set => Follows(w, k))
<1>1. DeviceOK(w) /\ w.sum = v.sum
  BY DEF Like
<1>2. (Good(v) => Good(w)) /\ (Bad(v) => Bad(w))
  BY LikeGood
<1> QED BY <1>1, <1>2 DEF Follows

\* The checksum when a piece comes that was asked for.
LEMMA HashingOK ==
  ASSUME DeviceInv, req \in Pieces, NEW v, Like(d, v)
  PROVE  Hashing(v, req)
<1>1. /\ req = 0 \/ (fw.inUse /\ req = fw.num + 1)
      /\ fw.num \in Pieces /\ fw.num \in Nat /\ (fw.inUse /\ d.sum.set => Follows(d, fw.num))
      /\ ~d.sum.set => d.sum.data = <<>>
  BY RecordFields DEF DeviceInv, Pieces, NoRequest
<1>2. v.sum = d.sum
  BY DEF Like
<1>3. ASSUME req > 0, v.sum.set PROVE req * PIECE # HEAD
  <2>1. req = fw.num + 1 /\ Follows(d, fw.num)
    BY <1>1, <1>2, <1>3
  <2>2. PICK k \in Pieces : k = fw.num /\ k \in Nat
    BY <1>1
  <2>3. /\ PIECE \in Nat \ {0} /\ HEAD \in Nat /\ HEAD <= PIECE
        /\ k * PIECE \in Nat /\ (k > 0 => PIECE <= k * PIECE)
    BY <2>2, PieceBounds, PackageAssumption, FotaAssumption
  <2>4. PICK y \in Nat : y = k * PIECE
    BY <2>3
  <2>5. req * PIECE = y + PIECE
    BY <2>1, <2>2, <2>3, <2>4
  <2>6. CASE k = 0
    <3>1. y = 0
      BY <2>3, <2>4, <2>6
    <3>2. HEAD # PIECE
      BY <2>1, <2>2, <2>6 DEF Follows
    <3> QED BY <2>3, <2>5, <3>1, <3>2
  <2>7. CASE k > 0
    BY <2>3, <2>4, <2>5, <2>7
  <2> QED BY <2>2, <2>6, <2>7
<1>4. ASSUME req > 0, v.sum.set, v.sum.at = req * PIECE PROVE Good(v) \/ Bad(v)
  <2>1. Follows(d, fw.num) /\ req - 1 = fw.num
    BY <1>1, <1>2, <1>4
  <2>2. Length(req - 1) = req * PIECE
    BY <1>4, PieceBounds
  <2>3. Good(d) \/ Bad(d)
    BY <1>2, <1>4, <2>1, <2>2 DEF Follows
  <2> QED BY <2>3, LikeGood
<1> QED BY <1>1, <1>2, <1>3, <1>4 DEF Hashing

\* The device when that piece is written, or was tried.
Come(e) ==
  /\ DeviceOK(e) /\ (~e.sum.set => e.sum.data = <<>>) /\ (e.sum.set => Follows(e, req))
  /\ e.ok /\ e.sum.set => e.sum.at = Length(req) /\ (Good(e) \/ Bad(e))

\* That is what write_software leaves.
LEMMA ComeOK ==
  ASSUME DeviceInv, req \in Pieces, NEW p \in Packages, NEW n \in Nat,
         NEW e, e = write_software(With(d, n), req * PIECE, Piece(p, req))
  PROVE  Come(e)
<1> DEFINE v == With(d, n)
<1>1. Like(d, v)
  BY WithOK DEF DeviceInv
<1>2. e = write_software(v, req * PIECE, Piece(p, req))
  OBVIOUS
<1> HIDE DEF v
<1>3. Hashing(v, req) /\ DeviceOK(v) /\ v.sum = d.sum
  BY <1>1, HashingOK DEF Like
<1>4. Hashed(v, req, e)
  BY <1>2, <1>3, SoftwareOK
<1>5. /\ DeviceOK(e) /\ (~e.sum.set => e.sum.data = <<>>)
      /\ e.ok /\ e.sum.set => e.sum.at = Length(req) /\ (Good(e) \/ Bad(e))
      /\ ~e.ok => ~e.sum.set \/ (req > 0 /\ e.sum = d.sum)
      /\ req = 0 /\ HEAD = PIECE => ~e.sum.set
  BY <1>3, <1>4 DEF Hashed
<1>6. Length(req) \in Nat /\ req * PIECE \in Nat /\ req * PIECE < Length(req) /\ req \in Nat
      /\ (req > 0 => Length(req - 1) = req * PIECE)
  BY PieceBounds
<1>7. ASSUME e.sum.set PROVE Follows(e, req)
  <2>1. CASE e.ok
    BY <1>5, <1>6, <1>7, <2>1 DEF Follows
  <2>2. CASE ~e.ok
    <3>1. req > 0 /\ e.sum = d.sum
      BY <1>5, <1>7, <2>2
    <3>2. fw.inUse /\ req = fw.num + 1 /\ Follows(d, fw.num) /\ fw.num \in Nat
      BY <1>6, <1>7, <3>1, RecordFields DEF DeviceInv, NoRequest
    <3>3. d.sum.at <= req * PIECE
      <4>1. fw.num = req - 1
        BY <3>2
      <4> QED BY <1>6, <3>1, <3>2, <4>1 DEF Follows
    <3>4. d \in Device
      BY DEF DeviceInv, DeviceOK
    <3>5. PICK x \in Nat : x = d.sum.at
      BY <3>4, SumFields
    <3>6. e.sum.at <= Length(req) /\ e.sum.at # Length(req)
      BY <1>6, <3>1, <3>3, <3>5
    <3> QED BY <1>6, <3>1, <3>6 DEF Follows
  <2> QED BY <2>1, <2>2
<1> QED BY <1>5, <1>7 DEF Come

\* How a download ends: the package is accepted only if all of it is in the flash.
Ended == \E ok \in BOOLEAN : m' = finish_download(m, ok) /\ req' = NoRequest /\ (ok => WholeImage(d'))

\* No piece came.
LEMMA NoBlockOK ==
  ASSUME NoRewrite, DeviceInv, NoBlock
  PROVE  DeviceInv' /\ Ended
<1>1. PICK n \in EndLuck(d) : d' = Settled(write_software_end(With(d, n), FALSE, 0))
  BY DEF NoBlock, Fail
<1>2. fw' = fw /\ req' = NoRequest /\ m' = finish_download(m, FALSE)
  BY DEF NoBlock, Fail
<1>3. DeviceOK(d)
  BY DEF DeviceInv
<1>4. Like(d, d')
  BY <1>1, <1>3, EndFailedOK
<1>5. DeviceOK(d') /\ (~d'.sum.set => d'.sum.data = <<>>) /\ (fw.inUse /\ d'.sum.set => Follows(d', fw.num))
  <2>1. CASE fw.inUse
    BY <1>4, <2>1, LikeFollows DEF DeviceInv
  <2>2. CASE ~fw.inUse
    BY <1>4, <2>2 DEF DeviceInv, Like
  <2> QED BY <2>1, <2>2
<1> QED BY <1>2, <1>5 DEF DeviceInv, Ended, Follows, Length, Good, Bad, Image, DeviceOK, Shared, End

\* A piece came.
LEMMA ReplyOK ==
  ASSUME NoRewrite, DeviceInv, firmware_download_reply
  PROVE  DeviceInv' /\ (Ended \/ (m' = m /\ req' \in Nat))
<1>1. /\ req \in Pieces /\ req \in Nat /\ fw' = [fw EXCEPT !.inUse = @ \/ req = 0, !.num = req]
  BY DEF firmware_download_reply, Pieces
<1>2. PICK p \in Packages, n \in Luck :
       LET e == write_software(With(d, n), req * PIECE, Piece(p, req))
           last == req = (TOTAL - 1) \div PIECE
       IN \/ ~e.ok /\ Fail(e)
          \/ e.ok /\ ~last /\ d' = Settled(e) /\ req' = req + 1 /\ m' = m
          \/ e.ok /\ ~last /\ "start" \in Faults /\ Fail(e)
          \/ /\ e.ok /\ last /\ req' = NoRequest
             /\ \E k \in EndLuck(e) : LET f == write_software_end(With(e, k), TRUE, Length(req))
                               IN d' = Settled(f) /\ m' = finish_download(m, f.ok)
  BY DEF firmware_download_reply
<1>3. n \in Nat
  BY PackageAssumption DEF Luck
<1>4. PICK e : e = write_software(With(d, n), req * PIECE, Piece(p, req))
  OBVIOUS
<1>5. \/ Fail(e)
      \/ d' = Settled(e) /\ req' = req + 1 /\ m' = m
      \/ /\ e.ok /\ req' = NoRequest
         /\ \E k \in EndLuck(e) : LET f == write_software_end(With(e, k), TRUE, Length(req))
                           IN d' = Settled(f) /\ m' = finish_download(m, f.ok)
  BY <1>2, <1>4
<1>6. Come(e)
  BY <1>1, <1>3, <1>4, ComeOK
<1>7. /\ DeviceOK(e) /\ (~e.sum.set => e.sum.data = <<>>) /\ (e.sum.set => Follows(e, req))
      /\ e.ok /\ e.sum.set => e.sum.at = Length(req) /\ (Good(e) \/ Bad(e))
  BY <1>6 DEF Come
<1>8. fw' \in Record /\ fw'.inUse = TRUE /\ fw'.num = req
  <2>1. fw \in Record /\ (fw.inUse \/ req = 0)
    BY <1>1 DEF DeviceInv, NoRequest
  <2>2. fw.inUse \in BOOLEAN
    BY <2>1, RecordFields
  <2> DEFINE b == fw.inUse \/ req = 0
  <2>3. b = TRUE
    BY <2>1, <2>2
  <2>4. fw' = [fw EXCEPT !.inUse = b, !.num = req]
    BY <1>1, <2>1 DEF Record
  <2> HIDE DEF b
  <2> QED BY <1>1, <2>1, <2>3, <2>4 DEF Record
<1>9. ASSUME Like(e, d') PROVE DeviceOK(d') /\ (~d'.sum.set => d'.sum.data = <<>>) /\ (d'.sum.set => Follows(d', req))
  BY <1>7, <1>9, LikeFollows
<1>10. CASE Fail(e)
  <2>1. PICK k \in EndLuck(e) : d' = Settled(write_software_end(With(e, k), FALSE, 0))
    BY <1>10 DEF Fail
  <2>2. Like(e, d')
    BY <1>7, <2>1, EndFailedOK
  <2>3. req' = NoRequest /\ m' = finish_download(m, FALSE)
    BY <1>10 DEF Fail
  <2> QED BY <1>8, <1>9, <2>2, <2>3 DEF DeviceInv, Ended
<1>11. CASE d' = Settled(e) /\ req' = req + 1 /\ m' = m
  <2>1. Like(e, d')
    <3>1. PICK k \in Nat : k = WRITES
      BY PackageAssumption
    <3>2. d' = With(e, k)
      BY <1>11, <3>1 DEF Settled
    <3> QED BY <1>7, <3>2, WithOK
  <2> QED BY <1>1, <1>8, <1>9, <1>11, <2>1 DEF DeviceInv
<1>12. CASE /\ e.ok /\ req' = NoRequest
            /\ \E k \in EndLuck(e) : LET f == write_software_end(With(e, k), TRUE, Length(req))
                              IN d' = Settled(f) /\ m' = finish_download(m, f.ok)
  <2>1. PICK k \in EndLuck(e) : LET f == write_software_end(With(e, k), TRUE, Length(req))
                                IN d' = Settled(f) /\ m' = finish_download(m, f.ok)
    BY <1>12
  <2>2. PICK f : f = write_software_end(With(e, k), TRUE, Length(req))
    OBVIOUS
  <2>3. d' = Settled(f) /\ m' = finish_download(m, f.ok)
    BY <2>1, <2>2
  <2>4. Idle(d') /\ (f.ok => WholeImage(d'))
    BY <1>7, <1>12, <2>2, <2>3, EndCompleteOK
  <2>5. DeviceInv'
    BY <1>8, <1>12, <2>4 DEF DeviceInv, Idle
  <2>6. f.ok \in BOOLEAN
    BY <2>2 DEF write_software_end
  <2> QED BY <1>12, <2>3, <2>4, <2>5, <2>6 DEF Ended
<1> QED BY <1>5, <1>10, <1>11, <1>12

-----------------------------------------------------------------------------
(* The result that the manager keeps                                       *)

\* k is a manager's record with these fields.
Fields(k, st, rpt, result, wait) ==
  k \in Manager /\ k.st = st /\ k.rpt = rpt /\ k.result = result /\ k.waitAck = wait

\* What the manager's functions do to them.
LEMMA ViewSetResult ==
  ASSUME NEW k \in Manager, NEW r \in Result
  PROVE  Fields(SetResult(k, r), k.st, k.rpt, r, k.waitAck)
BY DEF Manager, SetResult, Fields, Result

\* A report of a state.
LEMMA ViewSave ==
  ASSUME NEW k \in Manager, NEW s \in State
  PROVE  Fields(save_rpt_state(k, s), k.st, s, k.result, TRUE)
<1> DEFINE k1 == [k EXCEPT !.rpt = s]
           k2 == [k1 EXCEPT !.waitAck = TRUE]
           k3 == [k2 EXCEPT !.lost = FALSE]
           k4 == [k3 EXCEPT !.notices = IF @ = {} THEN {} ELSE {"stale"}]
<1>1. k1 \in Manager /\ k1.st = k.st /\ k1.rpt = s /\ k1.result = k.result
  BY DEF Manager
<1>2. save_rpt_state(k, s) = k4
  BY DEF save_rpt_state
<1> HIDE DEF k1
<1>3. k2 \in Manager /\ k2.st = k.st /\ k2.rpt = s /\ k2.result = k.result /\ k2.waitAck = TRUE
  BY <1>1 DEF Manager
<1> HIDE DEF k2
<1>4. k3 \in Manager /\ k3.st = k.st /\ k3.rpt = s /\ k3.result = k.result /\ k3.waitAck = TRUE
  BY <1>3 DEF Manager
<1> HIDE DEF k3
<1>5. k4 \in Manager /\ k4.st = k.st /\ k4.rpt = s /\ k4.result = k.result /\ k4.waitAck = TRUE
  BY <1>4 DEF Manager
<1> HIDE DEF k4
<1> QED BY <1>2, <1>5 DEF Fields

\* The same, with the notification that is due.
LEMMA ViewReport ==
  ASSUME NEW k \in Manager, NEW s \in State
  PROVE  Fields(rpt_state(k, s), k.st, s, k.result, TRUE)
<1> DEFINE k1 == save_rpt_state(k, s)
<1>1. Fields(k1, k.st, s, k.result, TRUE)
  BY ViewSave
<1>2. rpt_state(k, s) = [k1 EXCEPT !.changed = TRUE]
  BY DEF rpt_state
<1> HIDE DEF k1
<1> QED BY <1>1, <1>2 DEF Fields, Manager

\* A state that is reached.
LEMMA ViewSetState ==
  ASSUME NEW k \in Manager, NEW s \in State
  PROVE  Fields(set_state(k, s), s, s, k.result, k.waitAck /\ k.st = s)
<1> DEFINE w == k.waitAck /\ k.st = s
           k1 == [k EXCEPT !.st = s]
           k2 == [k1 EXCEPT !.rpt = s]
           k3 == [k2 EXCEPT !.waitAck = w]
<1>1. k1 \in Manager /\ k1.st = s /\ k1.result = k.result /\ k1.waitAck = k.waitAck
  BY DEF Manager
<1> HIDE DEF k1
<1>3. k2 \in Manager /\ k2.st = s /\ k2.rpt = s /\ k2.result = k.result /\ k2.waitAck = k.waitAck
  BY <1>1 DEF Manager
<1>2. set_state(k, s) = k3
  <2>1. set_state(k, s) = [k2 EXCEPT !.waitAck = @ /\ k.st = s]
    BY DEF set_state, k1
  <2> HIDE DEF k2
  <2> QED BY <1>3, <2>1 DEF Manager
<1> HIDE DEF k2
<1>5. w \in BOOLEAN
  OBVIOUS
<1> HIDE DEF w
<1>4. k3 \in Manager /\ k3.st = s /\ k3.rpt = s /\ k3.result = k.result /\ k3.waitAck = w
  BY <1>3, <1>5 DEF Manager
<1> HIDE DEF k3
<1> QED BY <1>2, <1>4 DEF Fields, w

\* An acknowledgement.
LEMMA ViewAcked ==
  ASSUME NEW k \in Manager
  PROVE  Fields(Acked(k), k.st, k.rpt, k.result, FALSE)
BY DEF Acked, Fields, Manager

\* A notification that is answered.
LEMMA ViewAnswered ==
  ASSUME m \in Manager, NEW n
  PROVE  Fields(Answered(n), m.st, m.rpt, m.result, m.waitAck)
BY DEF Answered, Fields, Manager

\* A failure that is reported.
LEMMA ViewFailed ==
  ASSUME NEW k \in Manager, NEW s \in State
  PROVE  Fields(rpt_state(SetResult(k, "FAIL"), s), k.st, s, "FAIL", TRUE)
<1>1. PICK f : f = SetResult(k, "FAIL")
  OBVIOUS
<1>2. Fields(f, k.st, k.rpt, "FAIL", k.waitAck)
  BY <1>1, ViewSetResult DEF Result
<1>3. f \in Manager /\ f.st = k.st /\ f.result = "FAIL"
  BY <1>2 DEF Fields
<1>4. Fields(rpt_state(f, s), k.st, s, "FAIL", TRUE)
  BY <1>3, ViewReport
<1> QED BY <1>1, <1>4

\* A failure that is acknowledged.
LEMMA ViewRefused ==
  ASSUME NEW k \in Manager, NEW s \in State
  PROVE  Fields(Acked(rpt_state(SetResult(k, "FAIL"), s)), k.st, s, "FAIL", FALSE)
<1>1. PICK g : g = rpt_state(SetResult(k, "FAIL"), s)
  OBVIOUS
<1>2. g \in Manager /\ g.st = k.st /\ g.rpt = s /\ g.result = "FAIL"
  BY <1>1, ViewFailed DEF Fields
<1>3. Fields(Acked(g), k.st, s, "FAIL", FALSE)
  BY <1>2, ViewAcked
<1> QED BY <1>1, <1>3

\* The end of a download.
LEMMA ViewFinish ==
  ASSUME NEW k \in Manager, k.st = "DOWNLOADING", k.rpt = "DOWNLOADING", NEW ok \in BOOLEAN,
         NEW r, r = finish_download(k, ok)
  PROVE  /\ ok => Fields(r, "DOWNLOADING", "DOWNLOADED", k.result, TRUE)
         /\ ~ok => Fields(r, "DOWNLOADING", "IDLE", "FAIL", TRUE)
<1>1. r = IF ok THEN rpt_state(k, "DOWNLOADED") ELSE rpt_state(SetResult(k, "FAIL"), "IDLE")
  BY DEF finish_download
<1>2. Fields(rpt_state(k, "DOWNLOADED"), "DOWNLOADING", "DOWNLOADED", k.result, TRUE)
  BY ViewReport DEF State
<1>3. Fields(rpt_state(SetResult(k, "FAIL"), "IDLE"), "DOWNLOADING", "IDLE", "FAIL", TRUE)
  BY ViewFailed DEF State
<1> QED BY <1>1, <1>2, <1>3

-----------------------------------------------------------------------------
(* The image and the boot loader's flag                                    *)

\* A download is under way exactly while a block is asked for, and its state is
\* not waited for.
Downloading ==
  /\ m.st = "DOWNLOADING" /\ m.rpt = "DOWNLOADING" <=> req # NoRequest
  /\ m.st = "DOWNLOADING" /\ m.rpt = "DOWNLOADING" => ~m.waitAck

\* A state that offers the image for execution has a whole one, unless its result
\* says that something failed.
ImageInv ==
  /\ m.rpt \in {"DOWNLOADED", "UPDATING"} /\ m.result = "NULL" => WholeImage(d)
  /\ m.st = "DOWNLOADED" /\ m.rpt = "IDLE" => m.result # "NULL"
  /\ m.rpt = "UPDATING" => m.result = "NULL"

\* The boot loader is armed only on the way to it, and for a whole image.
Armed ==
  sector.boot = "NEED_UPGRADE" =>
    /\ phase \in {"record", "boot"} \/ (phase = "run" /\ m.st = "UPDATING")
    /\ WholeImage(d)

\* The inductive invariant.
SoundInv == DeviceInv /\ Downloading /\ ImageInv /\ Armed

\* What a manager that moves on may become while nothing else changes.
Fit(st, rpt, result, wait) ==
  /\ m.st = "UPDATING" => st = "UPDATING"
  /\ st = "DOWNLOADING" /\ rpt = "DOWNLOADING" <=> req # NoRequest
  /\ st = "DOWNLOADING" /\ rpt = "DOWNLOADING" => ~wait
  /\ rpt \in {"DOWNLOADED", "UPDATING"} /\ result = "NULL" => WholeImage(d)
  /\ st = "DOWNLOADED" /\ rpt = "IDLE" => result # "NULL"
  /\ rpt = "UPDATING" => result = "NULL"

\* Then the invariant goes on to hold.
LEMMA QuietOK ==
  ASSUME SoundInv, phase = "run", UNCHANGED <<d, fw, req, sector, phase>>,
         NEW st, NEW rpt, NEW result, NEW wait, Fields(m', st, rpt, result, wait),
         Fit(st, rpt, result, wait)
  PROVE  SoundInv'
<1>1. m'.st = st /\ m'.rpt = rpt /\ m'.result = result /\ m'.waitAck = wait
  BY DEF Fields
<1>2. d' = d /\ fw' = fw /\ req' = req /\ sector' = sector /\ phase' = phase
  OBVIOUS
<1>3. WholeImage(d') <=> WholeImage(d)
  BY <1>2
<1>4. DeviceInv'
  BY <1>2 DEF SoundInv, DeviceInv
<1>5. Downloading'
  BY <1>1, <1>2 DEF Fit, Downloading
<1>6. ImageInv'
  BY <1>1, <1>3 DEF Fit, ImageInv
<1>7. Armed'
  BY <1>1, <1>2, <1>3 DEF Fit, Armed, SoundInv
<1> QED BY <1>4, <1>5, <1>6, <1>7 DEF SoundInv

\* A manager that only looks different.
LEMMA SameFit ==
  ASSUME FotaInv, SoundInv
  PROVE  m \in Manager /\ Fit(m.st, m.rpt, m.result, m.waitAck) /\ (req # NoRequest <=> m.st = "DOWNLOADING" /\ m.rpt = "DOWNLOADING")
BY ManagerFacts DEF SoundInv, Downloading, ImageInv, Fit

\* The commands of the server.
LEMMA CommandsSound ==
  ASSUME FotaInv, SoundInv, Commands
  PROVE  SoundInv'
<1>1. /\ phase = "run" /\ m.st = m.rpt /\ UNCHANGED <<d, fw, req, sector, phase>> /\ m \in Manager
      /\ Fit(m.st, m.rpt, m.result, m.waitAck)
      /\ req # NoRequest <=> m.st = "DOWNLOADING" /\ m.rpt = "DOWNLOADING"
  BY SameFit DEF Commands, atiny_fota_manager_start_download,
       atiny_fota_manager_execute_update, Registered, Running, ManagerOnly, Kept
<1>2. CASE atiny_fota_manager_start_download
  <2>1. PICK u \in Uris : \E k \in {[m EXCEPT !.uri = u]} :
           m' = IF m.st \in {"IDLE", "DOWNLOADED"}
                THEN rpt_state(SetResult(k, "NULL"), "DOWNLOADING") ELSE k
    BY <1>2 DEF atiny_fota_manager_start_download
  <2>2. PICK k : /\ k = [m EXCEPT !.uri = u]
                 /\ m' = IF m.st \in {"IDLE", "DOWNLOADED"}
                         THEN rpt_state(SetResult(k, "NULL"), "DOWNLOADING") ELSE k
    BY <2>1
  <2>3. Fields(k, m.st, m.rpt, m.result, m.waitAck)
    BY <1>1, <2>2 DEF Manager, Fields
  <2>4. CASE m.st \in {"IDLE", "DOWNLOADED"}
    <3>1. PICK f : f = SetResult(k, "NULL")
      OBVIOUS
    <3>2. f \in Manager /\ f.st = m.st /\ f.result = "NULL"
      BY <2>3, <3>1, ViewSetResult DEF Fields, Result
    <3>3. Fields(m', m.st, "DOWNLOADING", "NULL", TRUE)
      BY <2>2, <2>4, <3>1, <3>2, ViewReport DEF State
    <3>4. Fit(m.st, "DOWNLOADING", "NULL", TRUE)
      BY <1>1, <2>4 DEF Fit
    <3> QED BY <1>1, <3>3, <3>4, QuietOK
  <2>5. CASE m.st \notin {"IDLE", "DOWNLOADED"}
    <3>1. m' = k
      BY <2>2, <2>5
    <3> QED BY <1>1, <2>3, <3>1, QuietOK
  <2> QED BY <2>4, <2>5
<1>3. CASE atiny_fota_manager_execute_update
  <2>1. /\ m.st = "DOWNLOADED" /\ m.rpt = "DOWNLOADED"
        /\ \/ m.result = "NULL" /\ m' = rpt_state(m, "UPDATING")
           \/ m' = rpt_state(SetResult(m, "FAIL"), "IDLE")
    BY <1>1, <1>3 DEF atiny_fota_manager_execute_update
  <2>2. CASE m.result = "NULL" /\ m' = rpt_state(m, "UPDATING")
    <3>1. Fields(m', m.st, "UPDATING", m.result, TRUE)
      BY <1>1, <2>2, ViewReport DEF State
    <3>2. Fit(m.st, "UPDATING", m.result, TRUE)
      BY <1>1, <2>1, <2>2 DEF Fit
    <3> QED BY <1>1, <3>1, <3>2, QuietOK
  <2>3. CASE m' = rpt_state(SetResult(m, "FAIL"), "IDLE")
    <3>1. Fields(m', m.st, "IDLE", "FAIL", TRUE)
      BY <1>1, <2>3, ViewFailed DEF State
    <3>2. Fit(m.st, "IDLE", "FAIL", TRUE)
      BY <1>1, <2>1 DEF Fit
    <3> QED BY <1>1, <3>1, <3>2, QuietOK
  <2> QED BY <2>1, <2>2, <2>3
<1> QED BY <1>2, <1>3 DEF Commands

\* The notification of a changed state, its loss, and answers that are not awaited.
LEMMA QuietSound ==
  ASSUME FotaInv, SoundInv, Notify \/ Unheard \/ AckIgnored
  PROVE  SoundInv'
<1>1. /\ phase = "run" /\ UNCHANGED <<d, fw, req, sector, phase>> /\ m \in Manager
      /\ Fit(m.st, m.rpt, m.result, m.waitAck)
  BY SameFit DEF Notify, Unheard, AckIgnored, Running, ManagerOnly, Kept
<1>2. Fields(m', m.st, m.rpt, m.result, m.waitAck)
  <2>1. CASE Notify
    <3> DEFINE k1 == [m EXCEPT !.changed = FALSE]
    <3>1. Fields(k1, m.st, m.rpt, m.result, m.waitAck)
      BY <1>1 DEF Manager, Fields
    <3>2. m' = [k1 EXCEPT !.notices = @ \cup {"fresh"}]
      BY <2>1 DEF Notify
    <3> HIDE DEF k1
    <3> QED BY <3>1, <3>2 DEF Manager, Fields
  <2>2. CASE AckIgnored
    <3>1. PICK n \in m.notices : m' = Answered(n)
      BY <2>2 DEF AckIgnored
    <3> QED BY <1>1, <3>1, ViewAnswered
  <2>3. CASE Unheard
    <3>1. m' = [m EXCEPT !.changed = FALSE, !.lost = TRUE]
      BY <2>3 DEF Unheard
    <3> QED BY <1>1, <3>1 DEF Manager, Fields
  <2> QED BY <2>1, <2>2, <2>3
<1> QED BY <1>1, <1>2, QuietOK

\* The acknowledgements that end a report.
LEMMA AckReachedSound ==
  ASSUME FotaInv, SoundInv, AckFailed \/ AckReached
  PROVE  SoundInv'
<1>1. PICK n \in m.notices :
        /\ Awaited(n) /\ m.st # "UPDATING"
        /\ \/ m' = Acked(set_state(SetResult(Answered(n), "FAIL"), "IDLE"))
           \/ /\ m.rpt \in {"IDLE", "DOWNLOADED"}
              /\ m' = Acked(IF m.st = "DOWNLOADED" /\ m.rpt = "DOWNLOADED"
                            THEN Answered(n) ELSE set_state(Answered(n), m.rpt))
  BY DEF AckFailed, AckReached
<1>2. /\ phase = "run" /\ UNCHANGED <<d, fw, req, sector, phase>> /\ m \in Manager
      /\ Fit(m.st, m.rpt, m.result, m.waitAck) /\ m.rpt \in State
      /\ req # NoRequest <=> m.st = "DOWNLOADING" /\ m.rpt = "DOWNLOADING"
  BY SameFit, ManagerFacts DEF AckFailed, AckReached, Running, ManagerOnly, Kept
<1>3. req = NoRequest
  BY <1>1, <1>2 DEF Fit, Awaited
<1>4. PICK k : k = Answered(n)
  OBVIOUS
<1>5. Fields(k, m.st, m.rpt, m.result, m.waitAck)
  BY <1>2, <1>4, ViewAnswered
<1>6. CASE m' = Acked(set_state(SetResult(k, "FAIL"), "IDLE"))
  <2>1. PICK f : f = SetResult(k, "FAIL")
    OBVIOUS
  <2>2. f \in Manager /\ f.result = "FAIL"
    BY <1>5, <2>1, ViewSetResult DEF Fields, Result
  <2>3. PICK g : g = set_state(f, "IDLE")
    OBVIOUS
  <2>4. g \in Manager /\ g.st = "IDLE" /\ g.rpt = "IDLE" /\ g.result = "FAIL"
    BY <2>2, <2>3, ViewSetState DEF Fields, State
  <2>5. Fields(m', "IDLE", "IDLE", "FAIL", FALSE)
    <3>1. m' = Acked(g)
      BY <1>6, <2>1, <2>3
    <3> QED BY <2>4, <3>1, ViewAcked
  <2>6. Fit("IDLE", "IDLE", "FAIL", FALSE)
    BY <1>1, <1>3 DEF Fit
  <2> QED BY <1>2, <2>5, <2>6, QuietOK
<1>7. CASE /\ m.rpt \in {"IDLE", "DOWNLOADED"}
           /\ m' = Acked(IF m.st = "DOWNLOADED" /\ m.rpt = "DOWNLOADED"
                         THEN k ELSE set_state(k, m.rpt))
  <2>1. PICK g : g = IF m.st = "DOWNLOADED" /\ m.rpt = "DOWNLOADED" THEN k ELSE set_state(k, m.rpt)
    OBVIOUS
  <2>2. g \in Manager /\ g.st = m.rpt /\ g.rpt = m.rpt /\ g.result = m.result
    <3>1. k \in Manager /\ k.st = m.st /\ k.rpt = m.rpt /\ k.result = m.result
      BY <1>5 DEF Fields
    <3>2. set_state(k, m.rpt) \in Manager /\ set_state(k, m.rpt).st = m.rpt
          /\ set_state(k, m.rpt).rpt = m.rpt /\ set_state(k, m.rpt).result = m.result
      BY <1>2, <3>1, ViewSetState DEF Fields
    <3>3. CASE m.st = "DOWNLOADED" /\ m.rpt = "DOWNLOADED"
      BY <2>1, <3>1, <3>3
    <3>4. CASE ~(m.st = "DOWNLOADED" /\ m.rpt = "DOWNLOADED")
      BY <2>1, <3>2, <3>4
    <3> QED BY <3>3, <3>4
  <2>3. Fields(m', m.rpt, m.rpt, m.result, FALSE)
    <3>1. m' = Acked(g)
      BY <1>7, <2>1
    <3> QED BY <2>2, <3>1, ViewAcked
  <2>4. Fit(m.rpt, m.rpt, m.result, FALSE)
    BY <1>1, <1>2, <1>3, <1>7 DEF Fit
  <2> QED BY <1>2, <2>3, <2>4, QuietOK
<1> QED BY <1>1, <1>4, <1>6, <1>7

\* A download begins, goes on, or fails to.
LEMMA AckDownloadingSound ==
  ASSUME FotaInv, SoundInv, AckDownloading
  PROVE  SoundInv'
<1>1. PICK n \in m.notices :
        /\ Awaited(n)
        /\ \/ req' = FirstBlock(fw') /\ m' = Acked(set_state(Answered(n), "DOWNLOADING"))
           \/ req' = req /\ m' = Acked(rpt_state(SetResult(Answered(n), "FAIL"), "IDLE"))
  BY DEF AckDownloading
<1>2. /\ phase = "run" /\ phase' = phase /\ sector' = sector /\ d' = d /\ m.st \in {"IDLE", "DOWNLOADED"}
      /\ fw' = StartFrom(m.uri) /\ m \in Manager /\ m.uri \in Uris \cup {NoUri}
      /\ Fit(m.st, m.rpt, m.result, m.waitAck)
  BY SameFit, ManagerFacts DEF AckDownloading, Running, Kept, Manager
<1>3. req = NoRequest
  BY <1>2 DEF Fit
<1>4. fw \in Record
  BY DEF SoundInv, DeviceInv
<1>5. /\ fw' \in Record
      /\ \/ fw' = fw /\ fw.inUse
         \/ fw'.inUse = FALSE
  <2>1. CASE fw.inUse /\ fw.uri = m.uri
    BY <1>2, <1>4, <2>1 DEF StartFrom
  <2>2. CASE ~(fw.inUse /\ fw.uri = m.uri)
    <3>1. fw' = [RecordInit EXCEPT !.uri = m.uri]
      BY <1>2, <2>2 DEF StartFrom
    <3> QED BY <1>2, <3>1, FirstPiece DEF RecordInit, Record
  <2> QED BY <2>1, <2>2
<1>6. ASSUME req' = NoRequest \/ req' = FirstBlock(fw') PROVE DeviceInv'
  <2>1. req' = NoRequest \/ req' = 0 \/ (fw'.inUse /\ req' = fw'.num + 1)
    BY <1>6 DEF FirstBlock
  <2>2. fw'.inUse /\ d'.sum.set => Follows(d', fw'.num)
    BY <1>2, <1>5 DEF SoundInv, DeviceInv
  <2> QED BY <1>2, <1>5, <2>1, <2>2 DEF SoundInv, DeviceInv
<1>7. WholeImage(d') <=> WholeImage(d)
  BY <1>2
<1>8. ~(sector'.boot = "NEED_UPGRADE")
  BY <1>2 DEF SoundInv, Armed
<1>9. PICK k : k = Answered(n)
  OBVIOUS
<1>10. Fields(k, m.st, m.rpt, m.result, m.waitAck)
  BY <1>2, <1>9, ViewAnswered
<1>11. CASE req' = FirstBlock(fw') /\ m' = Acked(set_state(k, "DOWNLOADING"))
  <2>1. PICK g : g = set_state(k, "DOWNLOADING")
    OBVIOUS
  <2>2. g \in Manager /\ g.st = "DOWNLOADING" /\ g.rpt = "DOWNLOADING"
    BY <1>10, <2>1, ViewSetState DEF Fields, State
  <2>3. m'.st = "DOWNLOADING" /\ m'.rpt = "DOWNLOADING" /\ m'.waitAck = FALSE
    <3>1. m' = Acked(g)
      BY <1>11, <2>1
    <3> QED BY <2>2, <3>1, ViewAcked DEF Fields
  <2>4. req' # NoRequest
    <3>1. fw'.num \in Nat
      BY <1>5 DEF Record, Pieces
    <3> QED BY <1>11, <3>1 DEF FirstBlock, NoRequest
  <2>5. Downloading'
    BY <2>3, <2>4 DEF Downloading
  <2>6. ImageInv' /\ Armed'
    BY <1>8, <2>3 DEF ImageInv, Armed
  <2> QED BY <1>6, <1>11, <2>5, <2>6 DEF SoundInv
<1>12. CASE req' = req /\ m' = Acked(rpt_state(SetResult(k, "FAIL"), "IDLE"))
  <2>1. Fields(m', m.st, "IDLE", "FAIL", FALSE)
    BY <1>10, <1>12, ViewRefused DEF Fields, State
  <2>2. m'.st = m.st /\ m'.rpt = "IDLE" /\ m'.result = "FAIL"
    BY <2>1 DEF Fields
  <2>3. Downloading'
    BY <1>3, <1>12, <2>2 DEF Downloading
  <2>4. ImageInv' /\ Armed'
    BY <1>8, <2>2 DEF ImageInv, Armed
  <2> QED BY <1>3, <1>6, <1>12, <2>3, <2>4 DEF SoundInv
<1> QED BY <1>1, <1>9, <1>11, <1>12

\* A piece comes, or none does.
LEMMA DownloadSound ==
  ASSUME NoRewrite, FotaInv, SoundInv, Download
  PROVE  SoundInv'
<1>1. /\ phase = "run" /\ phase' = phase /\ sector' = sector /\ m \in Manager /\ req # NoRequest
  <2>1. req \in Pieces => req # NoRequest
    BY DEF Pieces, NoRequest
  <2> QED BY <2>1, ManagerFacts DEF Download, NoBlock, firmware_download_reply, Running, Kept
<1>2. DeviceInv' /\ (Ended \/ (m' = m /\ req' \in Nat))
  BY NoBlockOK, ReplyOK DEF Download, SoundInv
<1>3. m.st = "DOWNLOADING" /\ m.rpt = "DOWNLOADING" /\ ~m.waitAck
  BY <1>1 DEF SoundInv, Downloading
<1>4. ~(sector'.boot = "NEED_UPGRADE")
  BY <1>1, <1>3 DEF SoundInv, Armed
<1>5. CASE Ended
  <2>1. PICK ok \in BOOLEAN : m' = finish_download(m, ok) /\ req' = NoRequest /\ (ok => WholeImage(d'))
    BY <1>5 DEF Ended
  <2>2. /\ ok => Fields(m', "DOWNLOADING", "DOWNLOADED", m.result, TRUE)
        /\ ~ok => Fields(m', "DOWNLOADING", "IDLE", "FAIL", TRUE)
    BY <1>1, <1>3, <2>1, ViewFinish
  <2>3. m'.st = "DOWNLOADING" /\ ((m'.rpt = "DOWNLOADED" /\ WholeImage(d')) \/ m'.rpt = "IDLE")
    BY <2>1, <2>2 DEF Fields
  <2>4. Downloading'
    BY <2>1, <2>3 DEF Downloading
  <2>5. ImageInv' /\ Armed'
    BY <1>4, <2>3 DEF ImageInv, Armed
  <2> QED BY <1>2, <2>4, <2>5 DEF SoundInv
<1>6. CASE m' = m /\ req' \in Nat
  <2>1. req' # NoRequest
    BY <1>6 DEF NoRequest
  <2>2. Downloading'
    BY <1>3, <1>6, <2>1 DEF Downloading
  <2>3. ImageInv' /\ Armed'
    BY <1>3, <1>4, <1>6 DEF ImageInv, Armed
  <2> QED BY <1>2, <2>2, <2>3 DEF SoundInv
<1> QED BY <1>2, <1>5, <1>6

\* The result of the last upgrade is reported.
LEMMA ReportSound ==
  ASSUME FotaInv, SoundInv, atiny_fota_idle_state_report_result
  PROVE  SoundInv'
<1>1. /\ phase = "run" /\ m.st = "IDLE" /\ UNCHANGED <<d, fw, req, sector, phase>> /\ m \in Manager
      /\ Fit(m.st, m.rpt, m.result, m.waitAck)
  BY SameFit DEF atiny_fota_idle_state_report_result, Running
<1>2. PICK f, k :
        /\ f = SetResult(m, IF report.ok THEN "SUCCESS" ELSE "FAIL")
        /\ k = save_rpt_state(f, IF report.ok THEN "IDLE" ELSE "DOWNLOADED")
        /\ m' = [k EXCEPT !.notices = @ \cup {"fresh"}] \/ m' = [k EXCEPT !.lost = TRUE]
  BY DEF atiny_fota_idle_state_report_result
<1>3. PICK r \in {"SUCCESS", "FAIL"}, s \in {"IDLE", "DOWNLOADED"} :
        /\ f = SetResult(m, r) /\ k = save_rpt_state(f, s) /\ (s = "DOWNLOADED" => r = "FAIL")
  BY <1>2
<1>4. f \in Manager /\ f.st = "IDLE" /\ f.result = r
  BY <1>1, <1>3, ViewSetResult DEF Fields, Result
<1>5. Fields(k, "IDLE", s, r, TRUE)
  BY <1>3, <1>4, ViewSave DEF State
<1>6. Fields(m', "IDLE", s, r, TRUE)
  <2>1. CASE m' = [k EXCEPT !.notices = @ \cup {"fresh"}]
    BY <1>5, <2>1 DEF Manager, Fields
  <2>2. CASE m' = [k EXCEPT !.lost = TRUE]
    BY <1>5, <2>2 DEF Manager, Fields
  <2> QED BY <1>2, <2>1, <2>2
<1>7. Fit("IDLE", s, r, TRUE)
  BY <1>1, <1>3 DEF Fit
<1> QED BY <1>1, <1>6, <1>7, QuietOK

\* A write that arms the boot loader does not fail half-way, and none of the token
\* fails.
NoArmFault == "token" \notin Faults /\ ~({"active", "half"} \subseteq Faults)

\* The boot loader is armed for an image that may be executed.
LEMMA ArmSound ==
  ASSUME NoArmFault, FotaInv, SoundInv, AckUpdating \/ Arm
  PROVE  SoundInv'
<1>1. UNCHANGED <<d, fw, req>> /\ m \in Manager /\ m.st = "DOWNLOADED" /\ m.rpt = "UPDATING"
      /\ phase \in {"run", "activate", "record"}
  BY ManagerFacts DEF AckUpdating, Arm, active_software, RecordToken, Running, FotaInv, PhaseOK
<1>2. DeviceInv' /\ (WholeImage(d') <=> WholeImage(d))
  BY <1>1 DEF SoundInv, DeviceInv
<1>3. req' = NoRequest /\ m.result = "NULL" /\ WholeImage(d)
  BY <1>1 DEF SoundInv, Downloading, ImageInv
<1>4. sector \in SectorType
  BY DEF FotaInv, FotaTypeOK, SectorType
<1>5. ASSUME NEW k, k \in Manager, k.st = "DOWNLOADED", m' = Acked(rpt_state(SetResult(k, "FAIL"), "DOWNLOADED"))
      PROVE  Downloading' /\ ImageInv'
  <2>1. Fields(m', "DOWNLOADED", "DOWNLOADED", "FAIL", FALSE)
    BY <1>5, ViewRefused DEF State
  <2>2. m'.st = "DOWNLOADED" /\ m'.rpt = "DOWNLOADED" /\ m'.result = "FAIL"
    BY <2>1 DEF Fields
  <2> QED BY <1>3, <2>2 DEF Downloading, ImageInv
<1>6. CASE AckUpdating
  <2>1. PICK n \in m.notices :
          \/ m' = Answered(n) /\ phase' = "activate"
          \/ m' = Acked(rpt_state(SetResult(Answered(n), "FAIL"), "DOWNLOADED"))
    BY <1>6 DEF AckUpdating
  <2>2. phase = "run" /\ sector' = sector
    BY <1>6 DEF AckUpdating, Running
  <2>3. PICK k : k = Answered(n)
    OBVIOUS
  <2>4. Fields(k, m.st, m.rpt, m.result, m.waitAck)
    BY <1>1, <2>3, ViewAnswered
  <2>5. ~(sector'.boot = "NEED_UPGRADE")
    BY <1>1, <2>2 DEF SoundInv, Armed
  <2>6. CASE m' = k
    <3>1. m'.st = "DOWNLOADED" /\ m'.rpt = "UPDATING" /\ m'.result = "NULL"
      BY <1>1, <1>3, <2>4, <2>6 DEF Fields
    <3>2. Downloading' /\ ImageInv'
      BY <1>2, <1>3, <3>1 DEF Downloading, ImageInv
    <3> QED BY <1>2, <2>5, <3>2 DEF SoundInv, Armed
  <2>7. CASE m' = Acked(rpt_state(SetResult(k, "FAIL"), "DOWNLOADED"))
    <3>1. Downloading' /\ ImageInv'
      BY <1>1, <1>5, <2>4, <2>7 DEF Fields
    <3> QED BY <1>2, <2>5, <3>1 DEF SoundInv, Armed
  <2> QED BY <2>1, <2>3, <2>6, <2>7
<1>7. CASE active_software
  <2>1. /\ phase = "activate"
        /\ \/ phase' = "record" /\ m' = m
           \/ Refused("active", "boot", "NEED_UPGRADE")
    BY <1>7 DEF active_software
  <2>2. CASE phase' = "record" /\ m' = m
    <3>1. Downloading' /\ ImageInv'
      BY <1>1, <1>2, <1>3, <2>2 DEF Downloading, ImageInv
    <3>2. Armed'
      BY <1>2, <1>3, <2>2 DEF Armed
    <3> QED BY <1>2, <3>1, <3>2 DEF SoundInv
  <2>3. CASE Refused("active", "boot", "NEED_UPGRADE")
    <3>1. /\ m' = Acked(rpt_state(SetResult(m, "FAIL"), "DOWNLOADED"))
          /\ WriteFails("boot", "NEED_UPGRADE") /\ "half" \notin Faults
      BY <2>3 DEF Refused, NoArmFault
    <3>2. Downloading' /\ ImageInv'
      BY <1>1, <1>5, <3>1
    <3>3. ~(sector'.boot = "NEED_UPGRADE")
      <4>1. sector' = sector \/ sector'.boot = "BAD"
        BY <1>4, <3>1, FailedWriteOK DEF BootFlag
      <4> QED BY <2>1, <4>1 DEF SoundInv, Armed
    <3> QED BY <1>2, <3>2, <3>3 DEF SoundInv, Armed
  <2> QED BY <2>1, <2>2, <2>3
<1>8. CASE RecordToken
  <2>1. phase' = "run" /\ m' = Acked(set_state(m, "UPDATING"))
    BY <1>8 DEF RecordToken, Refused, NoArmFault
  <2>2. PICK g : g = set_state(m, "UPDATING")
    OBVIOUS
  <2>3. g \in Manager /\ g.st = "UPDATING" /\ g.rpt = "UPDATING" /\ g.result = "NULL"
    BY <1>1, <1>3, <2>2, ViewSetState DEF Fields, State
  <2>4. m'.st = "UPDATING" /\ m'.rpt = "UPDATING" /\ m'.result = "NULL"
    <3>1. m' = Acked(g)
      BY <2>1, <2>2
    <3> QED BY <2>3, <3>1, ViewAcked DEF Fields
  <2>5. Downloading' /\ ImageInv'
    BY <1>2, <1>3, <2>4 DEF Downloading, ImageInv
  <2>6. Armed'
    BY <1>2, <1>3, <2>1, <2>4 DEF Armed
  <2> QED BY <1>2, <2>5, <2>6 DEF SoundInv
<1> QED BY <1>6, <1>7, <1>8 DEF Arm

\* A restart leaves the flash as it is.
LEMMA RestartSound ==
  ASSUME FotaInv, SoundInv, reboot_check \/ PowerLost
  PROVE  SoundInv'
<1>1. /\ phase' = "boot" /\ fw' = RecordInit /\ req' = NoRequest /\ m' = ManagerInit
      /\ d' = DeviceInit(d.flash)
      /\ \/ sector' = sector \/ sector' = ErasedSector
         \/ WritesSector /\ \E b \in BootWritten : sector' = HalfWritten(b)
  BY DEF reboot_check, PowerLost, Restart
<1>2. /\ d \in Device /\ fw \in Record
  BY DEF SoundInv, DeviceInv, DeviceOK
<1>3. Idle(d') /\ d'.flash = d.flash
  <2>1. d.flash \in [Area -> Cell]
    BY <1>2, DeviceFields
  <2>2. PICK f \in [Area -> Cell] : f = d.flash
    BY <2>1
  <2> QED BY <1>1, <2>2, DeviceInitOK
<1>4. fw' \in Record /\ fw'.inUse = FALSE
  <2> QED BY <1>1, FirstPiece DEF RecordInit, Record
<1>5. DeviceInv'
  BY <1>1, <1>3, <1>4 DEF DeviceInv, Idle
<1>6. WholeImage(d') <=> WholeImage(d)
  BY <1>3 DEF WholeImage, ReadFlash
<1>7. Downloading' /\ ImageInv'
  BY <1>1 DEF Downloading, ImageInv, ManagerInit
<1>8. sector'.boot = "NEED_UPGRADE" => WholeImage(d)
  <2>1. CASE sector' = sector \/ sector' = ErasedSector
    BY <2>1 DEF Armed, SoundInv, ErasedSector
  <2>2. ASSUME WritesSector, NEW b \in BootWritten, sector' = HalfWritten(b), b = "NEED_UPGRADE"
        PROVE  WholeImage(d)
    <3>1. phase = "activate" \/ sector.boot = "NEED_UPGRADE"
      BY <2>2 DEF BootWritten
    <3>2. phase = "activate" => m.rpt = "UPDATING"
      BY DEF FotaInv, PhaseOK
    <3> QED BY <3>1, <3>2 DEF SoundInv, Armed, ImageInv
  <2>3. \A b : HalfWritten(b).boot = b
    BY DEF HalfWritten
  <2> QED BY <1>1, <2>1, <2>2, <2>3
<1>9. Armed'
  BY <1>1, <1>6, <1>8 DEF Armed
<1> QED BY <1>5, <1>7, <1>9 DEF SoundInv

\* A step of the boot loader or of the agent's start that leaves no flag to upgrade.
LEMMA IdleSound ==
  ASSUME FotaInv, SoundInv, UNCHANGED <<d, fw, req, m>>, sector'.boot # "NEED_UPGRADE"
  PROVE  SoundInv'
BY DEF SoundInv, DeviceInv, Downloading, ImageInv, Armed

\* The boot loader does what it is told, and is told no more.
LEMMA BootSound ==
  ASSUME FotaInv, SoundInv, Bootloader
  PROVE  SoundInv'
<1>1. UNCHANGED <<d, fw, req, m>> /\ sector \in SectorType
  BY DEF Bootloader, recover_image, board_update_copy, board_jump2app, board_rollback_copy, FotaInv,
         FotaTypeOK, SectorType
<1>2. \A r \in {"SUCCEED", "FAILED"} : flag_write("boot", r) => sector'.boot = r
  BY <1>1, WriteOK DEF BootFlag
<1>3. recover_set_update_fail => sector' = sector \/ sector'.boot \in {"BAD", "FAILED"}
  <2>1. WriteFails("boot", "FAILED") => sector' = sector \/ sector'.boot \in {"BAD", "FAILED"}
    BY <1>1, FailedWriteOK DEF BootFlag
  <2> QED BY <1>2, <2>1 DEF recover_set_update_fail
<1>4. \/ sector' = sector /\ (phase = "boot" => sector.boot # "NEED_UPGRADE")
      \/ sector'.boot \in {"SUCCEED", "FAILED", "BAD"}
  <2>1. CASE recover_image
    BY <1>2, <2>1 DEF recover_image
  <2>2. CASE board_update_copy
    BY <1>3, <2>2 DEF board_update_copy
  <2>3. CASE board_jump2app
    BY <1>3, <2>3 DEF board_jump2app
  <2>4. CASE board_rollback_copy
    BY <2>4 DEF board_rollback_copy
  <2> QED BY <2>1, <2>2, <2>3, <2>4 DEF Bootloader
<1>5. phase \in {"boot", "copy", "jump", "rollback"}
  BY DEF Bootloader, recover_image, board_update_copy, board_jump2app, board_rollback_copy
<1>6. sector'.boot # "NEED_UPGRADE"
  BY <1>4, <1>5 DEF SoundInv, Armed
<1> QED BY <1>1, <1>6, IdleSound

\* The agent's start finds no flag to upgrade, and leaves none.
LEMMA StartSound ==
  ASSUME FotaInv, SoundInv, Start
  PROVE  SoundInv'
<1>1. /\ UNCHANGED <<d, fw, req, m>> /\ phase \in {"init", "consume", "clear", "drop"}
      /\ sector \in SectorType
  BY DEF Start, flag_upgrade_init, int_report_result, ClearToken, FotaInv, FotaTypeOK, SectorType
<1>2. sector.boot # "NEED_UPGRADE"
  BY <1>1 DEF SoundInv, Armed
<1>3. flag_write("boot", "IDLE") \/ WriteFails("boot", "IDLE") => sector'.boot # "NEED_UPGRADE"
  BY <1>1, <1>2, WriteOK, FailedWriteOK DEF BootFlag
<1>4. flag_write("app", "none") \/ WriteFails("app", "none") => sector'.boot # "NEED_UPGRADE"
  BY <1>1, <1>2, WriteOK, FailedWriteOK
<1>5. sector' = sector => sector'.boot # "NEED_UPGRADE"
  BY <1>2
<1>6. sector'.boot # "NEED_UPGRADE"
  BY <1>3, <1>4, <1>5 DEF Start, flag_upgrade_init, int_report_result, ClearToken
<1> QED BY <1>1, <1>6, IdleSound

\* Every step keeps the invariant.
LEMMA SoundStep ==
  ASSUME NoRewrite, NoArmFault, FotaInv, SoundInv, [FotaNext]_vars
  PROVE  SoundInv'
<1>1. CASE FotaNext
  BY <1>1, CommandsSound, QuietSound, AckReachedSound, AckDownloadingSound, DownloadSound,
     ReportSound, ArmSound, RestartSound, BootSound, StartSound DEF FotaNext, Acks
<1>2. CASE UNCHANGED vars
  BY <1>2 DEF vars, SoundInv, DeviceInv, Downloading, ImageInv, Armed
<1> QED BY <1>1, <1>2

\* The first start, with nothing in the image flash.
LEMMA SoundInit ==
  ASSUME FotaInit
  PROVE  SoundInv
<1>1. /\ d = DeviceInit([i \in Area |-> Erased]) /\ fw = RecordInit /\ req = NoRequest /\ m = ManagerInit
      /\ sector \in {ErasedSector, [boot |-> "IDLE", app |-> "none"]}
  BY DEF FotaInit
<1>2. Idle(d)
  <2>1. PICK f \in [Area -> Cell] : f = [i \in Area |-> Erased]
    BY ErasedCell
  <2> QED BY <1>1, <2>1, DeviceInitOK
<1>3. fw \in Record /\ fw.inUse = FALSE
  <2> QED BY <1>1, FirstPiece DEF RecordInit, Record
<1>4. DeviceInv
  BY <1>1, <1>2, <1>3 DEF DeviceInv, Idle
<1>5. Downloading /\ ImageInv /\ Armed
  BY <1>1 DEF Downloading, ImageInv, Armed, ManagerInit, ErasedSector
<1> QED BY <1>4, <1>5 DEF SoundInv

-----------------------------------------------------------------------------
(* The theorems                                                            *)

\* The invariant of the agent's start, work and restarts.
THEOREM FotaInvariance == FotaSpec => []FotaInv
<1>1. FotaInit => FotaInv
  BY FotaInitInv
<1>2. FotaInv /\ [FotaNext]_vars => FotaInv'
  BY FotaStep DEF StepOK
<1> QED BY <1>1, <1>2, PTL DEF FotaSpec

\* An agent that says it is updating has armed the boot loader and kept the token
\* it reports to, whichever writes failed or were torn before.
THEOREM ArmedWhenUpdating == FotaSpec => []UpdatingArmed
<1>1. FotaInv => UpdatingArmed
  BY DEF FotaInv
<1> QED BY <1>1, FotaInvariance, PTL

\* A success is reported exactly when the upgrade last asked for succeeded, wherever
\* power is lost and whichever writes fail, unless since the boot loader's last
\* upgrade the two have parted as report.parted records.
THEOREM ResultsTrue == FotaSpec => []ResultTrue
<1>1. FotaInit => FotaInv /\ ResultInv
  BY FotaInitInv
<1>2. (FotaInv /\ ResultInv) /\ [FotaNext]_vars => (FotaInv /\ ResultInv)'
  BY FotaStep DEF StepOK
<1>3. FotaInv /\ ResultInv => ResultTrue
  BY DEF ResultInv
<1> QED BY <1>1, <1>2, <1>3, PTL DEF FotaSpec

\* A manager that refuses commands waits for an answer to a notification that is
\* due, under way or known to be lost, and is downloading exactly while a block is
\* asked for; it takes that no start of a download that replaces an image fails.
THEOREM BusyStatesEnd ==
  ASSUME Answering
  PROVE  FotaSpec => []BusyEnds
<1>1. FotaInit => FotaInv /\ DownloadsEnd
  BY FotaInitInv
<1>2. (FotaInv /\ DownloadsEnd) /\ [FotaNext]_vars => (FotaInv /\ DownloadsEnd)'
  BY FotaStep DEF StepOK
<1>3. FotaInv /\ DownloadsEnd => BusyEnds
  BY DEF DownloadsEnd, BusyEnds
<1> QED BY <1>1, <1>2, <1>3, PTL DEF FotaSpec

\* The image that may be executed, and the one the boot loader is told to upgrade
\* from, is the whole software of one package, for every size of piece and block,
\* whichever writes of new data failed and wherever power was lost; it takes that
\* no write of a block that is in flash already fails, none of the token, and none
\* that arms the boot loader half-way.
THEOREM ImagesWhole ==
  ASSUME NoRewrite, NoArmFault
  PROVE  FotaSpec => []OnlyWholeImages
<1>1. FotaInit => FotaInv /\ SoundInv
  BY FotaInitInv, SoundInit
<1>2. (FotaInv /\ SoundInv) /\ [FotaNext]_vars => (FotaInv /\ SoundInv)'
  BY FotaStep, SoundStep DEF StepOK
<1>3. FotaInv /\ SoundInv => OnlyWholeImages
  <2>1. SUFFICES ASSUME FotaInv, SoundInv PROVE OnlyWholeImages
    OBVIOUS
  <2>2. m.rpt \in State
    BY <2>1, ManagerFacts
  <2> QED BY <2>1, <2>2 DEF SoundInv, ImageInv, Armed, OnlyWholeImages, State
<1> QED BY <1>1, <1>2, <1>3, PTL DEF FotaSpec
=============================================================================
