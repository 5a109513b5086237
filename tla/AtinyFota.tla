------------------------------ MODULE AtinyFota ------------------------------
(***************************************************************************)
(* The firmware update of the LwM2M agent, end to end: the manager and its *)
(* four states (atiny_fota_manager.c, atiny_fota_state.c), the block-wise  *)
(* download (firmware_update.c) into the package device (OtaPackage), the  *)
(* upgrade flags in their flash sector (ota/flag_operate), the boot loader *)
(* (bootloader_recover.c) and the report of the result after the restart.  *)
(*                                                                         *)
(* The agent is one task: a handler is one action, but a handler that      *)
(* writes the flag sector twice is a step per write, since power can be    *)
(* lost between them or in the middle of one, when the sector is erased.   *)
(***************************************************************************)
EXTENDS OtaPackage, Integers

CONSTANTS
  Uris,         \* the addresses a server gives
  PIECE,        \* the units of a CoAP block
  Faults,       \* what may fail, see AllFaults
  CrashPoints,  \* the phases before whose step power may be lost
  TornPoints,   \* the phases while whose step writes the sector it may be
  MAX_RESETS    \* the bound on restarts

\* A write of the image, or one that repeats a block the image has at the end of a
\* failed download; a write of the flag sector that arms the boot loader, keeps the
\* token, resets a bad flag, the result or the token, or records a failed upgrade,
\* and one that fails half-way; reading the token; asking for a block, of a first
\* download or one that replaces a downloaded image; sending the report of a
\* success or that of a failure.
AllFaults == {"flash", "rewrite", "active", "token", "init", "result", "clear", "verdict",
              "half", "read", "start", "restart", "success", "failure"}

\* The steps of the boot loader and of the agent's start; its normal work; the two
\* steps that arm the boot loader; no agent, as its start failed.
Booting == {"boot", "copy", "jump", "rollback"}
Starting == {"init", "consume", "clear", "drop"}
Phases == Booting \cup Starting \cup {"run", "activate", "record", "off"}

ASSUME FotaAssumption ==
  /\ PIECE \in Nat /\ HEAD <= PIECE /\ MAX_RESETS \in Nat /\ "none" \notin Uris
  /\ Faults \subseteq AllFaults /\ CrashPoints \cup TornPoints \subseteq Phases

VARIABLES
  d,            \* the package device and the image flash
  fw,           \* g_fw_update_record: in_use, uri, block_num
  req,          \* the block asked for, or NoRequest
  sector,       \* the flag sector: the boot loader's flag and the agent's token
  flag,         \* g_flag.upgrade_state
  m,            \* the manager, and the notifications of its state
  report,       \* report_flag, report_result; history: may it differ from outcome?
  phase,        \* what the agent is in the middle of
  outcome,      \* history: what became of the last upgrade asked for
  resets        \* the restarts so far

vars == <<d, fw, req, sector, flag, m, report, phase, outcome, resets>>

NoRequest == -1   \* no block is asked for
NoUri == "none"
Pieces == 0 .. (TOTAL - 1) \div PIECE

ManagerInit == [st |-> "IDLE", rpt |-> "IDLE", result |-> "NULL", waitAck |-> FALSE,
                uri |-> NoUri, changed |-> FALSE, lost |-> FALSE, notices |-> {}]
RecordInit == [inUse |-> FALSE, uri |-> NoUri, num |-> 0]
ReportInit == [flag |-> FALSE, ok |-> FALSE, parted |-> FALSE]
ErasedSector == [boot |-> "BAD", app |-> "garbage"]

FotaInit ==
  /\ d = DeviceInit([i \in Area |-> Erased])
  /\ fw = RecordInit /\ req = NoRequest
  /\ sector \in {ErasedSector, [boot |-> "IDLE", app |-> "none"]} /\ flag = "IDLE"
  /\ m = ManagerInit /\ report = ReportInit
  /\ phase = "init" /\ outcome = "none" /\ resets = 0

\* A plausible slip: the other part is not read back first.
FlagWriteAlone(part, value) == sector' = [ErasedSector EXCEPT ![part] = value]

\* flag_write reads the sector, replaces one part and writes it back.
flag_write(part, value) == sector' = [sector EXCEPT ![part] = value]

\* The sector is erased, then written a page at a time: first the boot loader's part.
HalfWritten(b) == [boot |-> b, app |-> "garbage"]

\* A write that fails before it erases, after it, or between the two pages.
WriteFails(part, value) ==
  \/ sector' \in {sector, ErasedSector}
  \/ /\ "half" \in Faults
     /\ sector' = HalfWritten(IF part = "boot" THEN value ELSE sector.boot)

-----------------------------------------------------------------------------
(* The manager, as functions of its record.                                *)

SetResult(k, r) == [k EXCEPT !.result = r]

\* A notification is fresh while it bears the manager's cookie.
save_rpt_state(k, s) ==
  [k EXCEPT !.rpt = s, !.waitAck = TRUE, !.lost = FALSE,
            !.notices = IF @ = {} THEN {} ELSE {"stale"}]

\* Who observes the state is tagged; if nobody does, Unheard is all that follows.
rpt_state(k, s) == [save_rpt_state(k, s) EXCEPT !.changed = TRUE]

set_state(k, s) == [k EXCEPT !.st = s, !.rpt = s, !.waitAck = @ /\ k.st = s]

finish_download(k, ok) ==
  IF k.st # k.rpt \/ k.st # "DOWNLOADING" THEN k
  ELSE IF ok THEN rpt_state(k, "DOWNLOADED")
  ELSE rpt_state(SetResult(k, "FAIL"), "IDLE")

\* A server commands a registered agent, which reports first.
Running == phase = "run"
Registered == Running /\ ~report.flag
Kept == UNCHANGED <<sector, flag, report, phase, outcome, resets>>
ManagerOnly == Kept /\ UNCHANGED <<d, fw, req>>

\* The server writes the package URI, which is kept even in a state whose
\* handler refuses to start.
atiny_fota_manager_start_download ==
  /\ Registered /\ m.st = m.rpt
  /\ \E u \in Uris :
       LET k == [m EXCEPT !.uri = u]
       IN m' = IF m.st \in {"IDLE", "DOWNLOADED"}
               THEN rpt_state(SetResult(k, "NULL"), "DOWNLOADING") ELSE k
  /\ ManagerOnly

\* The server executes the update, of an image whose result must still be NULL.
atiny_fota_manager_execute_update ==
  /\ Registered /\ m.st = m.rpt /\ m.st = "DOWNLOADED"
  /\ m' = IF m.result = "NULL" THEN rpt_state(m, "UPDATING")
          ELSE rpt_state(SetResult(m, "FAIL"), "IDLE")
  /\ ManagerOnly

\* The agent's step notifies the server of a changed state; the value and the
\* cookie are those of now.
Notify ==
  /\ Running /\ m.changed
  /\ m' = [m EXCEPT !.changed = FALSE, !.notices = @ \cup {"fresh"}]
  /\ ManagerOnly

\* Or there is nothing to acknowledge: nobody observed the state when it changed, the
\* observation was cancelled since or is of the whole object, which is notified
\* without confirmation, or sending failed, after which the tag goes all the same.
Unheard ==
  /\ Running /\ m.changed
  /\ m' = [m EXCEPT !.changed = FALSE, !.lost = TRUE]
  /\ ManagerOnly

\* Once registered the agent reports the result of the last upgrade.
atiny_fota_idle_state_report_result ==
  /\ Running /\ report.flag /\ m.st = "IDLE"
  /\ report' = [report EXCEPT !.flag = FALSE]
  /\ LET k == save_rpt_state(SetResult(m, IF report.ok THEN "SUCCESS" ELSE "FAIL"),
                             IF report.ok THEN "IDLE" ELSE "DOWNLOADED")
     IN \/ m' = [k EXCEPT !.notices = @ \cup {"fresh"}]
        \/ (IF report.ok THEN "success" ELSE "failure") \in Faults /\ m' = [k EXCEPT !.lost = TRUE]
  /\ UNCHANGED <<d, fw, req, sector, flag, phase, outcome, resets>>

-----------------------------------------------------------------------------
(* The acknowledgement of a notification.                                  *)

\* The callback takes the acknowledgement of a fresh notification only, and at
\* its end no longer waits, whatever the handler did.
Acked(k) == [k EXCEPT !.waitAck = FALSE]
Awaited(n) == m.waitAck /\ n = "fresh"
Answered(n) == [m EXCEPT !.notices = @ \ {n}]

AckIgnored ==
  /\ Running /\ \E n \in m.notices : ~Awaited(n) /\ m' = Answered(n)
  /\ ManagerOnly

AckFailed ==
  /\ Running /\ m.st # "UPDATING"
  /\ \E n \in m.notices :
       Awaited(n) /\ m' = Acked(set_state(SetResult(Answered(n), "FAIL"), "IDLE"))
  /\ ManagerOnly

\* Of a state reached: IDLE or DOWNLOADED.
AckReached ==
  /\ Running /\ m.st # "UPDATING" /\ m.rpt \in {"IDLE", "DOWNLOADED"}
  /\ \E n \in m.notices :
       Awaited(n) /\ m' = Acked(IF m.st = "DOWNLOADED" /\ m.rpt = "DOWNLOADED"
                                THEN Answered(n) ELSE set_state(Answered(n), m.rpt))
  /\ ManagerOnly

\* start_firmware_download: a download of the same URI goes on after the block
\* that came last.
StartFrom(uri) ==
  IF fw.inUse /\ fw.uri = uri THEN fw ELSE [RecordInit EXCEPT !.uri = uri]
FirstBlock(f) == IF f.inUse THEN f.num + 1 ELSE 0

\* Of DOWNLOADING, which starts the download.
AckDownloading ==
  /\ Running /\ m.st \in {"IDLE", "DOWNLOADED"} /\ m.rpt = "DOWNLOADING"
  /\ fw' = StartFrom(m.uri)
  /\ \E n \in m.notices :
       /\ Awaited(n)
       /\ \/ req' = FirstBlock(fw') /\ m' = Acked(set_state(Answered(n), "DOWNLOADING"))
          \/ /\ (IF m.st = "IDLE" THEN "start" ELSE "restart") \in Faults /\ req' = req
             /\ m' = Acked(rpt_state(SetResult(Answered(n), "FAIL"), "IDLE"))
  /\ Kept /\ UNCHANGED d

\* Of UPDATING, which arms the boot loader unless nobody observes the state itself
\* any more.
AckUpdating ==
  /\ Running /\ m.st = "DOWNLOADED" /\ m.rpt = "UPDATING"
  /\ \E n \in m.notices :
       /\ Awaited(n)
       /\ \/ m' = Answered(n) /\ phase' = "activate" /\ outcome' = "none"
          \/ /\ m' = Acked(rpt_state(SetResult(Answered(n), "FAIL"), "DOWNLOADED"))
             /\ UNCHANGED <<phase, outcome>>
  /\ UNCHANGED <<d, fw, req, sector, flag, report, resets>>

Refused(write, part, value) ==
  /\ write \in Faults /\ phase' = "run" /\ WriteFails(part, value)
  /\ m' = Acked(rpt_state(SetResult(m, "FAIL"), "DOWNLOADED"))

\* active_software sets the boot loader's flag in RAM, then in flash.
active_software ==
  /\ phase = "activate" /\ flag' = "NEED_UPGRADE"
  /\ \/ flag_write("boot", flag') /\ phase' = "record" /\ m' = m
     \/ Refused("active", "boot", flag')
  /\ UNCHANGED <<d, fw, req, report, outcome, resets>>

\* The agent keeps the token to report to, and asks for a reboot.
RecordToken ==
  /\ phase = "record"
  /\ \/ flag_write("app", "token") /\ phase' = "run" /\ m' = Acked(set_state(m, "UPDATING"))
     \/ Refused("token", "app", "token")
  /\ UNCHANGED <<d, fw, req, flag, report, outcome, resets>>

-----------------------------------------------------------------------------
(* The reply to a block request.                                           *)

Piece(p, b) == SubSeq([i \in 1 .. TOTAL |-> Unit(p, i - 1)],
                      b * PIECE + 1, Min({TOTAL, (b + 1) * PIECE}))
Length(b) == Min({TOTAL, (b + 1) * PIECE})

\* How many of a call's flash writes succeed; the end of a download makes one, of
\* the block it holds or, once more, of the one that was written last.
Luck == IF "flash" \in Faults THEN 0 .. WRITES ELSE {WRITES}
EndLuck(e) == IF e.held \/ "rewrite" \in Faults THEN Luck \cap {0, WRITES} ELSE {WRITES}
With(e, n) == [e EXCEPT !.left = n, !.ok = TRUE]
Settled(e) == With(e, WRITES)

\* The exit for every failure: the device keeps what it needs to go on from.
Fail(e) ==
  /\ \E n \in EndLuck(e) : d' = Settled(write_software_end(With(e, n), FALSE, 0))
  /\ req' = NoRequest /\ m' = finish_download(m, FALSE)

\* No answer in time, or one without a block, as for a block past the end.
NoBlock ==
  /\ Running /\ req # NoRequest /\ Fail(d)
  /\ Kept /\ UNCHANGED fw

\* A block of whatever package the server has there now.
firmware_download_reply ==
  /\ Running /\ req \in Pieces
  /\ fw' = [fw EXCEPT !.inUse = @ \/ req = 0, !.num = req]
  /\ \E p \in Packages, n \in Luck :
       LET e == write_software(With(d, n), req * PIECE, Piece(p, req))
           last == req = (TOTAL - 1) \div PIECE
       IN \/ ~e.ok /\ Fail(e)
          \/ e.ok /\ ~last /\ d' = Settled(e) /\ req' = req + 1 /\ m' = m
          \/ e.ok /\ ~last /\ "start" \in Faults /\ Fail(e)
          \/ /\ e.ok /\ last /\ req' = NoRequest
             /\ \E k \in EndLuck(e) : LET f == write_software_end(With(e, k), TRUE, Length(req))
                               IN d' = Settled(f) /\ m' = finish_download(m, f.ok)
  /\ Kept

-----------------------------------------------------------------------------
(* Restarts.                                                               *)

\* Everything in RAM is lost.
Restart(parted) ==
  /\ resets < MAX_RESETS /\ resets' = resets + 1 /\ phase' = "boot"
  /\ d' = DeviceInit(d.flash) /\ fw' = RecordInit /\ req' = NoRequest
  /\ flag' = "IDLE" /\ m' = ManagerInit /\ report' = [ReportInit EXCEPT !.parted = parted]
  /\ UNCHANGED outcome

reboot_check ==
  /\ Running /\ m.st = "UPDATING"
  /\ Restart(report.parted) /\ UNCHANGED sector

\* Power is lost before a step, or while it writes the flag sector.
WritesSector ==
  \/ phase \in {"copy", "jump", "activate", "record", "clear", "drop"}
  \/ phase = "boot" /\ sector.boot = "NEED_UPGRADE"
  \/ phase = "init" /\ sector.boot = "BAD"
  \/ phase = "consume" /\ sector.app # "none"

\* What it writes to the boot loader's part.
BootWritten ==
  CASE phase = "boot" -> {"SUCCEED", "FAILED"} [] phase \in {"copy", "jump"} -> {"FAILED"}
    [] phase \in {"init", "consume"} -> {"IDLE"} [] phase = "activate" -> {"NEED_UPGRADE"}
    [] OTHER -> {sector.boot}

\* The flag and the upgrade may part when power is lost while the new image is
\* copied, or between the reading of the result and the clearing of its token.
PowerLost ==
  \/ /\ phase \in CrashPoints /\ UNCHANGED sector
     /\ Restart(report.parted \/ phase \in {"copy", "clear"})
  \/ /\ phase \in TornPoints /\ WritesSector
     /\ sector' \in {ErasedSector} \cup {HalfWritten(b) : b \in BootWritten}
     /\ Restart(report.parted \/ phase \notin {"init", "activate", "record"})

-----------------------------------------------------------------------------
(* The boot loader.                                                        *)

\* The library upgrades if it is told to, and says how that went.
recover_image ==
  /\ phase = "boot"
  /\ \/ /\ sector.boot = "NEED_UPGRADE" /\ report' = [report EXCEPT !.parted = FALSE]
        /\ \/ flag_write("boot", "SUCCEED") /\ phase' = "copy" /\ outcome' = outcome
           \/ flag_write("boot", "FAILED") /\ phase' = "jump" /\ outcome' = "FAILED"
     \/ /\ sector.boot # "NEED_UPGRADE" /\ phase' = "jump"
        /\ UNCHANGED <<sector, report, outcome>>
  /\ UNCHANGED <<d, fw, req, flag, m, resets>>

\* Whether the failure is recorded is not looked at.
recover_set_update_fail ==
  /\ outcome' = "FAILED"
  /\ \/ flag_write("boot", "FAILED") /\ UNCHANGED report
     \/ /\ "verdict" \in Faults /\ WriteFails("boot", "FAILED")
        /\ report' = [report EXCEPT !.parted = TRUE]

\* The new image is copied to where it runs.
board_update_copy ==
  /\ phase = "copy" /\ phase' = "jump"
  /\ \/ outcome' = "SUCCEED" /\ UNCHANGED <<sector, report>>
     \/ recover_set_update_fail
  /\ UNCHANGED <<d, fw, req, flag, m, resets>>

\* An image that cannot be jumped to is replaced by the one that ran before.
board_jump2app ==
  /\ phase = "jump"
  /\ \/ phase' = "init" /\ UNCHANGED <<sector, outcome, report>>
     \/ phase' = "rollback" /\ recover_set_update_fail
  /\ UNCHANGED <<d, fw, req, flag, m, resets>>

board_rollback_copy ==
  /\ phase = "rollback" /\ phase' \in {"init", "off"}
  /\ UNCHANGED <<d, fw, req, sector, flag, m, report, outcome, resets>>

-----------------------------------------------------------------------------
(* The agent's start.                                                      *)

\* A plausible slip: the flag is reset at every start.
FlagInitAlways ==
  /\ phase = "init" /\ phase' = "consume"
  /\ flag' = "IDLE" /\ flag_write("boot", "IDLE")
  /\ UNCHANGED <<d, fw, req, m, report, outcome, resets>>

\* flag_upgrade_init resets a flag whose checksum is wrong. If it cannot read or
\* write the sector the agent does not start.
flag_upgrade_init ==
  /\ phase = "init"
  /\ \/ sector.boot = "BAD" /\ phase' = "consume" /\ flag' = "IDLE" /\ flag_write("boot", "IDLE")
     \/ sector.boot # "BAD" /\ phase' = "consume" /\ flag' = sector.boot /\ UNCHANGED sector
     \/ /\ "init" \in Faults /\ phase' = "off" /\ flag' = "IDLE"
        /\ IF sector.boot = "BAD" THEN WriteFails("boot", "IDLE") ELSE UNCHANGED sector
  /\ UNCHANGED <<d, fw, req, m, report, outcome, resets>>

\* With a token kept there is a result to report, read from the flag and reset; a
\* reset that fails makes it a failure. A token that cannot be read is dropped.
int_report_result ==
  /\ phase = "consume"
  /\ \/ sector.app = "none" /\ phase' = "run" /\ UNCHANGED <<report, flag, sector>>
     \/ /\ sector.app # "none" /\ phase' = "clear" /\ flag' = "IDLE"
        /\ \/ /\ flag_write("boot", "IDLE")
              /\ report' = [report EXCEPT !.flag = TRUE, !.ok = flag = "SUCCEED"]
           \/ /\ "result" \in Faults /\ WriteFails("boot", "IDLE")
              /\ report' = [flag |-> TRUE, ok |-> FALSE, parted |-> TRUE]
     \/ "read" \in Faults /\ phase' = "drop" /\ UNCHANGED <<report, flag, sector>>
  /\ UNCHANGED <<d, fw, req, m, outcome, resets>>

\* Then the token is cleared; if that fails there is a result to report at the
\* next start again. Without a token to report to the agent does not start.
ClearToken ==
  /\ phase \in {"clear", "drop"} /\ phase' = IF phase = "clear" THEN "run" ELSE "off"
  /\ \/ flag_write("app", "none") /\ UNCHANGED report
     \/ /\ "clear" \in Faults /\ WriteFails("app", "none")
        /\ report' = [report EXCEPT !.parted = TRUE]
  /\ UNCHANGED <<d, fw, req, flag, m, outcome, resets>>

Commands == atiny_fota_manager_start_download \/ atiny_fota_manager_execute_update
Acks == AckIgnored \/ AckFailed \/ AckReached \/ AckDownloading \/ AckUpdating
Download == NoBlock \/ firmware_download_reply
Arm == active_software \/ RecordToken
Bootloader == recover_image \/ board_update_copy \/ board_jump2app \/ board_rollback_copy
Start == flag_upgrade_init \/ int_report_result \/ ClearToken

FotaNext ==
  \/ Commands \/ Notify \/ Unheard \/ atiny_fota_idle_state_report_result \/ Acks
  \/ Download \/ Arm \/ reboot_check \/ PowerLost \/ Bootloader \/ Start

FotaSpec == FotaInit /\ [][FotaNext]_vars

-----------------------------------------------------------------------------
(* What the update promises.                                               *)

\* The image that may be executed, and the one the boot loader is told to
\* upgrade from, is the whole software of one package, whatever packages the
\* server sent the pieces of, whichever writes of new units failed, wherever a
\* download was taken up again and power was lost.
OnlyWholeImages ==
  \/ m.st = "DOWNLOADED" /\ m.rpt # "DOWNLOADING" /\ m.result = "NULL"
  \/ sector.boot = "NEED_UPGRADE"
    => WholeImage(d)

\* An agent that says it is updating, and is about to reboot, has armed the boot
\* loader and kept the token it reports the result to: the two writes of the
\* one sector do not undo each other.
UpdatingArmed ==
  m.st = "UPDATING" => sector = [boot |-> "NEED_UPGRADE", app |-> "token"]

\* A success is reported exactly when the image of the upgrade last asked for was
\* copied to where it runs and was jumped to. Only since the boot loader's last
\* upgrade may the two have parted: when power was lost while the image was copied,
\* or between the reading of the result and the clearing of its token, or when a
\* write of the verdict, of the result or of the token failed.
ResultTrue == report.flag /\ ~report.parted => (report.ok <=> outcome = "SUCCEED")

\* While the manager refuses commands as busy, it waits for an acknowledgement, and
\* the notification is due or under way, unless that was lost: nobody observed the
\* state, or it could not be sent. And the manager is downloading exactly while a
\* block is asked for, so that no end of a download is refused and none goes missing.
BusyEnds ==
  phase = "run" =>
    /\ m.st # m.rpt => m.waitAck /\ (m.changed \/ "fresh" \in m.notices \/ m.lost)
    /\ m.st = "DOWNLOADING" /\ m.rpt = "DOWNLOADING" <=> req # NoRequest
=============================================================================
