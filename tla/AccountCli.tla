----------------------------- MODULE AccountCli -----------------------------
(***************************************************************************)
(* The account commands of playit-cli (account.rs, the claim commands of    *)
(* main.rs) with the session file (session.rs), sign-in (auth.rs) and the   *)
(* account requests (web_api.rs).  Each process runs one command; the       *)
(* server keeps one claim code and is external.  Any process may be killed. *)
(***************************************************************************)
EXTENDS Integers, FiniteSets

CONSTANTS
    Procs,    \* processes, each runs one command
    Rounds    \* bound: polls of await_claim_details (40)

ASSUME AccountAssumption == "none" \notin Procs /\ Rounds \in Nat

VARIABLES
    proc,          \* per process: command, place, session, rounds, deadline, verdict
    session_file,  \* the session file
    web_claim,     \* the claim code at the server
    kept           \* history: the process whose stored session nobody has touched

pvars == <<proc, session_file, web_claim, kept>>

AccountCommands == {"login", "logout", "validate", "approve", "reject", "exchange"}

(* A session is named after the login that got it.  It is pending while the  *)
(* server wants a TOTP code, and coded when it answers one.  The file is     *)
(* absent, or has none, a part or all of a session; at the start it may have *)
(* one of an earlier login.                                                  *)
Session(p, totp, code) == [owner |-> p, pending |-> totp, coded |-> code]
NoSession == Session("none", FALSE, FALSE)
File(what, s) == [what |-> what, session |-> s]
NoFile == File("absent", NoSession)

NotRunning == [cmd |-> "none", pc |-> "idle", session |-> NoSession, round |-> 0,
         wait |-> FALSE, late |-> FALSE, said |-> "none"]

AccountInit ==
    /\ proc = [p \in Procs |-> NotRunning]
    /\ session_file \in {NoFile, File("whole", Session("earlier", FALSE, FALSE))}
    /\ web_claim = "unknown"
    /\ kept = "none"

MoveTo(p, place) == proc' = [proc EXCEPT ![p].pc = place]
End(p, said) ==
    proc' = [proc EXCEPT ![p] = [NotRunning EXCEPT !.cmd = proc[p].cmd, !.pc = "done", !.said = said]]
In(p, place) == proc[p].pc = place
Touch == kept' = "none"
Saving(p) == In(p, "write")

run_command(p) ==
    /\ In(p, "idle")
    /\ \E c \in AccountCommands, w \in BOOLEAN :
          /\ w => c = "exchange"
          /\ proc' = [proc EXCEPT ![p] =
                [NotRunning EXCEPT !.cmd = c, !.wait = w,
                   !.pc = CASE c = "login" -> "sign_in" [] c = "logout" -> "clear"
                            [] c = "exchange" -> "setup" [] OTHER -> "load"]]
    /\ UNCHANGED <<session_file, web_claim, kept>>

interrupt(p) ==
    /\ proc[p].pc \notin {"idle", "done"}
    /\ End(p, "killed")
    /\ UNCHANGED <<session_file, web_claim, kept>>

---------------------------------------------------------------------------
(* Mutated form: the session is stored before the code is asked for. *)
StoreBeforeTotp(p) ==
    /\ In(p, "sign_in")
    /\ \/ \E totp \in BOOLEAN :
             proc' = [proc EXCEPT ![p].session = Session(p, totp, FALSE), ![p].pc = "truncate"]
       \/ End(p, "error")
    /\ UNCHANGED <<session_file, web_claim, kept>>

(* sign_in: refused, failed, or a session that may still want a code. *)
sign_in(p) ==
    /\ In(p, "sign_in")
    /\ \/ \E totp \in BOOLEAN :
             proc' = [proc EXCEPT ![p].session = Session(p, totp, FALSE),
                                  ![p].pc = IF totp THEN "totp" ELSE "truncate"]
       \/ End(p, "error")
    /\ UNCHANGED <<session_file, web_claim, kept>>

(* complete_totp: the session that answers the code replaces the first one,  *)
(* whatever the server says of it: it may want a code again, and is stored   *)
(* all the same (report_session says so).                                    *)
complete_totp(p) ==
    /\ In(p, "totp")
    /\ \/ \E totp \in BOOLEAN :
             proc' = [proc EXCEPT ![p].session = Session(p, totp, TRUE), ![p].pc = "truncate"]
       \/ End(p, "error")
    /\ UNCHANGED <<session_file, web_claim, kept>>

(* FileSessionStore::save: fs::write truncates, then writes.  What two        *)
(* writers leave is one of the two sessions or a mixture that does not parse. *)
truncate(p) ==
    /\ In(p, "truncate")
    /\ \/ session_file' = File("empty", NoSession) /\ MoveTo(p, "write") /\ Touch
       \/ End(p, "error") /\ UNCHANGED <<session_file, kept>>
    /\ UNCHANGED web_claim

write_session(p) ==
    /\ In(p, "write")
    /\ \/ /\ session_file' \in
               IF session_file.what = "empty" THEN {File("whole", proc[p].session)}
               ELSE IF session_file.what = "absent" THEN {NoFile}
               ELSE {File("whole", proc[p].session), File("part", NoSession)}
          /\ MoveTo(p, "restrict")
          /\ kept' = IF session_file.what = "empty" /\ \A q \in Procs \ {p} : ~Saving(q)
                     THEN p ELSE "none"
       \/ /\ session_file' =
               IF session_file.what = "absent" THEN NoFile ELSE File("part", NoSession)
          /\ End(p, "killed") /\ Touch
       \/ /\ End(p, "error") /\ UNCHANGED session_file /\ Touch
    /\ UNCHANGED web_claim

(* The last step of save: a login whose file cannot be restricted fails, but  *)
(* what it wrote stays.                                                       *)
restrict_to_owner(p) ==
    /\ In(p, "restrict")
    /\ End(p, "stored") \/ End(p, "error")
    /\ UNCHANGED <<session_file, web_claim, kept>>

(* run_account_logout. *)
clear(p) ==
    /\ In(p, "clear")
    /\ \/ session_file' = NoFile /\ End(p, "cleared") /\ Touch
       \/ End(p, "error") /\ UNCHANGED <<session_file, kept>>
    /\ UNCHANGED web_claim

(* load_stored_session: absent and empty mean not logged in. *)
load_stored_session(p) ==
    /\ In(p, "load")
    /\ \/ /\ session_file.what = "whole"
          /\ proc' = [proc EXCEPT ![p].session = session_file.session, ![p].pc = proc[p].cmd]
       \/ End(p, IF session_file.what \in {"absent", "empty"} THEN "not logged in" ELSE "error")
    /\ UNCHANGED <<session_file, web_claim, kept>>

(* check_account_read: the server accepts the session, or it has expired.    *)
validate(p) ==
    /\ In(p, "validate")
    /\ End(p, "valid") \/ End(p, "error")
    /\ UNCHANGED <<session_file, web_claim, kept>>

---------------------------------------------------------------------------
(* The claim code at the server: unknown until the machine polls, then        *)
(* visible until it is accepted, rejected or expires; one that was accepted   *)
(* can expire before its secret is fetched.                                   *)
Seen == IF web_claim = "unknown" THEN "visible" ELSE web_claim

expire ==
    /\ \/ web_claim = "visible" /\ web_claim' = "expired"
       \/ web_claim = "accepted" /\ web_claim' = "lapsed"
    /\ UNCHANGED <<proc, session_file, kept>>

(* What the account's requests find: details of a claim that is visible, and *)
(* a verdict that is taken once.                                             *)
claim_details(c) ==
    CASE c = "visible" -> "details" [] c = "unknown" -> "WaitingForAgent" [] OTHER -> "fail"
accept_claim == web_claim = "visible" /\ web_claim' = "accepted"
reject_claim == web_claim = "visible" /\ web_claim' = "rejected"

RoundLeft(p) == proc[p].round < Rounds

(* await_claim_details: a poll as the machine, then a look as the account.    *)
await_claim_details(p) ==
    /\ In(p, "approve")
    /\ \/ /\ RoundLeft(p)
          /\ web_claim' \in {web_claim, Seen}
          /\ LET got == claim_details(web_claim') IN
             CASE got = "details" -> MoveTo(p, "accept")
               [] got = "WaitingForAgent" -> proc' = [proc EXCEPT ![p].round = @ + 1]
               [] OTHER -> End(p, "error")
       \/ /\ RoundLeft(p)          \* the second request fails
          /\ web_claim' \in {web_claim, Seen} /\ End(p, "error")
       \/ ~RoundLeft(p) /\ End(p, "timed out") /\ UNCHANGED web_claim
    /\ UNCHANGED <<session_file, kept>>

(* Mutated form: a claim that was decided before counts as approved. *)
AcceptDecided(p) ==
    /\ In(p, "accept")
    /\ \/ accept_claim /\ End(p, "approved")
       \/ web_claim # "visible" /\ End(p, "approved") /\ UNCHANGED web_claim
    /\ UNCHANGED <<session_file, kept>>

(* The answer may be lost after the server has accepted. *)
claim_approve(p) ==
    /\ In(p, "accept")
    /\ \/ accept_claim /\ (End(p, "approved") \/ End(p, "error"))
       \/ End(p, "error") /\ UNCHANGED web_claim
    /\ UNCHANGED <<session_file, kept>>

claim_reject(p) ==
    /\ In(p, "reject")
    /\ \/ reject_claim /\ (End(p, "rejected") \/ End(p, "error"))
       \/ End(p, "error") /\ UNCHANGED web_claim
    /\ UNCHANGED <<session_file, kept>>

(* Mutated form: a rejected claim is polled like one nobody has looked at. *)
PollRejected(p) ==
    /\ In(p, "setup")
    /\ web_claim' = Seen
    /\ IF web_claim' = "accepted" THEN MoveTo(p, "exchange") ELSE UNCHANGED proc
    /\ UNCHANGED <<session_file, kept>>

(* The first loop of claim_exchange: every error is waited out, the deadline  *)
(* is not looked at.                                                          *)
claim_setup(p) ==
    /\ In(p, "setup")
    /\ web_claim' = Seen
    /\ CASE web_claim' = "accepted" -> MoveTo(p, "exchange")
         [] web_claim' = "rejected" -> End(p, "refused")
         [] OTHER -> UNCHANGED proc       \* not decided, or expired: an error
    /\ UNCHANGED <<session_file, kept>>

(* The second loop: failures (a lapsed code is one) are waited out until the  *)
(* deadline, without --wait for ever; any other error ends the command, also *)
(* one that lost the secret on its way.                                      *)
claim_exchange(p) ==
    /\ In(p, "exchange")
    /\ \/ web_claim = "accepted" /\ End(p, "secret")
       \/ End(p, "error")
       \/ proc[p].late /\ End(p, "timed out")
       \/ ~proc[p].late /\ UNCHANGED proc
    /\ UNCHANGED <<session_file, web_claim, kept>>

(* The seconds of --wait are over. *)
deadline(p) ==
    /\ proc[p].wait /\ ~proc[p].late /\ proc[p].pc \in {"setup", "exchange"}
    /\ proc' = [proc EXCEPT ![p].late = TRUE]
    /\ UNCHANGED <<session_file, web_claim, kept>>

run_account_login(p) == sign_in(p) \/ complete_totp(p) \/ truncate(p)
                        \/ write_session(p) \/ restrict_to_owner(p)
run_account_logout(p) == clear(p)
run_account_validate(p) == load_stored_session(p) \/ validate(p)
command_step(p) ==
    \/ run_account_login(p) \/ run_account_logout(p) \/ run_account_validate(p)
    \/ await_claim_details(p) \/ claim_approve(p) \/ claim_reject(p)
    \/ claim_setup(p) \/ claim_exchange(p)

AccountNext == expire \/ \E p \in Procs : run_command(p) \/ interrupt(p) \/ command_step(p) \/ deadline(p)

(* A command goes on: its requests are answered or fail.  The exchange is    *)
(* not refused for ever while the claim is accepted; nothing is promised of  *)
(* one whose code has lapsed before its deadline.                            *)
goes_on(p) ==
    command_step(p) /\ (In(p, "exchange") => web_claim = "accepted" \/ proc[p].late)
AccountSpec == AccountInit /\ [][AccountNext]_pvars
AccountFair == \A p \in Procs : WF_pvars(goes_on(p)) /\ WF_pvars(deadline(p))
AccountFairSpec == AccountSpec /\ AccountFair

---------------------------------------------------------------------------
(* Type correctness: a place of a command belongs to it. *)
AccountTypeOK ==
    /\ \A p \in Procs :
         /\ proc[p].cmd \in AccountCommands \cup {"none"}
         /\ proc[p].pc \in {"sign_in", "totp", "truncate", "write", "restrict"} =>
              proc[p].cmd = "login"
         /\ proc[p].pc \in {"setup", "exchange"} => proc[p].cmd = "exchange"
         /\ proc[p].round \in 0 .. Rounds
    /\ session_file.what \in {"absent", "empty", "part", "whole"}
    /\ web_claim \in {"unknown", "visible", "accepted", "rejected", "expired", "lapsed"}

(* A session that a command stores or acts with was read whole, and a code    *)
(* was given for it if the server wanted one: a login never stores what       *)
(* sign_in returned while it is pending, and a file that a crash or two       *)
(* logins left half written is refused (run_account_login, load).             *)
CodeWasGiven(s) == s.owner # "none" /\ (s.pending => s.coded)
SessionIsGenuine ==
    /\ session_file.what = "whole" => CodeWasGiven(session_file.session)
    /\ \A p \in Procs : proc[p].pc \in {"validate", "approve", "accept", "reject"} =>
          CodeWasGiven(proc[p].session)

(* What a login has written alone is what the next command will find, unless *)
(* another login or logout came in between.                                  *)
StoredIsKept == kept # "none" => session_file.what = "whole" /\ session_file.session.owner = kept

(* The session file holds what a login stored, or nothing anybody uses.  It  *)
(* may hold a session that is still pending: the server's answer to a code   *)
(* (complete_totp) is stored unseen.                                         *)
SessionFileIsSound == SessionIsGenuine /\ StoredIsKept

(* Commands that race for one claim never report opposite verdicts: what a   *)
(* command reported is what the server holds.                                *)
VerdictsAgree ==
    \A p \in Procs :
       /\ proc[p].said \in {"approved", "secret"} => web_claim \in {"accepted", "lapsed"}
       /\ proc[p].said \in {"rejected", "refused"} => web_claim = "rejected"

(* Every command ends, an exchange once the claim is decided, unless the      *)
(* accepted code lapses first: its first loop takes that for an error to wait *)
(* out, and its second waits for ever too when no --wait was given.  The      *)
(* processes are alike: one stands for all.                                   *)
DecidedCommandsEnd ==
    LET p == CHOOSE q \in Procs : TRUE
    IN (\/ proc[p].cmd \in AccountCommands \ {"exchange"}
        \/ proc[p].cmd = "exchange" /\ web_claim \in {"accepted", "rejected"})
       ~> \/ proc[p].pc = "done"
          \/ web_claim = "lapsed" /\ (proc[p].pc = "setup" \/ ~proc[p].wait)

(* An exchange with a number of seconds to wait ends.  It does not while the   *)
(* claim is undecided: its first loop never looks at the deadline.  No run     *)
(* checks it.                                                                  *)
WaitIsBounded == \A p \in Procs : (proc[p].wait) ~> (proc[p].pc = "done")
=============================================================================
