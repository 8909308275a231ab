-------------------------- MODULE InterfacesProofs --------------------------
(***************************************************************************)
(* Proofs about three components at the edges of the agent, which do not   *)
(* interact: SecretFile, ApiRequests and Tray.                             *)
(***************************************************************************)
EXTENDS SecretFile, ApiRequests, Tray, FiniteSetTheorems, FunctionTheorems, TLAPS

-----------------------------------------------------------------------------
(* SecretFile, for any set of secrets: a load never finds half a secret,   *)
(* and the steps on files implement the register of SecretStore.           *)

(* A file that is safe to read now and after a loss of power               *)
Safe(f) == f # None => f.data = "synced"

(* The inductive invariant: the path names safe files, and the temporary   *)
(* file is one once it is about to be renamed.                             *)
FileInv ==
  /\ TypeOK
  /\ Safe(path) /\ Safe(disk)
  /\ pc = "replace" => tmp = File(secret, "synced")

(* A safe file comes out of a loss of power as it was.                     *)
LEMMA SafeSurvives ==
  ASSUME NEW f \in Files \cup {None}, Safe(f)
  PROVE  AfterLoss(f) = f /\ Content(f) # Garbage
  BY DistinctValues DEF Safe, AfterLoss, Content, Files, File

(* The invariant holds at the start.                                       *)
LEMMA FileInvInit == Init => FileInv
<1> SUFFICES ASSUME Init PROVE FileInv
  OBVIOUS
<1>1. path \in Files \cup {None} /\ Safe(path)
  BY DistinctValues DEF Init, Safe, File, Files
<1> QED
  BY <1>1, Zenon DEF Init, FileInv, TypeOK, Safe

(* Every step of the writer, of a reset and of the file system keeps it.   *)
LEMMA FileInvNext == FileInv /\ [Next]_vars => FileInv'
<1> SUFFICES ASSUME FileInv, [Next]_vars PROVE FileInv'
  OBVIOUS
<1> USE DistinctValues DEF FileInv, TypeOK, Safe, Files, File
<1>1. ASSUME NEW s \in Secrets, Begin(s) PROVE FileInv'
  BY <1>1 DEF Begin
<1>2. CASE Create
  BY <1>2 DEF Create
<1>3. CASE WriteAll
  BY <1>3 DEF WriteAll
<1>4. CASE SyncAll
  BY <1>4 DEF SyncAll
<1>5. CASE Rename
  BY <1>5 DEF Rename
<1>6. CASE SetPermissions
  BY <1>6 DEF SetPermissions
<1>7. CASE Discard
  BY <1>7 DEF Discard
<1>8. CASE AskReset
  BY <1>8 DEF AskReset
<1>9. CASE reset_secret_file
  BY <1>9, Zenon DEF reset_secret_file
<1>10. CASE Flush
  BY <1>10 DEF Flush
<1>11. CASE ProcessDies
  BY <1>11, Zenon DEF ProcessDies, Die
<1>12. CASE PowerFails
  <2>1. AfterLoss(disk) = disk
    BY SafeSurvives
  <2> QED
    BY <1>12, <2>1, Zenon DEF PowerFails, Die
<1>13. CASE UNCHANGED vars
  BY <1>13 DEF vars
<1> QED
  BY <1>1, <1>2, <1>3, <1>4, <1>5, <1>6, <1>7, <1>8, <1>9, <1>10, <1>11, <1>12, <1>13 DEF Next

(* FileInv holds in every reachable state.                                  *)
LEMMA FileInvHolds == Spec => []FileInv
  BY FileInvInit, FileInvNext, PTL DEF Spec

(* Every variable of the writer keeps to its type.                         *)
THEOREM FileTypeCorrect == Spec => []TypeOK
  BY FileInvHolds, PTL DEF FileInv

(* A load never finds half a secret, whatever the writer was doing when    *)
(* the process died or the power failed.                                   *)
THEOREM SecretStaysWhole == Spec => []FileIsWhole
<1>1. FileInv => FileIsWhole
  <2> SUFFICES ASSUME FileInv PROVE FileIsWhole
    OBVIOUS
  <2>1. path \in Files \cup {None} /\ Safe(path) /\ disk \in Files \cup {None} /\ Safe(disk)
    BY DEF FileInv, TypeOK
  <2>2. Content(path) # Garbage
    BY <2>1, SafeSurvives
  <2>3. AfterLoss(disk) = disk /\ Content(disk) # Garbage
    BY <2>1, SafeSurvives
  <2> QED
    BY <2>2, <2>3 DEF FileIsWhole
<1> QED
  BY <1>1, FileInvHolds, PTL

(* The initial states are initial states of the register.                  *)
LEMMA FileInitImplements == Init => Store!Init
<1> SUFFICES ASSUME Init PROVE Store!Init
  OBVIOUS
<1>1. path \in Files \cup {None} /\ Safe(path) /\ disk = path
  BY DistinctValues DEF Init, File, Files, Safe
<1>2. AfterLoss(disk) = disk
  BY <1>1, SafeSurvives
<1>3. Content(path) \in Secrets \cup {None}
  BY DEF Init, File, Content
<1> QED
  BY <1>1, <1>2, <1>3 DEF Init, Store!Init, Store!Values

(* Every step is a step of the register, or leaves it as it is.            *)
LEMMA FileStepImplements == FileInv /\ FileInv' /\ [Next]_vars => [Store!Next]_Store!vars
<1> SUFFICES ASSUME FileInv, FileInv', [Next]_vars PROVE [Store!Next]_Store!vars
  OBVIOUS
<1>a. /\ AfterLoss(disk) = disk /\ AfterLoss(disk') = disk'
      /\ (secret \in Secrets \/ pc = "idle") /\ None \notin Secrets
  <2>1. disk \in Files \cup {None} /\ Safe(disk) /\ disk' \in Files \cup {None} /\ Safe(disk')
    BY DEF FileInv, TypeOK, Safe
  <2> QED
    BY <2>1, SafeSurvives, DistinctValues DEF FileInv, TypeOK
<1> USE DEF Store!vars
<1>1. ASSUME NEW s \in Secrets, Begin(s) PROVE Store!Begin(s)
  BY <1>1, <1>a DEF Begin, Store!Begin
<1>2. CASE Create
  BY <1>2, <1>a DEF Create
<1>3. CASE WriteAll
  BY <1>3, <1>a DEF WriteAll
<1>4. CASE SyncAll
  BY <1>4, <1>a DEF SyncAll
<1>5. CASE Rename
  <2>1. CASE pc' = "protect"
    <3>1. Content(path') = secret
      BY <1>5, <2>1, <1>a DEF Rename, FileInv, TypeOK, Content, File
    <3>2. Store!Put
      BY <1>5, <2>1, <3>1, <1>a DEF Rename, Store!Put
    <3> QED
      BY <3>2 DEF Store!Next
  <2>2. CASE pc' = "discard"
    BY <1>5, <2>2, <1>a DEF Rename
  <2> QED
    BY <1>5, <2>1, <2>2 DEF Rename
<1>6. CASE SetPermissions
  <2>1. CASE pc' = "idle"
    <3>1. Store!End
      BY <1>6, <2>1, <1>a DEF SetPermissions, Store!End
    <3> QED
      BY <3>1 DEF Store!Next
  <2>2. CASE pc' = "unprotected"
    BY <1>6, <2>2, <1>a DEF SetPermissions
  <2> QED
    BY <1>6, <2>1, <2>2 DEF SetPermissions
<1>7. CASE Discard
  <2>1. Store!End
    BY <1>7, <1>a DEF Discard, Store!End
  <2> QED
    BY <2>1 DEF Store!Next
<1>8. CASE AskReset
  <2>1. Store!AskRemoval
    BY <1>8, <1>a DEF AskReset, Store!AskRemoval
  <2> QED
    BY <2>1 DEF Store!Next
<1>9. CASE reset_secret_file
  <2>1. Store!Remove
    BY <1>9, <1>a DEF reset_secret_file, Store!Remove, Content
  <2> QED
    BY <2>1 DEF Store!Next
<1>10. CASE Flush
  <2>1. Store!Settle
    BY <1>10, <1>a DEF Flush, Store!Settle
  <2> QED
    BY <2>1 DEF Store!Next
<1>11. CASE ProcessDies
  <2>1. Store!Crash
    BY <1>11, <1>a DEF ProcessDies, Die, Store!Crash
  <2> QED
    BY <2>1 DEF Store!Next
<1>12. CASE PowerFails
  <2>1. Store!Crash
    BY <1>12, <1>a DEF PowerFails, Die, Store!Crash
  <2> QED
    BY <2>1 DEF Store!Next
<1>13. CASE UNCHANGED vars
  BY <1>13, <1>a DEF vars
<1>14. ASSUME NEW s \in Secrets, Begin(s) PROVE Store!Next
  BY <1>1, <1>14 DEF Store!Next
<1> QED
  BY <1>2, <1>3, <1>4, <1>5, <1>6, <1>7, <1>8, <1>9, <1>10, <1>11, <1>12, <1>13, <1>14 DEF Next

(* Writing, resetting and crashing on files is what SecretStore allows a   *)
(* register to do, for any set of secrets.                                 *)
THEOREM FileImplementsStore == Spec => ImplementsStore
  BY FileInitImplements, FileStepImplements, FileInvHolds, PTL DEF Spec, ImplementsStore, Store!Spec

-----------------------------------------------------------------------------
(* ApiRequests, for any delays a server may ask for.                       *)

(* No endpoint that changes something is called with the policy that tries *)
(* again: the table of api.rs.                                             *)
LEMMA ChangesAreNotRetried == Changing \cap TransientEndpoints = {}
BY DEF Changing, TransientEndpoints, InfoEndpoints, TunnelEndpoints, OtherEndpoints

(* A call has one attempt or three, and one if it changes something.       *)
LEMMA Attempts ==
  ASSUME NEW op
  PROVE  /\ max_attempts(op) \in {1, 3}
         /\ op \in Changing => max_attempts(op) = 1
         /\ op = "none" => max_attempts(op) = 1
BY ChangesAreNotRetried
   DEF max_attempts, MAX_REQUEST_ATTEMPTS, TransientEndpoints, InfoEndpoints, TunnelEndpoints,
       OtherEndpoints

(* Whatever the server asks for, the sleep is at most MAX_RETRY_DELAY.     *)
LEMMA DelayIsBounded ==
  ASSUME NEW attempt \in Nat, NEW after \in RetryAfter \cup {NoDelay}
  PROVE  retry_delay(attempt, after) \in 0 .. 20
BY RetryAfterAssumption DEF retry_delay, NoDelay, MAX_RETRY_DELAY

Results == {"RequestError", "TooManyRequests", "ParseError", "Ok"}
Points == {"idle", "send", "wire", "answer"} \cup Results
Replies == {"none", "connect", "429", "lost", "5xx", "5xx_body", "other", "json", "garbage"}
Calls ==
  [op : Endpoints \cup {"none"}, attempt : Nat, pc : Points, header : Credentials \cup {"none"},
   got : Replies, after : RetryAfter \cup {NoDelay}]

(* Each attempt runs the request at most once and each new one sleeps at   *)
(* most MAX_RETRY_DELAY; before the answer of an attempt only the earlier  *)
(* ones can have run it.                                                   *)
Unanswered == {"idle", "send", "wire"}
Counted(op, attempt, place) ==
  /\ attempt \in Nat /\ attempt < max_attempts(op)
  /\ place = "idle" => op = "none"
  /\ runs \in Nat /\ runs <= attempt + 1
  /\ place \in Unanswered => runs <= attempt
  /\ waited \in Nat /\ waited <= 20 * attempt

CountInv ==
  /\ call \in Calls
  /\ auth \in Credentials
  /\ Counted(call.op, call.attempt, call.pc)

(* Every step keeps the counts.                                            *)
LEMMA CountStep == CountInv /\ [ApiNext]_avars => CountInv'
<1> SUFFICES ASSUME CountInv, [ApiNext]_avars PROVE CountInv'
  OBVIOUS
<1>0. call \in Calls /\ auth \in Credentials /\ Counted(call.op, call.attempt, call.pc)
  BY DEF CountInv
<1>1. CASE begin
  <2>1. PICK op \in Endpoints : call' = [call EXCEPT !.op = op, !.pc = "send"]
    BY <1>1, Zenon DEF begin
  <2>2. call' \in Calls /\ call'.op = op /\ call'.attempt = call.attempt /\ call'.pc = "send"
    BY <1>0, <2>1, Zenon DEF Calls, Points, Results
  <2>3. call.attempt = 0 /\ call.pc = "idle"
    BY <1>0, <1>1, Attempts DEF begin, Counted
  <2>4. 0 < max_attempts(op)
    BY Attempts
  <2>5. Counted(op, call.attempt, "send")'
    BY <1>0, <1>1, <2>2, <2>3, <2>4 DEF begin, Counted, Unanswered
  <2> QED
    BY <1>0, <1>1, <2>2, <2>5 DEF begin, CountInv
<1>2. CASE send
  <2>1. call' \in Calls /\ call'.op = call.op /\ call'.attempt = call.attempt /\ call'.pc = "wire"
    BY <1>0, <1>2, Zenon DEF send, Calls, Points
  <2>2. Counted(call.op, call.attempt, "wire")'
    BY <1>0, <1>2, <2>1 DEF send, Counted, Unanswered
  <2> QED
    BY <1>0, <1>2, <2>1, <2>2 DEF send, CountInv
<1>3. CASE execute
  <2>1. PICK a \in Answers, d \in RetryAfter \cup {NoDelay} :
               /\ call' = [call EXCEPT !.pc = "answer", !.got = a.got, !.after = d]
               /\ runs' = runs + a.ran
    BY <1>3, Zenon DEF execute
  <2>2. a.ran \in {0, 1} /\ a.got \in Replies
    BY DEF Answers, Replies
  <2>3. call' \in Calls /\ call'.op = call.op /\ call'.attempt = call.attempt /\ call'.pc = "answer"
    BY <1>0, <2>1, <2>2, Zenon DEF Calls, Points, Results
  <2>4. Counted(call.op, call.attempt, "answer")'
    BY <1>0, <1>3, <2>1, <2>2, <2>3 DEF execute, Counted, Unanswered
  <2> QED
    BY <1>0, <1>3, <2>3, <2>4 DEF execute, CountInv
<1>4. CASE call_with_policy
  <2>1. CASE MayRetry(call) /\ is_retryable(call.got)
    <3>1. /\ call' = [call EXCEPT !.pc = "send", !.attempt = @ + 1]
          /\ waited' = waited + retry_delay(call.attempt, call.after)
          /\ runs' = runs /\ auth' = auth
      BY <1>4, <2>1 DEF call_with_policy
    <3>2. call' \in Calls /\ call'.op = call.op /\ call'.attempt = call.attempt + 1
          /\ call'.pc = "send"
      <4>1. call.attempt + 1 \in Nat
        BY <1>0 DEF Counted
      <4> QED
        BY <1>0, <3>1, <4>1, Zenon DEF Calls, Points
    <3>3. retry_delay(call.attempt, call.after) \in 0 .. 20
      BY <1>0, DelayIsBounded DEF Calls, Points, Results
    <3>4. call.attempt + 1 < max_attempts(call.op)
      BY <2>1 DEF MayRetry
    <3>5. Counted(call.op, call.attempt, "send")'
      BY <1>0, <3>1, <3>2, <3>3, <3>4 DEF Counted, Unanswered
    <3> QED
      BY <1>0, <3>1, <3>2, <3>5 DEF CountInv
  <2>2. CASE ~(MayRetry(call) /\ is_retryable(call.got))
    <3>1. /\ call' = [call EXCEPT !.pc = Result(call.got)]
          /\ waited' = waited /\ runs' = runs /\ auth' = auth
      BY <1>4, <2>2 DEF call_with_policy
    <3>2. Result(call.got) \in Results
      BY DEF Result, Results
    <3>3. call' \in Calls /\ call'.op = call.op /\ call'.attempt = call.attempt
          /\ call'.pc = Result(call.got)
      BY <1>0, <3>1, <3>2 DEF Calls, Points, Results
    <3>4. Counted(call.op, call.attempt, Result(call.got))'
      BY <1>0, <3>1, <3>2, <3>3 DEF Counted, Unanswered, Results
    <3> QED
      BY <1>0, <3>1, <3>3, <3>4 DEF CountInv
  <2> QED
    BY <2>1, <2>2
<1>5. CASE set_auth
  BY <1>0, <1>5 DEF set_auth, CountInv, Counted
<1>6. CASE UNCHANGED avars
  BY <1>0, <1>6 DEF avars, CountInv, Counted
<1> QED
  BY <1>1, <1>2, <1>3, <1>4, <1>5, <1>6 DEF ApiNext

(* The counts are kept for ever.                                           *)
LEMMA CountHolds == ApiSpec => []CountInv
<1>1. ApiInit => CountInv
  <2> SUFFICES ASSUME ApiInit PROVE CountInv
    OBVIOUS
  <2>1. call \in Calls /\ call.op = "none" /\ call.attempt = 0 /\ call.pc = "idle"
    BY DEF ApiInit, Calls, Points, Replies
  <2>2. max_attempts("none") = 1
    BY Attempts
  <2> QED
    BY <2>1, <2>2 DEF ApiInit, CountInv, Counted
<1> QED
  BY <1>1, CountStep, PTL DEF ApiSpec

(* The attempts of a call stay within its policy, and so do the times the  *)
(* server executed it.                                                     *)
THEOREM ApiTypeCorrect == ApiSpec => []ApiTypeOK
<1>1. CountInv => ApiTypeOK
  <2> SUFFICES ASSUME CountInv PROVE ApiTypeOK
    OBVIOUS
  <2>1. runs \in 0 .. 3
    BY Attempts DEF CountInv, Counted
  <2> QED
    BY <2>1 DEF CountInv, Counted, Calls, ApiTypeOK, MAX_REQUEST_ATTEMPTS
<1> QED
  BY <1>1, CountHolds, PTL

(* A request that changes something is executed at most once, however many *)
(* answers are lost (call_with_policy).                                    *)
LEMMA ChangesAreRunOnce == ApiSpec => []ChangesRunOnce
<1>1. CountInv => ChangesRunOnce
  BY Attempts DEF CountInv, Counted, ChangesRunOnce
<1> QED
  BY <1>1, CountHolds, PTL

(* The sleeps of a call add up to at most two of the longest delay,        *)
(* whatever Retry-After says (retry_delay).                                *)
LEMMA WaitStaysShort == ApiSpec => []WaitIsShort
<1>1. CountInv => WaitIsShort
  BY Attempts DEF CountInv, Counted, WaitIsShort, MAX_REQUEST_ATTEMPTS, MAX_RETRY_DELAY
<1> QED
  BY <1>1, CountHolds, PTL

(* The retries of call_with_policy neither repeat a change nor hold the    *)
(* caller up, whatever the server answers.                                 *)
THEOREM RetriesStaySafe == ApiSpec => []RetriesAreSafe
<1>1. ChangesRunOnce /\ WaitIsShort => RetriesAreSafe
  BY DEF RetriesAreSafe
<1> QED
  BY <1>1, ChangesAreRunOnce, WaitStaysShort, PTL
-----------------------------------------------------------------------------
(* Tray, for any capacity of the channels.                                 *)

(* How many elements of a sequence lie in a set.                           *)
CountIn(s, K) == Cardinality({i \in DOMAIN s : s[i] \in K})

(* Counting: how many there are is a number, and none in an empty channel.  *)
LEMMA CountIsNat ==
  ASSUME NEW S, NEW s \in Seq(S), NEW K
  PROVE  /\ IsFiniteSet({i \in DOMAIN s : s[i] \in K}) /\ CountIn(s, K) \in Nat
         /\ CountIn(<<>>, K) = 0
<1>1. IsFiniteSet(1 .. Len(s))
  BY FS_Interval
<1>2. IsFiniteSet({i \in DOMAIN s : s[i] \in K})
  BY <1>1, FS_Subset
<1>3. {i \in DOMAIN <<>> : <<>>[i] \in K} = {}
  OBVIOUS
<1> QED
  BY <1>2, <1>3, FS_CardinalityType, FS_EmptySet DEF CountIn

(* One more when an element of K is sent.                                   *)
LEMMA CountAppend ==
  ASSUME NEW S, NEW s \in Seq(S), NEW x \in S, NEW K
  PROVE  CountIn(Append(s, x), K) = CountIn(s, K) + (IF x \in K THEN 1 ELSE 0)
<1> DEFINE A == {i \in DOMAIN s : s[i] \in K}
           B == {i \in DOMAIN Append(s, x) : Append(s, x)[i] \in K}
<1>1. IsFiniteSet(A) /\ Cardinality(A) \in Nat
  BY CountIsNat, Zenon DEF CountIn
<1>2. Len(s) + 1 \notin A
  OBVIOUS
<1>3. CASE x \in K
  <2>1. B = A \cup {Len(s) + 1}
    BY <1>3
  <2>2. Cardinality(B) = Cardinality(A) + 1
    BY <1>1, <1>2, <2>1, FS_AddElement, Zenon
  <2> QED
    BY <1>3, <2>2, Zenon DEF CountIn
<1>4. CASE x \notin K
  <2>1. B = A
    BY <1>4
  <2>2. CountIn(Append(s, x), K) = CountIn(s, K)
    BY <2>1, Zenon DEF CountIn
  <2>3. CountIn(s, K) \in Nat
    BY CountIsNat, Zenon
  <2> QED
    BY <1>4, <2>2, <2>3
<1> QED
  BY <1>3, <1>4

(* One less when an element of K is received.                               *)
LEMMA CountTail ==
  ASSUME NEW S, NEW s \in Seq(S), s # <<>>, NEW K
  PROVE  CountIn(s, K) = CountIn(Tail(s), K) + (IF Head(s) \in K THEN 1 ELSE 0)
<1> DEFINE A == {i \in DOMAIN s : s[i] \in K}
           B == {i \in DOMAIN Tail(s) : Tail(s)[i] \in K}
           C == {i \in 2 .. Len(s) : s[i] \in K}
           f == [i \in B |-> i + 1]
<1>1. /\ Tail(s) \in Seq(S) /\ Head(s) = s[1] /\ DOMAIN s = 1 .. Len(s)
      /\ DOMAIN Tail(s) = 1 .. (Len(s) - 1)
      /\ \A i \in 1 .. (Len(s) - 1) : Tail(s)[i] = s[i + 1]
      /\ Len(s) \in Nat \ {0}
  OBVIOUS
<1>2. IsFiniteSet(B) /\ Cardinality(B) \in Nat
  BY <1>1, CountIsNat, Zenon DEF CountIn
<1>3. f \in Bijection(B, C)
  <2>1. \A i \in B : i \in Nat /\ i + 1 \in C
    BY <1>1
  <2>2. f \in [B -> C]
    BY <2>1
  <2>3. \A i, j \in B : f[i] = f[j] => i = j
    BY <2>1
  <2>4. \A k \in C : \E i \in B : f[i] = k
    <3>1. SUFFICES ASSUME NEW k \in C PROVE \E i \in B : f[i] = k
      OBVIOUS
    <3>2. k - 1 \in B /\ (k - 1) + 1 = k
      BY <1>1
    <3> QED
      BY <3>2, Zenon
  <2> QED
    BY <2>2, <2>3, <2>4, Fun_IsBij, Zenon
<1>4. IsFiniteSet(C) /\ Cardinality(C) = Cardinality(B)
  BY <1>2, <1>3, FS_Bijection, Zenon DEF ExistsBijection
<1>5. 1 \notin C
  OBVIOUS
<1>6. CASE s[1] \in K
  <2>1. A = C \cup {1}
    BY <1>1, <1>6
  <2>2. Cardinality(A) = Cardinality(C) + 1
    BY <1>4, <1>5, <2>1, FS_AddElement, Zenon
  <2> QED
    BY <1>1, <1>4, <1>6, <2>2, Zenon DEF CountIn
<1>7. CASE s[1] \notin K
  <2>1. A = C
    BY <1>1, <1>7
  <2>2. CountIn(s, K) = CountIn(Tail(s), K)
    BY <1>4, <2>1, Zenon DEF CountIn
  <2>3. CountIn(Tail(s), K) \in Nat
    BY <1>1, CountIsNat, Zenon
  <2> QED
    BY <1>1, <1>7, <2>2, <2>3
<1> QED
  BY <1>6, <1>7

(* What the channel to the window carries, and the answers of some kinds.   *)
AnswerRecord == [request : BackendRequest, running : BOOLEAN, reset : BOOLEAN]
Answering(K) == {r \in AnswerRecord : r.request \in K}
RequestMessage == BackendRequest \cup {"Shutdown"}

(* InFlight of any two channels rq and rs and any backend b.                *)
Flight(rq, rs, b, K) ==
  CountIn(rq, K) + CountIn(rs, Answering(K)) + (IF b.request \in K THEN 1 ELSE 0)

(* dispatch_request: a request that was sent is in flight.                  *)
LEMMA FlightSent ==
  ASSUME NEW rq \in Seq(RequestMessage), NEW rs \in Seq(AnswerRecord), NEW b, NEW K,
         NEW r \in RequestMessage
  PROVE  /\ Flight(rq, rs, b, K) \in Nat
         /\ Flight(Append(rq, r), rs, b, K) = Flight(rq, rs, b, K) + (IF r \in K THEN 1 ELSE 0)
<1>1. CountIn(rq, K) \in Nat
  BY CountIsNat, Zenon
<1>2. CountIn(rs, Answering(K)) \in Nat
  BY CountIsNat, Zenon
<1>3. CountIn(Append(rq, r), K) = CountIn(rq, K) + (IF r \in K THEN 1 ELSE 0)
  BY CountAppend
<1> QED
  BY <1>1, <1>2, <1>3 DEF Flight

(* recv: a request the backend took is still in flight.                     *)
LEMMA FlightTaken ==
  ASSUME NEW rq \in Seq(RequestMessage), NEW rs \in Seq(AnswerRecord), NEW b, NEW c,
         NEW K \in SUBSET BackendRequest, rq # <<>>, b.request = "none",
         c.request = IF Head(rq) = "Shutdown" THEN "none" ELSE Head(rq)
  PROVE  Flight(Tail(rq), rs, c, K) = Flight(rq, rs, b, K)
<1>1. Tail(rq) \in Seq(RequestMessage)
  OBVIOUS
<1>2. CountIn(Tail(rq), K) \in Nat
  BY <1>1, CountIsNat, Zenon
<1>3. CountIn(rs, Answering(K)) \in Nat
  BY CountIsNat, Zenon
<1>4. CountIn(rq, K) = CountIn(Tail(rq), K) + (IF Head(rq) \in K THEN 1 ELSE 0)
  BY CountTail
<1>5. "none" \notin K /\ "Shutdown" \notin K
  BY DEF BackendRequest, ServiceActions
<1> QED
  BY <1>2, <1>3, <1>4, <1>5 DEF Flight

(* respond: a request whose answer was sent is still in flight.             *)
LEMMA FlightAnswered ==
  ASSUME NEW rq \in Seq(RequestMessage), NEW rs \in Seq(AnswerRecord), NEW b, NEW c,
         NEW K \in SUBSET BackendRequest, NEW x \in AnswerRecord, x.request = b.request,
         c.request = "none"
  PROVE  Flight(rq, Append(rs, x), c, K) = Flight(rq, rs, b, K)
<1>1. CountIn(rq, K) \in Nat
  BY CountIsNat, Zenon
<1>2. CountIn(rs, Answering(K)) \in Nat
  BY CountIsNat, Zenon
<1>3. CountIn(Append(rs, x), Answering(K))
        = CountIn(rs, Answering(K)) + (IF x \in Answering(K) THEN 1 ELSE 0)
  BY CountAppend
<1>4. "none" \notin K
  BY DEF BackendRequest, ServiceActions
<1>5. x \in Answering(K) <=> b.request \in K
  BY DEF Answering
<1> QED
  BY <1>1, <1>2, <1>3, <1>4, <1>5 DEF Flight

(* process_backend_responses: an answer the window took is not.             *)
LEMMA FlightLanded ==
  ASSUME NEW rq \in Seq(RequestMessage), NEW rs \in Seq(AnswerRecord), NEW b,
         NEW K \in SUBSET BackendRequest, rs # <<>>
  PROVE  /\ Flight(rq, Tail(rs), b, K) \in Nat
         /\ Flight(rq, rs, b, K)
              = Flight(rq, Tail(rs), b, K) + (IF Head(rs).request \in K THEN 1 ELSE 0)
<1>1. Tail(rs) \in Seq(AnswerRecord) /\ Head(rs) \in AnswerRecord
  OBVIOUS
<1>2. CountIn(rq, K) \in Nat
  BY CountIsNat, Zenon
<1>3. CountIn(Tail(rs), Answering(K)) \in Nat
  BY <1>1, CountIsNat, Zenon
<1>4. CountIn(rs, Answering(K))
        = CountIn(Tail(rs), Answering(K)) + (IF Head(rs) \in Answering(K) THEN 1 ELSE 0)
  BY CountTail
<1>5. Head(rs) \in Answering(K) <=> Head(rs).request \in K
  BY <1>1 DEF Answering
<1> QED
  BY <1>2, <1>3, <1>4, <1>5 DEF Flight

(* InFlight counts as Flight does.                                          *)
LEMMA InFlightIsFlight ==
  ASSUME responses \in Seq(AnswerRecord), NEW K
  PROVE  InFlight(K) = Flight(requests, responses, backend, K)
<1>1. {i \in DOMAIN responses : responses[i].request \in K}
        = {i \in DOMAIN responses : responses[i] \in Answering(K)}
  BY DEF Answering
<1> QED
  BY <1>1, Zenon DEF InFlight, Flight, CountIn

(* The events that are no requests to the backend.                          *)
Internal == {"InitTray", "RightClick", "RefreshAfterMenu", "Close"}

(* A record has the fields of AppState.                                     *)
IsAppState(u) ==
  u = [open |-> u.open, running |-> u.running, reset |-> u.reset, inflight |-> u.inflight,
       again |-> u.again, pending |-> u.pending, menu |-> u.menu, dirty |-> u.dirty,
       tip |-> u.tip, stale |-> u.stale, jammed |-> u.jammed]

(* FlagsMatchFlight and TooltipIsTracked of any window u.                   *)
FlagsOK(u, rq, rs, b) ==
  /\ Flight(rq, rs, b, {"RefreshStatus"}) = (IF u.inflight THEN 1 ELSE 0)
  /\ Flight(rq, rs, b, ServiceActions) = (IF u.pending /\ ~u.jammed THEN 1 ELSE 0)
  /\ u.jammed => u.pending
TipOK(u) == u.tip # u.running => u.dirty \/ u.stale

(* apply_service_state changes none of the flags and tracks the tooltip,    *)
(* whether it can be set or not.                                            *)
LEMMA ApplyKeeps ==
  ASSUME NEW u, NEW run, NEW reset, NEW a \in apply_service_state(u, run, reset), NEW v,
         IsAppState(u), TipOK(u), v = a.state
  PROVE  /\ IsAppState(v) /\ TipOK(v)
         /\ v.open = u.open /\ v.inflight = u.inflight /\ v.again = u.again
         /\ v.pending = u.pending /\ v.menu = u.menu /\ v.jammed = u.jammed
<1> DEFINE w == [open |-> u.open, running |-> run, reset |-> reset, inflight |-> u.inflight,
                 again |-> u.again, pending |-> u.pending, menu |-> u.menu,
                 dirty |-> u.dirty, tip |-> u.tip, stale |-> u.stale, jammed |-> u.jammed]
<1>1. [u EXCEPT !.running = run, !.reset = reset] = w
  <2>1. PICK x : x = [u EXCEPT !.running = run, !.reset = reset]
    OBVIOUS
  <2>2. x = w
    BY <2>1, Zenon DEF IsAppState
  <2> QED
    BY <2>1, <2>2, Zenon
<1>2. CASE u.menu
  <2>1. a = Applied([w EXCEPT !.dirty = u.dirty \/ u.running # run])
    BY <1>1, <1>2, Zenon DEF apply_service_state, Dirty
  <2>2. v = [w EXCEPT !.dirty = u.dirty \/ u.running # run]
    BY <2>1, Zenon DEF Applied
  <2>3. PICK d : d = (u.dirty \/ u.running # run)
    BY Zenon
  <2>4. v = [open |-> u.open, running |-> run, reset |-> reset, inflight |-> u.inflight,
             again |-> u.again, pending |-> u.pending, menu |-> u.menu,
             dirty |-> d, tip |-> u.tip, stale |-> u.stale, jammed |-> u.jammed]
    BY <2>2, <2>3, Zenon
  <2>5. /\ IsAppState(v) /\ v.open = u.open /\ v.inflight = u.inflight /\ v.again = u.again
        /\ v.pending = u.pending /\ v.menu = u.menu /\ v.jammed = u.jammed
        /\ v.running = run /\ v.dirty = d /\ v.tip = u.tip /\ v.stale = u.stale
    BY <2>4 DEF IsAppState
  <2>6. TipOK(v)
    BY <2>3, <2>5, Zenon DEF TipOK
  <2> QED
    BY <2>5, <2>6
<1>3. CASE ~u.menu /\ (u.running # run \/ u.dirty)
  <2>1. \/ a = Applied([w EXCEPT !.tip = run, !.dirty = FALSE, !.stale = FALSE])
        \/ a = Unapplied([w EXCEPT !.stale = TRUE])
    BY <1>1, <1>3, Zenon DEF apply_service_state
  <2>3. CASE a = Applied([w EXCEPT !.tip = run, !.dirty = FALSE, !.stale = FALSE])
    <3>1. v = [w EXCEPT !.tip = run, !.dirty = FALSE, !.stale = FALSE]
      BY <2>3, Zenon DEF Applied
    <3>2. v = [open |-> u.open, running |-> run, reset |-> reset, inflight |-> u.inflight,
               again |-> u.again, pending |-> u.pending, menu |-> u.menu,
               dirty |-> FALSE, tip |-> run, stale |-> FALSE, jammed |-> u.jammed]
      BY <3>1, Zenon
    <3>3. /\ IsAppState(v) /\ v.open = u.open /\ v.inflight = u.inflight /\ v.again = u.again
          /\ v.pending = u.pending /\ v.menu = u.menu /\ v.jammed = u.jammed
          /\ v.running = run /\ v.tip = run
      BY <3>2 DEF IsAppState
    <3> QED
      BY <3>3 DEF TipOK
  <2>4. CASE a = Unapplied([w EXCEPT !.stale = TRUE])
    <3>1. v = [w EXCEPT !.stale = TRUE]
      BY <2>4, Zenon DEF Unapplied
    <3>2. v = [open |-> u.open, running |-> run, reset |-> reset, inflight |-> u.inflight,
               again |-> u.again, pending |-> u.pending, menu |-> u.menu,
               dirty |-> u.dirty, tip |-> u.tip, stale |-> TRUE, jammed |-> u.jammed]
      BY <3>1, Zenon
    <3>3. /\ IsAppState(v) /\ v.open = u.open /\ v.inflight = u.inflight /\ v.again = u.again
          /\ v.pending = u.pending /\ v.menu = u.menu /\ v.jammed = u.jammed
      BY <3>2 DEF IsAppState
    <3>4. v.stale
      BY <3>2
    <3> QED
      BY <3>3, <3>4 DEF TipOK
  <2> QED
    BY <2>1, <2>3, <2>4
<1>4. CASE ~u.menu /\ ~(u.running # run \/ u.dirty)
  <2>1. a = Applied(w)
    BY <1>1, <1>4, Zenon DEF apply_service_state
  <2>2. v = w
    BY <2>1, Zenon DEF Applied
  <2> QED
    BY <1>4, <2>2 DEF IsAppState, TipOK
<1> QED
  BY <1>2, <1>3, <1>4

(* dispatch_request of a refresh, by the timer or after a menu or an answer. *)
LEMMA RefreshKeeps ==
  ASSUME NEW u, NEW rs \in Seq(AnswerRecord), NEW b, requests \in Seq(RequestMessage),
         IsAppState(u), TipOK(u), u.open => FlagsOK(u, requests, rs, b),
         dispatch_request(u, "RefreshStatus")
  PROVE  /\ IsAppState(ui') /\ TipOK(ui') /\ requests' \in Seq(RequestMessage)
         /\ ui'.open = u.open /\ ui'.pending = u.pending /\ ui'.menu = u.menu
         /\ ui'.open => FlagsOK(ui', requests', rs, b)
<1>1. "RefreshStatus" \in RequestMessage /\ "RefreshStatus" \notin ServiceActions
  BY DEF RequestMessage, BackendRequest, ServiceActions
<1>2. CASE requests' = requests /\ ui' = [u EXCEPT !.again = TRUE]
  BY <1>2, Zenon DEF IsAppState, TipOK, FlagsOK
<1>3. CASE ~u.inflight /\ requests' = requests /\ ui' = [u EXCEPT !.inflight = FALSE]
  <2>1. IsAppState(ui') /\ TipOK(ui') /\ ui'.open = u.open /\ ui'.pending = u.pending
        /\ ui'.menu = u.menu /\ ui'.jammed = u.jammed
    BY <1>3, Zenon DEF IsAppState, TipOK
  <2>2. ~ui'.inflight
    BY <1>3 DEF IsAppState
  <2> QED
    BY <1>3, <2>1, <2>2 DEF FlagsOK
<1>4. CASE ~u.inflight /\ requests' = Append(requests, "RefreshStatus")
           /\ ui' = [u EXCEPT !.inflight = TRUE]
  <2>1. requests' \in Seq(RequestMessage)
    BY <1>1, <1>4
  <2>2. IsAppState(ui') /\ TipOK(ui') /\ ui'.open = u.open /\ ui'.pending = u.pending
        /\ ui'.menu = u.menu /\ ui'.jammed = u.jammed
    BY <1>4, Zenon DEF IsAppState, TipOK
  <2>3. ui'.inflight
    BY <1>4 DEF IsAppState
  <2>4. Flight(requests', rs, b, {"RefreshStatus"})
          = Flight(requests, rs, b, {"RefreshStatus"}) + 1
    BY <1>1, <1>4, FlightSent
  <2>5. /\ Flight(requests', rs, b, ServiceActions) = Flight(requests, rs, b, ServiceActions)
    BY <1>1, <1>4, FlightSent
  <2>6. ASSUME u.open PROVE FlagsOK(ui', requests', rs, b)
    BY <1>4, <2>2, <2>3, <2>4, <2>5, <2>6 DEF FlagsOK
  <2> QED
    BY <2>1, <2>2, <2>6
<1>5. CASE u.inflight
  BY <1>2, <1>5 DEF dispatch_request, PutOff
<1>6. CASE ~u.inflight
  <2>1. PICK a \in {Applied(u)} :
          \/ ~a.ok
          \/ ui' = Sent(a.state, "RefreshStatus") /\ requests' = Append(requests, "RefreshStatus")
          \/ ui' \in Refused(a.state, "RefreshStatus") /\ UNCHANGED requests
    BY <1>1, <1>6, Zenon DEF dispatch_request
  <2>2. a.ok /\ a.state = u
    BY <2>1 DEF Applied
  <2>3. CASE ui' = Sent(u, "RefreshStatus") /\ requests' = Append(requests, "RefreshStatus")
    BY <1>4, <1>6, <2>3 DEF Sent
  <2>4. CASE ui' \in Refused(u, "RefreshStatus") /\ UNCHANGED requests
    <3>1. ui' = [u EXCEPT !.inflight = FALSE] \/ ui' = [u EXCEPT !.again = TRUE]
      BY <1>1, <2>4, Zenon DEF Refused, PutOff
    <3> QED
      BY <1>2, <1>3, <1>6, <2>4, <3>1
  <2> QED
    BY <2>1, <2>2, <2>3, <2>4
<1> QED
  BY <1>5, <1>6

(* Marking an action as pending or not: what becomes of the window.         *)
LEMMA PendingKeeps ==
  ASSUME NEW u, NEW p, NEW a, a \in SetPending(u, p), NEW v,
         IsAppState(u), TipOK(u), v = a.state
  PROVE  /\ IsAppState(v) /\ TipOK(v) /\ v.open = u.open /\ v.inflight = u.inflight
         /\ v.menu = u.menu /\ v.jammed = u.jammed /\ v.pending = p
<1> DEFINE w == [open |-> u.open, running |-> u.running, reset |-> u.reset,
                 inflight |-> u.inflight, again |-> u.again, pending |-> p, menu |-> u.menu,
                 dirty |-> u.dirty, tip |-> u.tip, stale |-> u.stale, jammed |-> u.jammed]
<1>1. PICK x : x = [u EXCEPT !.pending = p]
  OBVIOUS
<1>2. x = w
  BY <1>1, Zenon DEF IsAppState
<1>3. IsAppState(x) /\ TipOK(x) /\ x.open = u.open /\ x.inflight = u.inflight
      /\ x.menu = u.menu /\ x.jammed = u.jammed
  BY <1>2, Zenon DEF IsAppState, TipOK
<1>4. x.pending = p
  BY <1>2
<1>5. a \in apply_service_state(x, u.running, u.reset)
  BY <1>1, Zenon DEF SetPending
<1>6. /\ IsAppState(v) /\ TipOK(v) /\ v.open = x.open /\ v.inflight = x.inflight
      /\ v.pending = x.pending /\ v.menu = x.menu /\ v.jammed = x.jammed
  BY <1>3, <1>5, ApplyKeeps
<1> QED
  BY <1>3, <1>4, <1>6, Zenon

(* dispatch_request of an action of the menu: at most one is pending, and   *)
(* one that was marked and not sent jams the window.                        *)
LEMMA ActionKeeps ==
  ASSUME NEW r \in ServiceActions, requests \in Seq(RequestMessage),
         responses \in Seq(AnswerRecord), IsAppState(ui), TipOK(ui), ~ui.pending,
         ui.open => FlagsOK(ui, requests, responses, backend), dispatch_request(ui, r)
  PROVE  /\ IsAppState(ui') /\ TipOK(ui') /\ requests' \in Seq(RequestMessage)
         /\ ui'.open = ui.open /\ ui'.menu = ui.menu
         /\ ui'.open => FlagsOK(ui', requests', responses, backend)
<1>1. r \in RequestMessage /\ r \notin {"RefreshStatus"}
  BY DEF RequestMessage, BackendRequest, ServiceActions
<1>2. PICK a \in SetPending(ui, TRUE) :
        \/ ui' = [a.state EXCEPT !.jammed = TRUE] /\ UNCHANGED requests
        \/ ui' = Sent(a.state, r) /\ requests' = Append(requests, r)
        \/ ui' \in Refused(a.state, r) /\ UNCHANGED requests
  BY <1>1, Zenon DEF dispatch_request
<1>3. PICK u : u = a.state
  OBVIOUS
<1>4. /\ IsAppState(u) /\ TipOK(u) /\ u.open = ui.open /\ u.inflight = ui.inflight
      /\ u.menu = ui.menu /\ u.jammed = ui.jammed /\ u.pending
  <2>1. /\ IsAppState(u) /\ TipOK(u) /\ u.open = ui.open /\ u.inflight = ui.inflight
        /\ u.menu = ui.menu /\ u.jammed = ui.jammed /\ u.pending = TRUE
    <3>1. PICK p : p = TRUE
      OBVIOUS
    <3>2. a \in SetPending(ui, p)
      BY <1>2, <3>1, Zenon
    <3>3. /\ IsAppState(u) /\ TipOK(u) /\ u.open = ui.open /\ u.inflight = ui.inflight
          /\ u.menu = ui.menu /\ u.jammed = ui.jammed /\ u.pending = p
      BY <1>3, <3>2, PendingKeeps, SMT
    <3> QED
      BY <3>1, <3>3, Zenon
  <2> QED
    BY <2>1, Zenon
<1>5. CASE ui' = [u EXCEPT !.jammed = TRUE] /\ UNCHANGED requests
  <2>1. IsAppState(ui') /\ TipOK(ui') /\ ui'.open = u.open /\ ui'.pending = u.pending
        /\ ui'.menu = u.menu /\ ui'.inflight = u.inflight
    BY <1>4, <1>5, Zenon DEF IsAppState, TipOK
  <2>2. ui'.jammed
    BY <1>4, <1>5 DEF IsAppState
  <2> QED
    BY <1>4, <1>5, <2>1, <2>2 DEF FlagsOK
<1>6. CASE ui' = Sent(u, r) /\ requests' = Append(requests, r)
  <2>1. ui' = u
    BY <1>1, <1>6, Zenon DEF Sent
  <2>2. requests' \in Seq(RequestMessage)
    BY <1>1, <1>6
  <2>3. Flight(requests', responses, backend, {"RefreshStatus"})
          = Flight(requests, responses, backend, {"RefreshStatus"})
    BY <1>1, <1>6, FlightSent
  <2>4. Flight(requests', responses, backend, ServiceActions)
          = Flight(requests, responses, backend, ServiceActions) + 1
    BY <1>1, <1>6, FlightSent
  <2>5. ASSUME ui.open PROVE FlagsOK(ui', requests', responses, backend)
    BY <1>4, <2>1, <2>3, <2>4, <2>5 DEF FlagsOK
  <2> QED
    BY <1>4, <2>1, <2>2, <2>5
<1>7. CASE ui' \in Refused(u, r) /\ UNCHANGED requests
  <2>1. PICK c \in SetPending(u, FALSE) : ui' = c.state
    BY <1>1, <1>7, Zenon DEF Refused
  <2>2. /\ IsAppState(ui') /\ TipOK(ui') /\ ui'.open = u.open /\ ui'.inflight = u.inflight
        /\ ui'.menu = u.menu /\ ui'.jammed = u.jammed /\ ~ui'.pending
    <3>1. /\ IsAppState(ui') /\ TipOK(ui') /\ ui'.open = u.open /\ ui'.inflight = u.inflight
          /\ ui'.menu = u.menu /\ ui'.jammed = u.jammed /\ ui'.pending = FALSE
      <4>1. PICK p : p = FALSE
        OBVIOUS
      <4>2. c \in SetPending(u, p)
        BY <2>1, <4>1
      <4> QED
        BY <1>4, <2>1, <4>1, <4>2, PendingKeeps
    <3> QED
      BY <3>1, Zenon
  <2> QED
    BY <1>4, <1>7, <2>2 DEF FlagsOK
<1> QED
  BY <1>2, <1>3, <1>5, <1>6, <1>7

(* Closing the window leaves requests for the backend and nothing else.     *)
LEMMA DestroyKeeps ==
  ASSUME NEW q \in Seq(RequestMessage), DestroyWindow(q)
  PROVE  IsAppState(ui') /\ TipOK(ui') /\ requests' \in Seq(RequestMessage) /\ ~ui'.open
<1>1. requests' \in Seq(RequestMessage)
  BY DEF DestroyWindow, RequestMessage
<1>2. IsAppState(ui') /\ TipOK(ui')
  BY DEF DestroyWindow, Closed, IsAppState, TipOK
<1>3. ~ui'.open
  BY DEF DestroyWindow, Closed
<1> QED
  BY <1>1, <1>2, <1>3

(* The queue e of the window u: one menu at a time, what was chosen comes   *)
(* first, and an action of the service only while none is pending.          *)
QueueOK(u, e) ==
  /\ e \in Seq((BackendRequest \ {"RefreshStatus"}) \cup Internal)
  /\ u.menu => e = <<>>
  /\ \A i \in DOMAIN e : /\ e[i] = "RightClick" => i = Len(e)
                         /\ e[i] \in ServiceActions => i = 1 /\ ~u.pending

WindowOK(u, e, rq, rs, b) ==
  /\ IsAppState(u) /\ TipOK(u)
  /\ u.open => FlagsOK(u, rq, rs, b) /\ QueueOK(u, e)

(* The backend thread holds a request exactly while it handles one.         *)
BackendOK(b) ==
  /\ b = [pc |-> b.pc, request |-> b.request, running |-> b.running, reset |-> b.reset]
  /\ b.pc \in {"start", "recv", "act", "query", "lifecycle", "send", "post", "exit"}
  /\ IF b.pc \in {"start", "recv", "post", "exit"} THEN b.request = "none"
     ELSE b.request \in BackendRequest
SnapshotOK(b) == b.running \in BOOLEAN /\ b.reset \in BOOLEAN

TrayInv ==
  /\ service \in BOOLEAN
  /\ requests \in Seq(RequestMessage) /\ responses \in Seq(AnswerRecord)
  /\ BackendOK(backend) /\ SnapshotOK(backend)
  /\ WindowOK(ui, events, requests, responses, backend)
  /\ AnswersAreAnnounced

(* TrayInit: nothing is in flight.                                          *)
LEMMA TrayInitInv ==
  TrayInit => TrayInv
<1> SUFFICES ASSUME TrayInit PROVE TrayInv
  OBVIOUS
<1>1. service \in BOOLEAN /\ requests \in Seq(RequestMessage) /\ responses \in Seq(AnswerRecord)
      /\ AnswersAreAnnounced
  BY DEF TrayInit, AnswersAreAnnounced
<1>2. BackendOK(backend) /\ backend.request = "none"
  BY DEF TrayInit, BackendOK, Waiting
<1>3. SnapshotOK(backend)
  <2>2. backend.running = FALSE /\ backend.reset = FALSE
    BY DEF TrayInit, Waiting
  <2> QED
    BY <2>2, Zenon DEF SnapshotOK
<1>4. PICK run \in BOOLEAN : ui = [Closed EXCEPT !.open = TRUE, !.running = run, !.tip = run]
  BY Zenon DEF TrayInit
<1>5. ui = [open |-> TRUE, running |-> run, reset |-> FALSE, inflight |-> FALSE, again |-> FALSE,
            pending |-> FALSE, menu |-> FALSE, dirty |-> FALSE, tip |-> run, stale |-> FALSE,
            jammed |-> FALSE]
  BY <1>4, Zenon DEF Closed
<1>6. IsAppState(ui) /\ TipOK(ui)
  BY <1>5 DEF IsAppState, TipOK
<1>7. ~ui.inflight /\ ~ui.pending /\ ~ui.menu /\ ~ui.jammed
  BY <1>5
<1>8. \A K : CountIn(requests, K) = 0 /\ CountIn(responses, K) = 0
  BY <1>1, CountIsNat, Zenon DEF TrayInit
<1>9. "none" \notin {"RefreshStatus"} /\ "none" \notin ServiceActions
  BY DEF ServiceActions
<1>10. FlagsOK(ui, requests, responses, backend)
  BY <1>2, <1>7, <1>8, <1>9 DEF FlagsOK, Flight
<1>11. QueueOK(ui, events)
  BY <1>7 DEF TrayInit, QueueOK, ServiceActions, Internal
<1> QED
  BY <1>1, <1>2, <1>3, <1>6, <1>10, <1>11 DEF TrayInv, WindowOK

(* The queue stays in order when nothing but a pending action changes.      *)
LEMMA QueueKeeps ==
  ASSUME NEW u, NEW v, NEW e, QueueOK(u, e), v.menu = u.menu, v.pending => u.pending
  PROVE  QueueOK(v, e)
BY DEF QueueOK

(* What is left of the queue holds no action.                               *)
LEMMA QueueTail ==
  ASSUME NEW u, NEW v, NEW e, QueueOK(u, e), e # <<>>, v.menu => u.menu
  PROVE  /\ QueueOK(v, Tail(e))
         /\ \A i \in DOMAIN Tail(e) : Tail(e)[i] \notin ServiceActions
         /\ Head(e) \in (BackendRequest \ {"RefreshStatus"})
                          \cup Internal
         /\ Head(e) = "RightClick" => Tail(e) = <<>>
         /\ Head(e) \in ServiceActions => ~u.pending
<1> DEFINE S == (BackendRequest \ {"RefreshStatus"}) \cup Internal
<1>1. e \in Seq(S) /\ ~u.menu
  BY DEF QueueOK
<1>2. \A i \in DOMAIN e : /\ e[i] = "RightClick" => i = Len(e)
                          /\ e[i] \in ServiceActions => i = 1 /\ ~u.pending
  BY DEF QueueOK
<1> HIDE DEF S
<1>3. /\ Tail(e) \in Seq(S) /\ Head(e) = e[1] /\ e[1] \in S /\ 1 \in DOMAIN e
      /\ Len(e) \in Nat /\ Len(Tail(e)) = Len(e) - 1
      /\ DOMAIN Tail(e) = 1 .. (Len(e) - 1) /\ DOMAIN e = 1 .. Len(e)
      /\ \A i \in 1 .. (Len(e) - 1) : Tail(e)[i] = e[i + 1]
  BY <1>1
<1>4. \A i \in DOMAIN Tail(e) : i + 1 \in DOMAIN e /\ i + 1 # 1 /\ Tail(e)[i] = e[i + 1]
  BY <1>3
<1>5. \A i \in DOMAIN Tail(e) : Tail(e)[i] \notin ServiceActions
  BY <1>2, <1>4
<1>6. \A i \in DOMAIN Tail(e) : Tail(e)[i] = "RightClick" => i = Len(Tail(e))
  BY <1>2, <1>3, <1>4
<1>7. Head(e) = "RightClick" => Tail(e) = <<>>
  BY <1>1, <1>2, <1>3
<1>8. QueueOK(v, Tail(e))
  BY <1>1, <1>3, <1>5, <1>6 DEF QueueOK, S
<1>9. Head(e) \in ServiceActions => ~u.pending
  BY <1>2, <1>3
<1> QED
  BY <1>3, <1>5, <1>7, <1>8, <1>9 DEF S

(* The steps of the window: the backend and the wake-up stay as they are.   *)
LEMMA TimerKeeps ==
  TrayInv /\ timer => TrayInv'
<1> SUFFICES ASSUME TrayInv, timer PROVE TrayInv'
  OBVIOUS
<1>1. UNCHANGED <<service, events, responses, wake, backend>> /\ ui.open
      /\ dispatch_request(ui, "RefreshStatus")
  BY DEF timer
<1>2. requests \in Seq(RequestMessage) /\ responses \in Seq(AnswerRecord)
      /\ IsAppState(ui) /\ TipOK(ui) /\ FlagsOK(ui, requests, responses, backend)
      /\ QueueOK(ui, events)
  BY <1>1 DEF TrayInv, WindowOK
<1>3. /\ IsAppState(ui') /\ TipOK(ui') /\ requests' \in Seq(RequestMessage)
      /\ ui'.open = ui.open /\ ui'.pending = ui.pending /\ ui'.menu = ui.menu
      /\ ui'.open => FlagsOK(ui', requests', responses, backend)
  BY <1>1, <1>2, RefreshKeeps, Zenon
<1>4. QueueOK(ui', events)
  BY <1>2, <1>3, QueueKeeps
<1>5. WindowOK(ui', events', requests', responses', backend')
  BY <1>1, <1>3, <1>4 DEF WindowOK
<1>6. AnswersAreAnnounced'
  BY <1>1, <1>3 DEF TrayInv, AnswersAreAnnounced
<1> QED
  BY <1>1, <1>3, <1>5, <1>6 DEF TrayInv

(* click: a right click comes last.                                         *)
LEMMA ClickKeeps ==
  TrayInv /\ click => TrayInv'
<1> SUFFICES ASSUME TrayInv, click PROVE TrayInv'
  OBVIOUS
<1>1. UNCHANGED <<service, ui, requests, responses, wake, backend>> /\ ui.open /\ ~ui.menu
      /\ events' = Append(events, "RightClick")
      /\ \A i \in DOMAIN events : events[i] # "RightClick"
  BY DEF click
<1>2. QueueOK(ui, events)
  BY <1>1 DEF TrayInv, WindowOK
<1> DEFINE S == (BackendRequest \ {"RefreshStatus"}) \cup Internal
<1>3. events \in Seq(S) /\ "RightClick" \in S /\ "RightClick" \notin ServiceActions
  BY <1>2 DEF QueueOK, ServiceActions, Internal
<1>4. \A i \in DOMAIN events : events[i] \in ServiceActions => i = 1 /\ ~ui.pending
  BY <1>2 DEF QueueOK
<1>5. /\ events' \in Seq(S) /\ Len(events') = Len(events) + 1
      /\ DOMAIN events' = 1 .. (Len(events) + 1) /\ DOMAIN events = 1 .. Len(events)
      /\ \A i \in 1 .. Len(events) : events'[i] = events[i]
      /\ events'[Len(events) + 1] = "RightClick" /\ Len(events) \in Nat
  BY <1>1, <1>3
<1>6. QueueOK(ui, events')
  BY <1>1, <1>3, <1>4, <1>5 DEF QueueOK
<1>7. WindowOK(ui', events', requests', responses', backend')
  BY <1>1, <1>6 DEF TrayInv, WindowOK
<1> QED
  BY <1>1, <1>7 DEF TrayInv, AnswersAreAnnounced

(* show_tray_menu: what was chosen comes first, a refresh behind it.        *)
LEMMA MenuKeeps ==
  TrayInv /\ show_tray_menu => TrayInv'
<1> SUFFICES ASSUME TrayInv, show_tray_menu PROVE TrayInv'
  OBVIOUS
<1>1. UNCHANGED <<service, requests, responses, wake, backend>> /\ ui.open /\ ui.menu
      /\ ui' = [ui EXCEPT !.menu = FALSE]
  BY DEF show_tray_menu
<1>2. IsAppState(ui) /\ TipOK(ui) /\ FlagsOK(ui, requests, responses, backend)
      /\ events = <<>>
  BY <1>1 DEF TrayInv, WindowOK, QueueOK
<1>3. /\ IsAppState(ui') /\ TipOK(ui') /\ ui'.open = ui.open /\ ui'.pending = ui.pending
      /\ ui'.inflight = ui.inflight /\ ui'.jammed = ui.jammed
  BY <1>1, <1>2, Zenon DEF IsAppState, TipOK
<1>4. ~ui'.menu
  BY <1>1, <1>2 DEF IsAppState
<1> DEFINE S == (BackendRequest \ {"RefreshStatus"}) \cup Internal
<1>5. Enabled \in SUBSET (S \ {"RightClick"})
  BY DEF Enabled, BackendRequest, ServiceActions, Internal
<1>6. Enabled \cap ServiceActions # {} => ~ui.pending
  BY DEF Enabled, ServiceActions
<1>7. "RefreshAfterMenu" \in S /\ "RefreshAfterMenu" \notin ServiceActions
      /\ "RefreshAfterMenu" # "RightClick"
  BY DEF ServiceActions, Internal
<1>8. CASE events' = Append(events, "RefreshAfterMenu")
  <2>1. events' = <<"RefreshAfterMenu">>
    BY <1>2, <1>8
  <2> QED
    BY <1>1, <1>2, <1>3, <1>4, <1>7, <2>1 DEF TrayInv, WindowOK, QueueOK, FlagsOK, AnswersAreAnnounced
<1>9. ASSUME NEW m \in Enabled, events' = events \o <<m, "RefreshAfterMenu">> PROVE TrayInv'
  <2>1. events' = <<m, "RefreshAfterMenu">> /\ m \in S /\ m # "RightClick"
    BY <1>2, <1>5, <1>9
  <2>2. events' \in Seq(S) /\ DOMAIN events' = {1, 2} /\ events'[1] = m
        /\ events'[2] = "RefreshAfterMenu"
    BY <1>7, <2>1
  <2>3. m \in ServiceActions => ~ui'.pending
    BY <1>3, <1>6
  <2>4. QueueOK(ui', events')
    BY <1>4, <1>7, <2>1, <2>2, <2>3 DEF QueueOK
  <2>5. WindowOK(ui', events', requests', responses', backend')
    BY <1>1, <1>2, <1>3, <2>4 DEF WindowOK, FlagsOK
  <2> QED
    BY <1>1, <1>3, <2>5 DEF TrayInv, AnswersAreAnnounced
<1> QED
  BY <1>8, <1>9, Zenon DEF show_tray_menu

(* process_ui_events: by the event.                                         *)
LEMMA EventKeeps ==
  TrayInv /\ process_ui_events => TrayInv'
<1> SUFFICES ASSUME TrayInv, process_ui_events PROVE TrayInv'
  OBVIOUS
<1>1. UNCHANGED <<service, responses, wake, backend>> /\ ui.open /\ events # <<>>
      /\ events' = Tail(events)
  BY DEF process_ui_events
<1>2. requests \in Seq(RequestMessage) /\ responses \in Seq(AnswerRecord)
      /\ IsAppState(ui) /\ TipOK(ui) /\ FlagsOK(ui, requests, responses, backend)
      /\ QueueOK(ui, events)
  BY <1>1 DEF TrayInv, WindowOK
<1>3. /\ \A i \in DOMAIN events' : events'[i] \notin ServiceActions
      /\ QueueOK(ui, events')
      /\ Head(events) \in (BackendRequest \ {"RefreshStatus"})
                            \cup Internal
      /\ Head(events) = "RightClick" => events' = <<>>
      /\ Head(events) \in ServiceActions => ~ui.pending
  BY <1>1, <1>2, QueueTail, Zenon
<1>4. ~ui.menu
  BY <1>1, <1>2 DEF QueueOK
<1>5. SUFFICES /\ IsAppState(ui') /\ TipOK(ui') /\ requests' \in Seq(RequestMessage)
               /\ ui'.open => /\ ui.open /\ (ui'.menu => events' = <<>>)
                              /\ FlagsOK(ui', requests', responses, backend)
  <2>1. ui'.open => QueueOK(ui', events')
    BY <1>3, <1>5 DEF QueueOK
  <2>2. WindowOK(ui', events', requests', responses', backend')
    BY <1>1, <1>5, <2>1 DEF WindowOK
  <2>3. AnswersAreAnnounced'
    BY <1>1, <1>5 DEF TrayInv, AnswersAreAnnounced
  <2> QED
    BY <1>1, <1>5, <2>2, <2>3 DEF TrayInv
<1>6. CASE Head(events) = "RightClick"
  <2>1. ui' = [ui EXCEPT !.menu = TRUE] /\ requests' = requests
    BY <1>6 DEF process_ui_events
  <2>2. IsAppState(ui') /\ TipOK(ui') /\ ui'.open = ui.open /\ ui'.pending = ui.pending
        /\ ui'.inflight = ui.inflight /\ ui'.jammed = ui.jammed
    BY <1>2, <2>1, Zenon DEF IsAppState, TipOK
  <2> QED
    BY <1>1, <1>2, <1>3, <1>6, <2>1, <2>2 DEF FlagsOK
<1>7. CASE Head(events) = "RefreshAfterMenu"
  <2>1. dispatch_request(ui, "RefreshStatus")
    BY <1>7 DEF process_ui_events
  <2>2. /\ IsAppState(ui') /\ TipOK(ui') /\ requests' \in Seq(RequestMessage)
        /\ ui'.open = ui.open /\ ui'.pending = ui.pending /\ ui'.menu = ui.menu
        /\ ui'.open => FlagsOK(ui', requests', responses, backend)
    BY <1>2, <2>1, RefreshKeeps
  <2> QED
    BY <1>1, <1>4, <2>2
<1>9. CASE Head(events) = "InitTray"
  <2>1. initialize_tray
    BY <1>9 DEF process_ui_events
  <2>2. CASE dispatch_request(ui, "RefreshStatus")
    <3>1. /\ IsAppState(ui') /\ TipOK(ui') /\ requests' \in Seq(RequestMessage)
          /\ ui'.open = ui.open /\ ui'.pending = ui.pending /\ ui'.menu = ui.menu
          /\ ui'.open => FlagsOK(ui', requests', responses, backend)
      BY <1>2, <2>2, RefreshKeeps
    <3> QED
      BY <1>1, <1>4, <3>1
  <2>3. CASE DestroyWindow(requests)
    BY <1>2, <2>3, DestroyKeeps
  <2>4. CASE DestroyWindow(Append(requests, "RefreshStatus"))
    <3>1. Append(requests, "RefreshStatus") \in Seq(RequestMessage)
      BY <1>2 DEF RequestMessage, BackendRequest
    <3> QED
      BY <2>4, <3>1, DestroyKeeps
  <2> QED
    BY <2>1, <2>2, <2>3, <2>4 DEF initialize_tray
<1>8. CASE Head(events) \notin {"InitTray", "RightClick", "RefreshAfterMenu"}
  <2>1. handle_menu_event(Head(events))
    BY <1>8 DEF process_ui_events
  <2>2. CASE Head(events) = "Close"
    <3>1. DestroyWindow(requests) \/ UNCHANGED <<ui, requests>>
      BY <2>1, <2>2 DEF handle_menu_event
    <3>2. CASE UNCHANGED <<ui, requests>>
      BY <1>1, <1>2, <1>4, <3>2
    <3>3. CASE DestroyWindow(requests)
      BY <1>2, <3>3, DestroyKeeps
    <3> QED
      BY <3>1, <3>2, <3>3
  <2>3. CASE Head(events) \in ServiceActions
    <3>1. Head(events) # "Close" /\ ~ui.pending
      BY <1>3, <2>3 DEF ServiceActions
    <3>2. dispatch_request(ui, Head(events))
      BY <2>1, <3>1 DEF handle_menu_event
    <3>3. /\ IsAppState(ui') /\ TipOK(ui') /\ requests' \in Seq(RequestMessage)
          /\ ui'.open = ui.open /\ ui'.menu = ui.menu
          /\ ui'.open => FlagsOK(ui', requests', responses, backend)
      BY <1>2, <2>3, <3>1, <3>2, ActionKeeps
    <3> QED
      BY <1>1, <1>4, <3>3
  <2>4. CASE Head(events) = "ResetAgent"
    <3>1. ui' = ui /\ (requests' = requests \/ requests' = Append(requests, "ResetAgent"))
      <4>1. dispatch_request(ui, "ResetAgent")
        BY <2>1, <2>4 DEF handle_menu_event
      <4>2. PICK a \in {Applied(ui)} :
              \/ ~a.ok
              \/ ui' = Sent(a.state, "ResetAgent") /\ requests' = Append(requests, "ResetAgent")
              \/ ui' \in Refused(a.state, "ResetAgent") /\ UNCHANGED requests
        BY <4>1, Zenon DEF dispatch_request, ServiceActions
      <4>3. a.ok /\ a.state = ui
        BY <4>2 DEF Applied
      <4> QED
        BY <4>2, <4>3 DEF Sent, Refused, ServiceActions
    <3>2. "ResetAgent" \in RequestMessage /\ "ResetAgent" \notin {"RefreshStatus"}
          /\ "ResetAgent" \notin ServiceActions
      BY DEF RequestMessage, BackendRequest, ServiceActions
    <3>3. requests' \in Seq(RequestMessage)
      BY <1>2, <3>1, <3>2
    <3>4. Flight(requests', responses, backend, {"RefreshStatus"})
            = Flight(requests, responses, backend, {"RefreshStatus"})
      <4>1. CASE requests' = requests
        BY <4>1
      <4>2. CASE requests' = Append(requests, "ResetAgent")
        BY <1>2, <3>2, <4>2, FlightSent
      <4> QED
        BY <3>1, <4>1, <4>2
    <3>5. Flight(requests', responses, backend, ServiceActions)
            = Flight(requests, responses, backend, ServiceActions)
      <4>1. CASE requests' = requests
        BY <4>1
      <4>2. CASE requests' = Append(requests, "ResetAgent")
        BY <1>2, <3>2, <4>2, FlightSent
      <4> QED
        BY <3>1, <4>1, <4>2
    <3> QED
      BY <1>1, <1>2, <1>4, <3>1, <3>3, <3>4, <3>5 DEF FlagsOK
  <2> QED
    BY <1>3, <1>8, <2>2, <2>3, <2>4 DEF BackendRequest, Internal
<1> QED
  BY <1>6, <1>7, <1>8, <1>9

(* A refresh that was put off is due.                                       *)
LEMMA PutOnKeeps ==
  ASSUME NEW u, NEW v, IsAppState(u), TipOK(u), v = [u EXCEPT !.again = FALSE]
  PROVE  /\ IsAppState(v) /\ TipOK(v) /\ v.open = u.open /\ v.inflight = u.inflight
         /\ v.pending = u.pending /\ v.menu = u.menu /\ v.jammed = u.jammed
<1>1. v = [open |-> u.open, running |-> u.running, reset |-> u.reset, inflight |-> u.inflight,
           again |-> FALSE, pending |-> u.pending, menu |-> u.menu, dirty |-> u.dirty,
           tip |-> u.tip, stale |-> u.stale, jammed |-> u.jammed]
  BY Zenon DEF IsAppState
<1> QED
  BY <1>1, Zenon DEF IsAppState, TipOK

(* process_backend_responses: by whether an answer waits.                   *)
LEMMA AnswerKeeps ==
  TrayInv /\ process_backend_responses => TrayInv'
<1> SUFFICES ASSUME TrayInv, process_backend_responses PROVE TrayInv'
  OBVIOUS
<1>1. UNCHANGED <<service, events, backend>> /\ ui.open /\ wake
  BY DEF process_backend_responses
<1>2. requests \in Seq(RequestMessage) /\ responses \in Seq(AnswerRecord)
      /\ IsAppState(ui) /\ TipOK(ui) /\ FlagsOK(ui, requests, responses, backend)
      /\ QueueOK(ui, events)
  BY <1>1 DEF TrayInv, WindowOK
<1>3. CASE responses = <<>>
  <2>1. UNCHANGED <<ui, requests, responses>>
    BY <1>3 DEF process_backend_responses
  <2> QED
    BY <1>1, <1>3, <2>1 DEF TrayInv, AnswersAreAnnounced
<1>4. CASE responses # <<>>
  <2> DEFINE r == Head(responses)
             t == [ui EXCEPT !.inflight = @ /\ r.request # "RefreshStatus",
                             !.pending = @ /\ r.request \notin ServiceActions]
  <2>1. /\ responses' = Tail(responses) /\ wake' = wake
        /\ \E a \in apply_service_state(t, r.running, r.reset) :
             IF r.request = "RefreshStatus" /\ a.state.again
             THEN dispatch_request([a.state EXCEPT !.again = FALSE], "RefreshStatus")
             ELSE ui' = a.state /\ UNCHANGED requests
    BY <1>4 DEF process_backend_responses
  <2>2. responses' \in Seq(AnswerRecord)
    BY <1>2, <1>4, <2>1
  <2>3. PICK x : x = t
    OBVIOUS
  <2>4. x = [open |-> ui.open, running |-> ui.running, reset |-> ui.reset,
             inflight |-> ui.inflight /\ r.request # "RefreshStatus", again |-> ui.again,
             pending |-> ui.pending /\ r.request \notin ServiceActions, menu |-> ui.menu,
             dirty |-> ui.dirty, tip |-> ui.tip, stale |-> ui.stale, jammed |-> ui.jammed]
    BY <1>2, <2>3, Zenon DEF IsAppState
  <2>5. IsAppState(x) /\ TipOK(x) /\ x.open = ui.open /\ x.menu = ui.menu
        /\ x.jammed = ui.jammed
    BY <1>2, <2>4 DEF IsAppState, TipOK
  <2>6. /\ x.inflight <=> ui.inflight /\ r.request # "RefreshStatus"
        /\ x.pending <=> ui.pending /\ r.request \notin ServiceActions
    BY <2>4, Zenon
  <2>7. /\ Flight(requests, responses', backend, {"RefreshStatus"}) \in Nat
        /\ Flight(requests, responses, backend, {"RefreshStatus"})
             = Flight(requests, responses', backend, {"RefreshStatus"})
               + (IF r.request \in {"RefreshStatus"} THEN 1 ELSE 0)
    BY <1>2, <1>4, <2>1, FlightLanded DEF BackendRequest
  <2>8. /\ Flight(requests, responses', backend, ServiceActions) \in Nat
        /\ Flight(requests, responses, backend, ServiceActions)
             = Flight(requests, responses', backend, ServiceActions)
               + (IF r.request \in ServiceActions THEN 1 ELSE 0)
    BY <1>2, <1>4, <2>1, FlightLanded DEF BackendRequest
  <2>9. PICK a \in apply_service_state(x, r.running, r.reset) :
          \/ dispatch_request([a.state EXCEPT !.again = FALSE], "RefreshStatus")
          \/ ui' = a.state /\ UNCHANGED requests
    BY <2>1, <2>3, Zenon
  <2> HIDE DEF r, t
  <2>19. PICK u : u = a.state
    OBVIOUS
  <2> DEFINE v == [u EXCEPT !.again = FALSE]
  <2>10. FlagsOK(x, requests, responses', backend)
    BY <1>2, <2>5, <2>6, <2>7, <2>8 DEF FlagsOK
  <2>11. /\ IsAppState(u) /\ TipOK(u)
         /\ u.open = x.open /\ u.inflight = x.inflight
         /\ u.pending = x.pending /\ u.menu = x.menu /\ u.jammed = x.jammed
    BY <2>5, <2>9, <2>19, ApplyKeeps
  <2>12. FlagsOK(u, requests, responses', backend)
    BY <2>10, <2>11 DEF FlagsOK
  <2>13. /\ IsAppState(v) /\ TipOK(v) /\ v.open = u.open /\ v.inflight = u.inflight
         /\ v.pending = u.pending /\ v.menu = u.menu /\ v.jammed = u.jammed
    BY <2>11, PutOnKeeps
  <2>14. FlagsOK(v, requests, responses', backend)
    BY <2>12, <2>13 DEF FlagsOK
  <2>20. dispatch_request(v, "RefreshStatus") \/ (ui' = u /\ UNCHANGED requests)
    BY <2>9, <2>19, Zenon
  <2> HIDE DEF v
  <2>15. /\ IsAppState(ui') /\ TipOK(ui') /\ requests' \in Seq(RequestMessage)
         /\ ui'.pending = x.pending /\ ui'.menu = x.menu
         /\ ui'.open => FlagsOK(ui', requests', responses', backend)
    <3>1. CASE dispatch_request(v, "RefreshStatus")
      BY <1>2, <2>2, <2>11, <2>13, <2>14, <3>1, RefreshKeeps
    <3>2. CASE ui' = u /\ UNCHANGED requests
      BY <1>2, <2>11, <2>12, <3>2
    <3> QED
      BY <2>20, <3>1, <3>2
  <2>16. QueueOK(ui', events)
    BY <1>2, <2>5, <2>6, <2>15, QueueKeeps
  <2>17. WindowOK(ui', events', requests', responses', backend')
    BY <1>1, <2>15, <2>16 DEF WindowOK
  <2>18. AnswersAreAnnounced'
    BY <1>1, <2>1 DEF AnswersAreAnnounced
  <2> QED
    BY <1>1, <2>2, <2>15, <2>17, <2>18 DEF TrayInv
<1> QED
  BY <1>3, <1>4

(* The steps of the backend: the window and its queue stay as they are.     *)
LEMMA StartKeeps ==
  TrayInv /\ start => TrayInv'
<1> SUFFICES ASSUME TrayInv, start PROVE TrayInv'
  OBVIOUS
<1>1. UNCHANGED <<service, ui, events, requests, responses, wake>> /\ backend.pc = "start"
  BY DEF start, Backend
<1>2. PICK place \in {"recv", "exit"} : backend' = [Waiting EXCEPT !.pc = place]
  BY Zenon DEF start, Backend
<1>3. backend' = [pc |-> place, request |-> "none", running |-> FALSE, reset |-> FALSE]
  BY <1>2, Zenon DEF Waiting
<1>4. BackendOK(backend') /\ backend'.request = backend.request
  BY <1>1, <1>3 DEF TrayInv, BackendOK
<1>5. SnapshotOK(backend')
  BY <1>3 DEF SnapshotOK
<1> QED
  BY <1>1, <1>4, <1>5 DEF TrayInv, WindowOK, FlagsOK, Flight, AnswersAreAnnounced

(* recv: the backend holds the request it took.                             *)
LEMMA RecvKeeps ==
  TrayInv /\ recv => TrayInv'
<1> SUFFICES ASSUME TrayInv, recv PROVE TrayInv'
  OBVIOUS
<1>1. UNCHANGED <<service, ui, events, responses, wake>> /\ backend.pc = "recv"
  BY DEF recv, Backend
<1>2. requests \in Seq(RequestMessage) /\ responses \in Seq(AnswerRecord)
      /\ backend.request = "none"
  BY <1>1 DEF TrayInv, BackendOK
<1>3. CASE /\ requests # <<>> /\ requests' = Tail(requests)
           /\ backend' = IF Head(requests) = "Shutdown" THEN [Waiting EXCEPT !.pc = "exit"]
                         ELSE [Waiting EXCEPT !.pc = Handling(Head(requests)),
                                              !.request = Head(requests)]
  <2>1. requests' \in Seq(RequestMessage) /\ Head(requests) \in RequestMessage
    BY <1>2, <1>3
  <2>2. backend' = [pc |-> IF Head(requests) = "Shutdown" THEN "exit"
                           ELSE Handling(Head(requests)),
                    request |-> IF Head(requests) = "Shutdown" THEN "none" ELSE Head(requests),
                    running |-> FALSE, reset |-> FALSE]
    BY <1>3, Zenon DEF Waiting
  <2>3. BackendOK(backend')
    BY <2>1, <2>2 DEF BackendOK, RequestMessage, Handling
  <2>4. SnapshotOK(backend')
    BY <2>2 DEF SnapshotOK
  <2>5. backend'.request = IF Head(requests) = "Shutdown" THEN "none" ELSE Head(requests)
    BY <2>2
  <2>6. /\ {"RefreshStatus"} \in SUBSET BackendRequest /\ ServiceActions \in SUBSET BackendRequest
        /\ requests # <<>> /\ requests' = Tail(requests)
    BY <1>3 DEF BackendRequest
  <2>7. Flight(requests', responses, backend', {"RefreshStatus"})
          = Flight(requests, responses, backend, {"RefreshStatus"})
    BY <1>2, <2>5, <2>6, FlightTaken
  <2>8. Flight(requests', responses, backend', ServiceActions)
          = Flight(requests, responses, backend, ServiceActions)
    BY <1>2, <2>5, <2>6, FlightTaken
  <2>9. WindowOK(ui', events', requests', responses', backend')
    BY <1>1, <2>7, <2>8 DEF TrayInv, WindowOK, FlagsOK
  <2> QED
    BY <1>1, <2>1, <2>3, <2>4, <2>9 DEF TrayInv, AnswersAreAnnounced
<1>4. CASE ~ui.open /\ backend' = [Waiting EXCEPT !.pc = "exit"] /\ UNCHANGED requests
  <2>1. backend' = [pc |-> "exit", request |-> "none", running |-> FALSE, reset |-> FALSE]
    BY <1>4, Zenon DEF Waiting
  <2>2. BackendOK(backend')
    BY <2>1 DEF BackendOK
  <2>3. SnapshotOK(backend')
    BY <2>1 DEF SnapshotOK
  <2> QED
    BY <1>1, <1>4, <2>2, <2>3 DEF TrayInv, WindowOK, AnswersAreAnnounced
<1> QED
  BY <1>3, <1>4 DEF recv, Backend

(* While a request is handled only the snapshot of the backend changes.     *)
LEMMA HandlingKeeps ==
  ASSUME TrayInv, BackendOK(backend'), SnapshotOK(backend'), service' \in BOOLEAN,
         UNCHANGED <<ui, events, requests, responses, wake>>,
         backend'.request = backend.request, backend.pc # "post"
  PROVE  TrayInv'
BY DEF TrayInv, WindowOK, FlagsOK, Flight, AnswersAreAnnounced

(* handle_request: the service may change, the request stays.               *)
LEMMA HandleKeeps ==
  TrayInv /\ handle_request => TrayInv'
<1> SUFFICES ASSUME TrayInv, handle_request PROVE TrayInv'
  OBVIOUS
<1>1. UNCHANGED <<ui, events, requests, responses, wake>> /\ backend.pc = "act"
      /\ backend' = [backend EXCEPT !.pc = "query"]
  BY DEF handle_request, Backend
<1>2. backend' = [pc |-> "query", request |-> backend.request, running |-> backend.running,
                  reset |-> backend.reset]
  BY <1>1 DEF TrayInv, BackendOK
<1>3. BackendOK(backend') /\ backend'.request = backend.request
  BY <1>1, <1>2 DEF TrayInv, BackendOK
<1>4. backend'.running = backend.running /\ backend'.reset = backend.reset
  BY <1>2
<1>5. SnapshotOK(backend')
  BY <1>4, Zenon DEF TrayInv, SnapshotOK
<1>6. service' \in {service, TRUE, FALSE}
  BY Zenon DEF handle_request, start_service_async, stop_service_async, reset_agent_async
<1>7. service' \in BOOLEAN
  BY <1>6, Zenon DEF TrayInv
<1> QED
  BY <1>1, <1>3, <1>5, <1>7, HandlingKeeps

(* query_service_running: the snapshot takes the state of the service.      *)
LEMMA QueryKeeps ==
  TrayInv /\ query_service_running => TrayInv'
<1> SUFFICES ASSUME TrayInv, query_service_running PROVE TrayInv'
  OBVIOUS
<1>1. UNCHANGED <<service, ui, events, requests, responses, wake>> /\ backend.pc = "query"
  BY DEF query_service_running, Backend
<1>2. PICK run \in {service, FALSE} :
        backend' = [backend EXCEPT !.pc = IF run THEN "lifecycle" ELSE "send", !.running = run]
  BY Zenon DEF query_service_running, Backend
<1>3. backend' = [pc |-> IF run THEN "lifecycle" ELSE "send", request |-> backend.request,
                  running |-> run, reset |-> backend.reset]
  BY <1>2, Zenon DEF TrayInv, BackendOK
<1>4. BackendOK(backend') /\ backend'.request = backend.request
  BY <1>1, <1>3 DEF TrayInv, BackendOK
<1>5. backend'.running = run /\ backend'.reset = backend.reset
  BY <1>3
<1>6. run \in BOOLEAN
  BY <1>2, Zenon DEF TrayInv
<1>7. SnapshotOK(backend') /\ service' \in BOOLEAN
  BY <1>1, <1>5, <1>6, Zenon DEF TrayInv, SnapshotOK
<1> QED
  BY <1>1, <1>4, <1>7, HandlingKeeps

(* query_reset_agent_enabled: the snapshot takes the rest.                  *)
LEMMA LifecycleKeeps ==
  TrayInv /\ query_reset_agent_enabled => TrayInv'
<1> SUFFICES ASSUME TrayInv, query_reset_agent_enabled PROVE TrayInv'
  OBVIOUS
<1>1. UNCHANGED <<service, ui, events, requests, responses, wake>> /\ backend.pc = "lifecycle"
  BY DEF query_reset_agent_enabled, Backend
<1>2. PICK b \in BOOLEAN :
        backend' = [backend EXCEPT !.pc = "send", !.reset = b]
  BY Zenon DEF query_reset_agent_enabled, Backend
<1>3. backend' = [pc |-> "send", request |-> backend.request, running |-> backend.running,
                  reset |-> b]
  BY <1>2, Zenon DEF TrayInv, BackendOK
<1>4. BackendOK(backend') /\ backend'.request = backend.request
  BY <1>1, <1>3 DEF TrayInv, BackendOK
<1>5. backend'.running = backend.running
  BY <1>3
<1>6. backend'.reset = b
  BY <1>3
<1>7. SnapshotOK(backend') /\ service' \in BOOLEAN
  BY <1>1, <1>5, <1>6, Zenon DEF TrayInv, SnapshotOK
<1> QED
  BY <1>1, <1>4, <1>7, HandlingKeeps

(* respond: the answer takes the place of the request and is announced.     *)
LEMMA RespondKeeps ==
  TrayInv /\ respond => TrayInv'
<1> SUFFICES ASSUME TrayInv, respond PROVE TrayInv'
  OBVIOUS
<1>1. UNCHANGED <<service, ui, events, requests>>
  BY DEF respond, Backend
<1>2. CASE /\ Backend("send", Posting) /\ UNCHANGED wake
           /\ responses' = Append(responses, [request |-> backend.request,
                                  running |-> backend.running, reset |-> backend.reset])
  <2>1. backend.pc = "send"
        /\ backend' = [pc |-> "post", request |-> "none", running |-> FALSE, reset |-> FALSE]
    BY <1>2, Zenon DEF Backend, Posting, Waiting
  <2>2. PICK x : x = [request |-> backend.request, running |-> backend.running,
                      reset |-> backend.reset]
    BY Zenon
  <2>3. backend.request \in BackendRequest
    BY <2>1 DEF TrayInv, BackendOK
  <2>4. backend.running \in BOOLEAN /\ backend.reset \in BOOLEAN
    BY DEF TrayInv, SnapshotOK
  <2>5. x \in AnswerRecord
    BY <2>2, <2>3, <2>4, Zenon DEF AnswerRecord
  <2>6. x.request = backend.request
    BY <2>2
  <2>7. responses' = Append(responses, x)
    BY <1>2, <2>2
  <2>8. BackendOK(backend') /\ backend'.request = "none" /\ backend'.pc = "post"
    BY <2>1 DEF BackendOK
  <2>9. SnapshotOK(backend')
    BY <2>1 DEF SnapshotOK
  <2>10. requests \in Seq(RequestMessage) /\ responses \in Seq(AnswerRecord)
         /\ responses' \in Seq(AnswerRecord)
    BY <2>5, <2>7 DEF TrayInv
  <2>11. Flight(requests, responses', backend', {"RefreshStatus"})
           = Flight(requests, responses, backend, {"RefreshStatus"})
    BY <2>5, <2>6, <2>7, <2>8, <2>10, FlightAnswered DEF BackendRequest
  <2>12. Flight(requests, responses', backend', ServiceActions)
           = Flight(requests, responses, backend, ServiceActions)
    BY <2>5, <2>6, <2>7, <2>8, <2>10, FlightAnswered DEF BackendRequest
  <2>13. WindowOK(ui', events', requests', responses', backend')
    BY <1>1, <2>11, <2>12 DEF TrayInv, WindowOK, FlagsOK
  <2> QED
    BY <1>1, <2>8, <2>9, <2>10, <2>13 DEF TrayInv, AnswersAreAnnounced
<1>3. CASE ~ui.open /\ Backend("send", [Waiting EXCEPT !.pc = "exit"])
           /\ UNCHANGED <<responses, wake>>
  <2>1. backend' = [pc |-> "exit", request |-> "none", running |-> FALSE, reset |-> FALSE]
    BY <1>3, Zenon DEF Backend, Waiting
  <2>2. BackendOK(backend')
    BY <2>1 DEF BackendOK
  <2>3. SnapshotOK(backend')
    BY <2>1 DEF SnapshotOK
  <2> QED
    BY <1>1, <1>3, <2>2, <2>3 DEF TrayInv, WindowOK, AnswersAreAnnounced
<1>4. CASE Backend("post", Waiting) /\ wake' = TRUE /\ UNCHANGED responses
  <2>1. backend.pc = "post"
        /\ backend' = [pc |-> "recv", request |-> "none", running |-> FALSE, reset |-> FALSE]
    BY <1>4 DEF Backend, Waiting
  <2>2. BackendOK(backend') /\ backend'.request = backend.request
    BY <2>1 DEF TrayInv, BackendOK
  <2>3. SnapshotOK(backend')
    BY <2>1 DEF SnapshotOK
  <2>4. AnswersAreAnnounced'
    BY <1>4 DEF AnswersAreAnnounced
  <2> QED
    BY <1>1, <1>4, <2>2, <2>3, <2>4 DEF TrayInv, WindowOK, FlagsOK, Flight
<1> QED
  BY <1>2, <1>3, <1>4, Zenon DEF respond

(* Every step keeps TrayInv.                                                *)
LEMMA TrayStepInv ==
  TrayInv /\ [TrayNext]_tray => TrayInv'
<1> SUFFICES ASSUME TrayInv, [TrayNext]_tray PROVE TrayInv'
  OBVIOUS
<1>1. CASE Window
  BY <1>1, TimerKeeps, EventKeeps, AnswerKeeps DEF Window
<1>2. CASE click \/ show_tray_menu
  BY <1>2, ClickKeeps, MenuKeeps
<1>3. CASE BackendStep
  BY <1>3, StartKeeps, RecvKeeps, HandleKeeps, QueryKeeps, LifecycleKeeps, RespondKeeps DEF BackendStep
<1>4. CASE service_changes
  <2>1. UNCHANGED <<ui, events, requests, responses, wake, backend>> /\ service' = ~service
    BY <1>4 DEF service_changes
  <2>2. service' \in BOOLEAN
    BY <2>1
  <2> QED
    BY <2>1, <2>2 DEF TrayInv, AnswersAreAnnounced
<1>5. CASE UNCHANGED tray
  BY <1>5 DEF tray, TrayInv, AnswersAreAnnounced
<1> QED
  BY <1>1, <1>2, <1>3, <1>4, <1>5 DEF TrayNext

(* Nothing is lost between the tray's window and its backend, whatever the  *)
(* capacities of their channels (playitd-tray/src/windows/frontend.rs):      *)
(* refresh_inflight and service_action_pending are set exactly while one    *)
(* such request is in a channel or in the backend, a tooltip that is out of *)
(* date is marked, and an answer that waits has its wake-up posted or about *)
(* to be.  What a failing set_tooltip breaks is all that is broken: the     *)
(* tooltip it did not change, and the mark of the action it gave up, which  *)
(* is never taken back.                                                     *)
THEOREM NothingIsEverLost ==
  TraySpec => []NothingIsLost
<1>1. TrayInv => NothingIsLost
  <2> SUFFICES ASSUME TrayInv PROVE NothingIsLost
    OBVIOUS
  <2>1. InFlight({"RefreshStatus"}) = Flight(requests, responses, backend, {"RefreshStatus"})
        /\ InFlight(ServiceActions) = Flight(requests, responses, backend, ServiceActions)
    BY InFlightIsFlight DEF TrayInv
  <2>2. FlagsMatchFlight
    BY <2>1 DEF TrayInv, WindowOK, FlagsOK, FlagsMatchFlight
  <2> QED
    BY <2>2 DEF TrayInv, WindowOK, TipOK, NothingIsLost, TooltipIsTracked
<1> QED
  BY <1>1, TrayInitInv, TrayStepInv, PTL DEF TraySpec
=============================================================================
