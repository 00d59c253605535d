---------------------------- MODULE OneTimeCodes ----------------------------
(***************************************************************************)
(* The one-time code of a contact for a purpose, and the count of attempts *)
(* beside it: two Redis keys, each with its own time to live.  Every       *)
(* command is atomic, and nothing ties those of a request together.        *)
(***************************************************************************)
EXTENDS Integers, FiniteSets

CONSTANTS
    Codes,              \* codes that can ever be generated, in this order
    MaxOtpAttempts,
    Askers              \* requests in flight

ASSUME CodesAssumption ==
    /\ IsFiniteSet(Codes) /\ Codes = 1..Cardinality(Codes)
    /\ MaxOtpAttempts \in Nat \ {0}
    /\ IsFiniteSet(Askers)

VARIABLES
    code,       \* otp:<purpose>:<contact>, 0 if absent
    attempts,   \* otp:attempts:<purpose>:<contact>, 0 if absent
    codes,      \* codes generated so far
    guesses,    \* comparisons with the present code
    accepted,   \* for each code, how often it was taken for right
    asker       \* requests in flight

codesVars == <<code, attempts, codes, guesses, accepted, asker>>

AskerRecords ==
    [op : {"idle", "forget", "set", "reset", "accept", "clear"}]
    \cup [op : {"compare"}, code : Codes, peek : BOOLEAN]

CodesTypeOK ==
    /\ code \in {0, codes}
    /\ attempts \in Nat
    /\ codes \in Codes \cup {0}
    /\ guesses \in Nat
    /\ accepted \in [Codes -> Nat]
    /\ asker \in [Askers -> AskerRecords]

CodesInit ==
    /\ code = 0
    /\ attempts = 0
    /\ codes = 0
    /\ guesses = 0
    /\ accepted = [c \in Codes |-> 0]
    /\ asker = [t \in Askers |-> [op |-> "idle"]]

Asks(t, r) == asker' = [asker EXCEPT ![t] = r]
Answered(t) == Asks(t, [op |-> "idle"])

-----------------------------------------------------------------------------

\* requestVerification, forgotPassword, and the end of register
RequestCode(t) ==
    /\ asker[t].op = "idle"
    /\ Asks(t, [op |-> "forget"])
    /\ UNCHANGED <<code, attempts, codes, guesses, accepted>>

DeleteOtp(t) ==
    /\ asker[t].op = "forget"
    /\ code' = 0
    /\ attempts' = 0
    /\ Asks(t, [op |-> "set"])
    /\ UNCHANGED <<codes, guesses, accepted>>

SetOtp(t) ==
    /\ asker[t].op = "set"
    /\ codes + 1 \in Codes
    /\ codes' = codes + 1
    /\ code' = codes + 1
    /\ guesses' = 0
    /\ Asks(t, [op |-> "reset"])
    /\ UNCHANGED <<attempts, accepted>>

ResetAttempts(t) ==
    /\ asker[t].op = "reset"
    /\ attempts' = 0
    /\ Answered(t)
    /\ UNCHANGED <<code, codes, guesses, accepted>>

\* validateOtp and, without its last two commands, peekOtp: with a code that was
\* sent at some time, or with none that was.
ValidateOtp(t, c, peek) ==
    /\ asker[t].op = "idle"
    /\ attempts' = attempts + 1
    /\ IF attempts' > MaxOtpAttempts THEN UNCHANGED asker
       ELSE Asks(t, [op |-> "compare", code |-> c, peek |-> peek])
    /\ attempts <= MaxOtpAttempts \* bound
    /\ UNCHANGED <<code, codes, guesses, accepted>>

\* Mistake: a wrong code clears the count, as a right one does.
CompareOtpClearing(t) ==
    /\ asker[t].op = "compare"
    /\ guesses' = IF code = 0 THEN guesses ELSE guesses + 1
    /\ attempts' = 0
    /\ IF code # 0 /\ code = asker[t].code
       THEN accepted' = [accepted EXCEPT ![code] = @ + 1] /\ Asks(t, [op |-> "accept"])
       ELSE Answered(t) /\ UNCHANGED accepted
    /\ UNCHANGED <<code, codes>>

CompareOtp(t) ==
    /\ asker[t].op = "compare"
    /\ guesses' = IF code = 0 THEN guesses ELSE guesses + 1
    /\ IF code # asker[t].code \/ asker[t].peek
       THEN Answered(t) /\ UNCHANGED accepted
       ELSE accepted' = [accepted EXCEPT ![code] = @ + 1] /\ Asks(t, [op |-> "accept"])
    /\ UNCHANGED <<code, attempts, codes>>

\* Mistake: the code stays until it expires.
AcceptOtpKeeping(t) ==
    /\ asker[t].op = "accept"
    /\ Asks(t, [op |-> "clear"])
    /\ UNCHANGED <<code, attempts, codes, guesses, accepted>>

\* Whatever code is there by now.
AcceptOtp(t) ==
    /\ asker[t].op = "accept"
    /\ code' = 0
    /\ Asks(t, [op |-> "clear"])
    /\ UNCHANGED <<attempts, codes, guesses, accepted>>

ClearAttempts(t) ==
    /\ asker[t].op = "clear"
    /\ attempts' = 0
    /\ Answered(t)
    /\ UNCHANGED <<code, codes, guesses, accepted>>

ExpireOtp ==
    /\ code # 0
    /\ code' = 0
    /\ UNCHANGED <<attempts, codes, guesses, accepted, asker>>

\* The count was begun after the code was set, and lasts as long.  Left out: that
\* otpExpirySeconds is made shorter in between, and a count begun before the code was
\* set that runs out between SetOtp and ResetAttempts, or that a crash there leaves.
ExpireAttempts ==
    /\ code = 0 /\ attempts # 0
    /\ attempts' = 0
    /\ UNCHANGED <<code, codes, guesses, accepted, asker>>

CodesNext ==
    \/ \E t \in Askers :
          \/ RequestCode(t) \/ DeleteOtp(t) \/ SetOtp(t) \/ ResetAttempts(t)
          \/ CompareOtp(t) \/ AcceptOtp(t) \/ ClearAttempts(t)
          \/ \E c \in 1..codes, peek \in BOOLEAN : ValidateOtp(t, c, peek)
    \/ ExpireOtp \/ ExpireAttempts

CodesSpec == CodesInit /\ [][CodesNext]_codesVars

-----------------------------------------------------------------------------
(* Properties *)

\* "Atomic increment to prevent concurrent brute-force attacks": the number of
\* comparisons with one code is bounded, although other requests than those that
\* count an attempt clear the count.  Each request in flight renews the attempts
\* of a code once at most (generateOtp, validateOtp, peekOtp).
GuessesBounded == guesses <= Cardinality(Askers) * MaxOtpAttempts + 1

\* A code is taken for right by no more requests than have counted an attempt
\* before the first of them removed it (validateOtp).
AcceptedWhileThere ==
    \A c \in Codes : accepted[c] <= Cardinality(Askers)
=============================================================================
