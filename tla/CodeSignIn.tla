----------------------------- MODULE CodeSignIn -----------------------------
(***************************************************************************)
(* Signing in with a code sent to a telephone number: the two screens of   *)
(* the phone, the countdown that holds back the button for another code,   *)
(* and the limits the API keeps per number: one code per cooldown, and so  *)
(* many requests and so many guesses per window.                           *)
(*                                                                         *)
(* What a session is and how it is kept are PhoneSession's.  The limits    *)
(* per address and per device work as the one per number does; they are    *)
(* left out.  The service that sends and checks codes is external.         *)
(***************************************************************************)
EXTENDS Naturals

CONSTANTS
  Cooldown,                   \* seconds between two codes, on both sides
  Window,                     \* seconds of a window of attempts
  RequestLimit, VerifyLimit,  \* attempts taken per window
  MaxCodeFaults               \* bound: failures of the service, lost answers

ASSUME CodeAssumption ==
  /\ {Cooldown, Window, RequestLimit, VerifyLimit} \subseteq Nat \ {0}
  /\ MaxCodeFaults \in Nat

VARIABLES
  view,       \* the screen: "phone", "code" or "home"
  ask,        \* ask[s]: a screen's request of a code
  wait,       \* seconds the countdown of the code's screen shows
  guess,      \* the code on its way to be verified
  hold,       \* seconds left of the API's cooldown
  window,     \* window[a]: seconds left of a kind's window of attempts
  tries,      \* tries[a]: attempts counted in it
  live,       \* the code sent last can still be used
  spent,      \* spent[a]: calls of the service in the window
  excused,    \* history: a code the screen does not know of took the cooldown
  codeFaults  \* counted for its bound

codeVars == <<view, ask, wait, guess, hold, window, tries, live, spent, excused, codeFaults>>

Kinds == {"request", "verify"}
Askers == {"phone", "code"}
NoAsk == [stage |-> "idle", mine |-> FALSE]
NoGuess == [stage |-> "idle", right |-> FALSE]

CodeInit ==
  /\ view = "phone" /\ wait = 0 /\ hold = 0 /\ live = FALSE
  /\ ask = [s \in Askers |-> NoAsk] /\ guess = NoGuess
  /\ window = [a \in Kinds |-> 0] /\ tries = [a \in Kinds |-> 0]
  /\ spent = [a \in Kinds |-> 0]
  /\ excused = FALSE /\ codeFaults = 0

Less(n) == IF n = 0 THEN 0 ELSE n - 1

\* A second; the phone's timer does not run while it sleeps.
Second ==
  /\ hold' = Less(hold)
  /\ window' = [a \in Kinds |-> Less(window[a])]
  /\ tries' = [a \in Kinds |-> IF window'[a] = 0 THEN 0 ELSE tries[a]]
  /\ spent' = [a \in Kinds |-> IF window'[a] = 0 THEN 0 ELSE spent[a]]
  /\ wait' \in {wait, Less(wait)}
  /\ UNCHANGED <<view, ask, guess, live, excused, codeFaults>>

-----------------------------------------------------------------------------
(***************************************************************************)
(* The API                                                                 *)
(***************************************************************************)

Limit(a) == IF a = "request" THEN RequestLimit ELSE VerifyLimit

\* The counter starts its window with its first attempt, and counts refused ones too.
Counted(a) ==
  /\ tries' = [tries EXCEPT ![a] = IF @ <= Limit(a) THEN @ + 1 ELSE @]
  /\ window' = [window EXCEPT ![a] = IF @ = 0 THEN Window ELSE @]

Allowed(a) == tries'[a] <= Limit(a)

\* request_otp(): the cooldown is taken before the service is called, and stays
\* taken when the service fails.
RequestOtp(outcome) ==
  /\ Counted("request")
  /\ IF ~Allowed("request") \/ hold > 0
     THEN outcome = "refused" /\ UNCHANGED <<hold, live, spent>>
     ELSE /\ outcome \in {"sent", "failed"}
          /\ hold' = Cooldown
          /\ spent' = [spent EXCEPT !["request"] = @ + 1]
          /\ live' = (live \/ outcome = "sent")

ServeAsk(s) ==
  /\ ask[s].stage = "asked"
  /\ \E outcome \in {"sent", "failed", "refused"} :
       /\ RequestOtp(outcome)
       /\ outcome = "failed" => codeFaults < MaxCodeFaults
       /\ codeFaults' = IF outcome = "failed" THEN codeFaults + 1 ELSE codeFaults
       /\ ask' = [ask EXCEPT ![s].stage = outcome]
       /\ excused' = (excused \/ outcome = "failed" \/ (outcome = "sent" /\ ~ask[s].mine))
  /\ UNCHANGED <<view, wait, guess>>

\* The same number on another device.
OtherAsks ==
  /\ codeFaults < MaxCodeFaults /\ codeFaults' = codeFaults + 1
  /\ RequestOtp("sent")
  /\ excused' = TRUE
  /\ UNCHANGED <<view, ask, wait, guess>>

\* verify_otp(): a code that has been used may be approved again or not.
VerifyOtp ==
  /\ guess.stage = "asked"
  /\ Counted("verify")
  /\ IF ~Allowed("verify")
     THEN guess' = [guess EXCEPT !.stage = "refused"] /\ UNCHANGED <<live, spent>>
     ELSE /\ spent' = [spent EXCEPT !["verify"] = @ + 1]
          /\ IF guess.right /\ live
             THEN guess' = [guess EXCEPT !.stage = "approved"] /\ live' \in BOOLEAN
             ELSE guess' = [guess EXCEPT !.stage = "refused"] /\ UNCHANGED live
  /\ UNCHANGED <<view, ask, wait, hold, excused, codeFaults>>

-----------------------------------------------------------------------------
(***************************************************************************)
(* The screens                                                             *)
(***************************************************************************)

\* isSubmitting, isResending and the countdown hold the buttons back.
RequestCode(s) ==
  /\ view = s /\ ask[s] = NoAsk
  /\ s = "code" => wait = 0
  /\ ask' = [ask EXCEPT ![s] = [stage |-> "asked", mine |-> TRUE]]
  /\ UNCHANGED <<view, wait, guess, hold, window, tries, live, spent, excused, codeFaults>>

\* Mutant: another code leaves the countdown at zero.
CodeShownOnce(s) ==
  IF s = "phone" THEN view' = "code" /\ wait' = Cooldown ELSE UNCHANGED <<view, wait>>

\* The number's screen opens the code's; another code starts its countdown again.
CodeShown(s) ==
  /\ view' = "code"
  /\ wait' = Cooldown

\* A code's screen that was left shows nothing; one that was opened again by the
\* number's is another.
CodeSent(s) ==
  /\ ask[s].stage = "sent"
  /\ IF view = "home" \/ ~ask[s].mine
     THEN UNCHANGED <<view, wait, excused>>
     ELSE CodeShown(s) /\ excused' = (s = "phone" /\ ask["code"].stage = "sent")
  /\ ask' = [ask EXCEPT ![s] = NoAsk]
  /\ UNCHANGED <<guess, hold, window, tries, live, spent, codeFaults>>

\* The screen says why; its countdown is where it was.
CodeNotSent(s) ==
  /\ \/ ask[s].stage \in {"failed", "refused"} /\ UNCHANGED <<excused, codeFaults>>
     \/ /\ ask[s].stage \in {"asked", "sent"} /\ codeFaults < MaxCodeFaults
        /\ codeFaults' = codeFaults + 1
        /\ excused' = TRUE
  /\ ask' = [ask EXCEPT ![s] = NoAsk]
  /\ UNCHANGED <<view, wait, guess, hold, window, tries, live, spent>>

\* Back to the number; the answers to come are the old screen's.
BackToPhone ==
  /\ view = "code"
  /\ view' = "phone" /\ wait' = 0
  /\ ask' = [ask EXCEPT !["code"] = [@ EXCEPT !.mine = FALSE]]
  /\ excused' = (excused \/ ask["code"].stage = "sent")
  /\ UNCHANGED <<guess, hold, window, tries, live, spent, codeFaults>>

\* submit(): one at a time (submittingRef).
SubmitCode(right) ==
  /\ view = "code" /\ guess = NoGuess
  /\ guess' = [stage |-> "asked", right |-> right]
  /\ UNCHANGED <<view, ask, wait, hold, window, tries, live, spent, excused, codeFaults>>

\* Signed in: whichever screen is shown gives way to the home screen.
CodeAccepted ==
  /\ guess.stage = "approved"
  /\ guess' = NoGuess /\ view' = "home"
  /\ UNCHANGED <<ask, wait, hold, window, tries, live, spent, excused, codeFaults>>

CodeNotAccepted ==
  /\ \/ guess.stage = "refused" /\ UNCHANGED codeFaults
     \/ /\ guess.stage \in {"asked", "approved"} /\ codeFaults < MaxCodeFaults
        /\ codeFaults' = codeFaults + 1
  /\ guess' = NoGuess
  /\ UNCHANGED <<view, ask, wait, hold, window, tries, live, spent, excused>>

CodeNext ==
  \/ Second
  \/ \E s \in Askers : ServeAsk(s) \/ RequestCode(s) \/ CodeSent(s) \/ CodeNotSent(s)
  \/ OtherAsks \/ VerifyOtp \/ BackToPhone
  \/ \E right \in BOOLEAN : SubmitCode(right)
  \/ CodeAccepted \/ CodeNotAccepted

CodeSpec == CodeInit /\ [][CodeNext]_codeVars

-----------------------------------------------------------------------------
(***************************************************************************)
(* Properties                                                              *)
(***************************************************************************)

\* Where the button for another code can be pressed the API would not refuse it
\* for its cooldown; unless the cooldown was taken by a code the screen does not
\* know of: an answer was lost or came to a screen that had been left, the service
\* failed after the cooldown was taken (auth/service.py:161), or another device
\* asked.
ResendIsTaken ==
  view = "code" /\ wait = 0 /\ ask["code"] = NoAsk /\ ask["phone"] = NoAsk /\ ~excused
    => hold = 0

\* However the requests race, no window sends more codes or checks more guesses of
\* one number than its limits say.
AttemptsAreFew == \A a \in Kinds : spent[a] <= Limit(a)

\* The screen of the code and the limits of the API agree.
SignInIsFair == ResendIsTaken /\ AttemptsAreFew
=============================================================================
