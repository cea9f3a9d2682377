------------------------------ MODULE WebLogin ------------------------------
(***************************************************************************)
(* The login page of the web UI: LoginComponent with the requests it sends *)
(* to /auth, the polling for a push answer and the challenges at the       *)
(* server, composed with the session of the tab (SessionTimer).            *)
(*                                                                         *)
(* Every logout from the application makes a new instance of the page; an  *)
(* instance that was left can still be reached by its late answers.  What  *)
(* only words the messages of the page is left out, and so is the user     *)
(* name: one user signs in.                                                *)
(***************************************************************************)
EXTENDS SessionTimer

CONSTANTS MaxRequest,      \* bound: the user begins no request after so many
          MaxTransaction,  \* bound: challenge transactions
          Triggers,        \* the sets of challenge types a login can trigger
          DefaultRealm,    \* the realm the server takes when none is sent
          UserRealm,       \* the user's realm, chosen in the drop-down box
          Lifetimes,       \* validity of the tokens the server issues
          PollFor,         \* PUSH_POLLING_TIMEOUT_MS
          LastStart        \* bound: nothing is begun later than this

Transactions == 1..MaxTransaction
Sent         == 1..(MaxRequest + MaxTransaction)
Instances    == 1..(MaxRequest + MaxTransaction + 1)
Kinds        == {"push", "otp", "webauthn"}
NoRealm      == "no realm"

ASSUME LoginConstants ==
  /\ MaxRequest \in Nat /\ MaxTransaction \in Nat /\ LastStart \in Nat
  /\ PollFor \in Nat \ {0}
  /\ Lifetimes \subseteq {life \in Nat : WholeSeconds(life) # 0}
  /\ Triggers \subseteq (SUBSET Kinds) \ {{}}
  /\ LastStart + PollFor =< MaxTime
  /\ \A life \in Lifetimes : LastStart + life + Notice =< MaxTime

VARIABLES
  shown,         \* the instance of the page made last
  pages,         \* what each instance holds
  requests,      \* the requests to /auth the server has not answered
  replies,       \* the answers that have not reached the tab
  sent,          \* how many requests were sent
  asked,         \* the types each transaction was triggered with, {} if none yet
  answered,      \* each transaction at the server: open, confirmed or used
  (* history, read by a property and by no action *)
  unnamed        \* the instances whose last challenge came without its name

loginVars == <<shown, pages, requests, replies, sent, asked, answered, unnamed>>
vars == <<timerVars, loginVars>>

(* An instance: showOtpField, webAuthnTriggered, transactionId (0 for ""),  *)
(* the end of the polling (0 if there is none) and the transaction the poll *)
(* under way asks for.                                                      *)
Fresh == [otp |-> FALSE, key |-> FALSE, txn |-> 0, until |-> 0, poll |-> 0]

OnLoginPage == ~signedIn
Polling(p) == pages[p].until # 0
Stopped(page) == [page EXCEPT !.until = 0, !.poll = 0]           \* stopPushPolling

(* Fault: the challenge is forgotten and its polling goes on. *)
ForgottenPolling(page) == [page EXCEPT !.key = FALSE, !.txn = 0]

(* resetChallengeState *)
Forgotten(page) == [Stopped(page) EXCEPT !.key = FALSE, !.txn = 0]

-----------------------------------------------------------------------------
(* What the user does on the page. *)

Send(p, kind, txn, realm) ==
  /\ now =< LastStart
  /\ kind # "push" => sent < MaxRequest
  /\ sent' = sent + 1
  /\ requests' = requests \union
       {[id |-> sent + 1, page |-> p, kind |-> kind, txn |-> txn, realm |-> realm]}

(* onSubmit without a challenge on the page. *)
SubmitPassword ==
  /\ OnLoginPage /\ ~pages[shown].otp
  /\ Send(shown, "password", 0, UserRealm)
  /\ pages' = [pages EXCEPT ![shown] = Forgotten(@)]
  /\ UNCHANGED <<timerVars, shown, replies, asked, answered, unnamed>>

(* onSubmit with the answer to a challenge: the polling is stopped. *)
SubmitOtp ==
  /\ OnLoginPage /\ pages[shown].otp
  /\ Send(shown, "otp", pages[shown].txn, UserRealm)
  /\ pages' = [pages EXCEPT ![shown] = Stopped(@)]
  /\ UNCHANGED <<timerVars, shown, replies, asked, answered, unnamed>>

(* webAuthnLogin and passkeyLogin, once the authenticator has signed: what  *)
(* the page holds is kept.                                                  *)
SubmitKey ==
  /\ OnLoginPage
  /\ \/ pages[shown].key /\ Send(shown, "webauthn", pages[shown].txn, NoRealm)
     \/ Send(shown, "passkey", 0, NoRealm)
  /\ UNCHANGED <<timerVars, shown, pages, replies, asked, answered, unnamed>>

(* resetLogin *)
StartOver ==
  /\ OnLoginPage /\ pages[shown].otp
  /\ pages' = [pages EXCEPT ![shown] = [Forgotten(@) EXCEPT !.otp = FALSE]]
  /\ UNCHANGED <<timerVars, shown, requests, replies, sent, asked, answered, unnamed>>

-----------------------------------------------------------------------------
(* The server and the phone. *)

Confirm(t) ==
  /\ "push" \in asked[t] /\ answered[t] = "open"
  /\ answered' = [answered EXCEPT ![t] = "confirmed"]
  /\ UNCHANGED <<timerVars, shown, pages, requests, replies, sent, asked, unnamed>>

(* Requests with a credential_id. *)
ByKey == {"webauthn", "passkey"}

(* May the request be granted?  A credential names its owner, whatever realm *)
(* is sent; that of a webauthn token answers its own challenge only.  Of the *)
(* others a first factor always may, a second one only for the transaction   *)
(* of the user and if it has the type asked for; a confirmed push grants     *)
(* whatever of them is sent with its transaction.                            *)
MayGrant(r) ==
  \/ r.kind = "passkey"
  \/ /\ r.kind = "webauthn" /\ r.txn # 0
     /\ answered[r.txn] # "used" /\ "webauthn" \in asked[r.txn]
  \/ /\ r.kind \notin ByKey
     /\ UserRealm = IF r.realm = NoRealm THEN DefaultRealm ELSE r.realm
     /\ r.txn # 0 => \/ answered[r.txn] = "confirmed"
                     \/ answered[r.txn] = "open" /\ r.kind \in asked[r.txn] \ {"push"}

Closed(r) == IF r.txn = 0 THEN answered ELSE [answered EXCEPT ![r.txn] = "used"]

Reply(r, token, idle, txn) ==
  /\ now =< LastStart
  /\ requests' = requests \ {r}
  /\ replies' = replies \union
       {[id |-> r.id, page |-> r.page, kind |-> r.kind,
         of |-> IF r.kind = "push" THEN r.txn ELSE 0,
         token |-> token, idle |-> idle, txn |-> txn]}
  /\ UNCHANGED <<timerVars, shown, pages, sent, unnamed>>

Grant(r) ==
  /\ MayGrant(r)
  /\ \E life \in Lifetimes, idle \in LogoutTimes :
       Reply(r, WholeSeconds(now + life), idle, 0)
  /\ answered' = Closed(r)
  /\ UNCHANGED asked

(* The password is right, or the answer, and a further challenge is asked. *)
Challenge(r) ==
  /\ MayGrant(r) /\ r.kind \notin ByKey
  /\ \E t \in Transactions, kinds \in Triggers :
       /\ asked[t] = {} /\ \A u \in 1..(t - 1) : asked[u] # {}
       /\ asked' = [asked EXCEPT ![t] = kinds]
       /\ answered' = [Closed(r) EXCEPT ![t] = "open"]
       /\ Reply(r, 0, 0, t)

(* The answer is CHALLENGE and lists none: evaluateResponse is written for   *)
(* it, though /auth of this server always lists what it asks for.            *)
ChallengeUnlisted(r) ==
  /\ Reply(r, 0, 0, 0)
  /\ UNCHANGED <<asked, answered>>

-----------------------------------------------------------------------------
(* What reaches the page. *)

(* A request is refused or lost, or its answer is: handleError, and the     *)
(* failing end of evaluateResponse, only word a message.                    *)
Fail ==
  /\ \/ \E r \in requests : requests' = requests \ {r} /\ UNCHANGED replies
     \/ \E r \in replies : replies' = replies \ {r} /\ UNCHANGED requests
  /\ UNCHANGED <<timerVars, shown, pages, sent, asked, answered, unnamed>>

(* A token arrives, at whatever is shown by now: the tab is signed in, and a *)
(* login page that is shown is left (ngOnDestroy).                           *)
Granted(r) ==
  /\ r.token # 0 /\ now =< LastStart
  /\ SignIn(r.token, r.idle)
  /\ LET left == IF OnLoginPage THEN [pages EXCEPT ![shown] = Fresh] ELSE pages
     IN  pages' = [left EXCEPT ![r.page].otp = FALSE]
  /\ replies' = replies \ {r}
  /\ UNCHANGED <<shown, requests, sent, asked, answered, unnamed>>

(* A challenge arrives at the instance that sent the request, shown or not; *)
(* without a push among its types a polling under way goes on.              *)
Challenged(r) ==
  /\ r.txn # 0 /\ now =< LastStart
  /\ pages' = [pages EXCEPT ![r.page] =
       [otp   |-> @.otp \/ r.kind \notin ByKey,
        key   |-> @.key \/ "webauthn" \in asked[r.txn],
        txn   |-> r.txn,
        until |-> IF "push" \in asked[r.txn] THEN now + PollFor ELSE @.until,
        poll  |-> IF "push" \in asked[r.txn] THEN r.txn ELSE @.poll]]
  /\ replies' = replies \ {r}
  /\ unnamed' = unnamed \ {r.page}
  /\ UNCHANGED <<timerVars, shown, requests, sent, asked, answered>>

(* An answer that lists no challenge: what is known of one is kept, and the *)
(* OTP is asked for unless a key was tried, with a transaction or without.  *)
ChallengedUnlisted(r) ==
  /\ r.token = 0 /\ r.txn = 0 /\ now =< LastStart
  /\ pages' = [pages EXCEPT ![r.page].otp = @ \/ r.kind \notin ByKey]
  /\ unnamed' = IF r.kind \in ByKey THEN unnamed ELSE unnamed \union {r.page}
  /\ replies' = replies \ {r}
  /\ UNCHANGED <<timerVars, shown, requests, sent, asked, answered>>

(* The next poll cancels the one under way and asks for what the page holds. *)
PollAgain(p) ==
  /\ Polling(p) /\ pages[p].poll # pages[p].txn
  /\ pages' = [pages EXCEPT ![p].poll = pages[p].txn]
  /\ UNCHANGED <<timerVars, shown, requests, replies, sent, asked, answered, unnamed>>

(* Fault: the polling goes on after its first success. *)
PollConfirmedOn(p) ==
  /\ Polling(p) /\ pages[p].poll # 0 /\ answered[pages[p].poll] = "confirmed"
  /\ Send(p, "push", pages[p].txn, NoRealm)
  /\ UNCHANGED <<timerVars, shown, pages, replies, asked, answered, unnamed>>

(* The poll under way finds the push confirmed; /auth is asked about the    *)
(* transaction the page holds by then.                                      *)
PollConfirmed(p) ==
  /\ Polling(p) /\ pages[p].poll # 0 /\ answered[pages[p].poll] = "confirmed"
  /\ pages' = [pages EXCEPT ![p] = Stopped(@)]
  /\ Send(p, "push", pages[p].txn, NoRealm)
  /\ UNCHANGED <<timerVars, shown, replies, asked, answered, unnamed>>

(* Fault: only a page that is still shown stops its polling. *)
PollEndsShown(p) ==
  /\ Polling(p) /\ pages[p].until = now /\ p = shown
  /\ pages' = [pages EXCEPT ![p] = Stopped(@)]
  /\ UNCHANGED <<timerVars, shown, requests, replies, sent, asked, answered, unnamed>>

(* The polling has lasted long enough, *)
PollEnds(p) ==
  /\ Polling(p) /\ pages[p].until = now
  /\ pages' = [pages EXCEPT ![p] = Stopped(@)]
  /\ UNCHANGED <<timerVars, shown, requests, replies, sent, asked, answered, unnamed>>

(* or a poll fails. *)
PollFails(p) ==
  /\ Polling(p)
  /\ pages' = [pages EXCEPT ![p] = Stopped(@)]
  /\ UNCHANGED <<timerVars, shown, requests, replies, sent, asked, answered, unnamed>>

-----------------------------------------------------------------------------
(* The session, with the page it leads to. *)

Active == ResetSessionTimer /\ UNCHANGED loginVars

(* Fault: a new instance is made though one is shown. *)
LeaveAnyhow == shown' = shown + 1 /\ UNCHANGED <<pages, requests, replies, sent, asked, answered, unnamed>>

(* The login route is navigated to: a new instance unless one is shown. *)
Leave ==
  /\ shown' = IF OnLoginPage THEN shown ELSE shown + 1
  /\ UNCHANGED <<pages, requests, replies, sent, asked, answered, unnamed>>

LogOut == Logout /\ Leave
TimeOut == HandleSessionTimeout /\ UNCHANGED loginVars
TimedOut == EndSession /\ Leave

ReloadPage ==
  /\ Reload
  /\ shown' = 1 /\ pages' = [p \in Instances |-> Fresh]
  /\ requests' = {} /\ replies' = {} /\ unnamed' = {}
  /\ UNCHANGED <<sent, asked, answered>>

Pass ==
  /\ \A p \in Instances : Polling(p) => pages[p].until # now
  /\ Tick
  /\ UNCHANGED loginVars

Init ==
  /\ TimerInit
  /\ shown = 1 /\ pages = [p \in Instances |-> Fresh]
  /\ requests = {} /\ replies = {} /\ sent = 0
  /\ asked = [t \in Transactions |-> {}]
  /\ answered = [t \in Transactions |-> "open"]
  /\ unnamed = {}

Next ==
  \/ SubmitPassword \/ SubmitOtp \/ SubmitKey \/ StartOver
  \/ \E t \in Transactions : Confirm(t)
  \/ \E r \in requests : Grant(r) \/ Challenge(r) \/ ChallengeUnlisted(r)
  \/ Fail
  \/ \E r \in replies : Granted(r) \/ Challenged(r) \/ ChallengedUnlisted(r)
  \/ \E p \in Instances : PollAgain(p) \/ PollConfirmed(p) \/ PollEnds(p) \/ PollFails(p)
  \/ Active \/ LogOut \/ ReloadPage
  \/ TimeOut \/ TimedOut
  \/ Pass

Spec == Init /\ [][Next]_vars

(* Timeouts that are due run, and time passes again and again, whatever the *)
(* user and the server do: a page that is loaded anew at every moment does  *)
(* not stop the clock.                                                      *)
Fairness ==
  /\ WF_vars(TimeOut \/ TimedOut \/ \E p \in Instances : PollEnds(p))
  /\ SF_vars(Pass)

FairSpec == Spec /\ Fairness

-----------------------------------------------------------------------------
Requests == [id : Sent, page : Instances, kind : Kinds \union {"password", "passkey"},
             txn : Transactions \union {0}, realm : {UserRealm, NoRealm}]
Replies == [id : Sent, page : Instances, kind : Kinds \union {"password", "passkey"},
            of : Transactions \union {0}, token : Time, idle : LogoutTimes \union {0},
            txn : Transactions \union {0}]

(* Every variable has its type, with the session's. *)
TypeOK ==
  /\ TimerTypeOK
  /\ shown \in Instances
  /\ pages \in [Instances -> [otp : BOOLEAN, key : BOOLEAN, txn : Transactions \union {0},
                              until : Time, poll : Transactions \union {0}]]
  /\ requests \subseteq Requests /\ replies \subseteq Replies
  /\ sent \in Sent \union {0}
  /\ asked \in [Transactions -> SUBSET Kinds]
  /\ answered \in [Transactions -> {"open", "confirmed", "used"}]
  /\ unnamed \subseteq Instances

(* Whatever answers arrive, at whatever page and in whatever order: a page   *)
(* that offers the key or polls for a push knows the transaction it is for,  *)
(* and one that asks for an OTP does too unless the last challenge it heard  *)
(* of came without one.  Without it the OTP goes to /auth as a first factor. *)
PromptsHaveChallenge ==
  \A p \in Instances :
    /\ pages[p].key \/ Polling(p) => pages[p].txn # 0
    /\ pages[p].otp /\ pages[p].txn = 0 => p \in unnamed

(* A confirmed push is turned into one login: of the requests and answers   *)
(* under way no two are for the same push, though instances of the page that *)
(* were left poll on.                                                        *)
Pushes(S) == {r \in S : r.kind = "push"}

OneLoginPerPush ==
  /\ \A r, s \in Pushes(requests) : r # s => r.txn # s.txn
  /\ \A r \in Pushes(requests), s \in Pushes(replies) : r.txn # s.of
  /\ \A r, s \in Pushes(replies) : r # s => r.of # s.of

(* A login whose push was confirmed is one the server may grant: the second *)
(* call of /auth carries the same fields as the first, the user's realm too. *)
ConfirmedPushLogsIn ==
  \A r \in requests :
    r.kind = "push" /\ answered[r.txn] = "confirmed" => MayGrant(r)

(* A session ends: the user can go on being active, reload the page or sign *)
(* in again, but not keep one for ever.                                     *)
SessionsEnd == signedIn ~> ~signedIn

(* Polling comes to an end, on pages that were left as well. *)
PollingEnds == (\E p \in Instances : Polling(p)) ~> (\A p \in Instances : ~Polling(p))

=============================================================================
