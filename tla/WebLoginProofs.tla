--------------------------- MODULE WebLoginProofs ---------------------------
(***************************************************************************)
(* The login page, proved for every number of requests, transactions and   *)
(* challenge types: the session it leads to is the one of SessionTimer, so *)
(* what is proved there holds of the tab; a page that offers a key or polls *)
(* knows its transaction; and a push is turned into one login.             *)
(*                                                                         *)
(* The last needs to know where a transaction can be: its challenge is in  *)
(* one answer under way or on one page, and once a request was sent for it *)
(* nothing polls for it any more.  The types need to know how much is sent: *)
(* a push is sent once for a transaction, and an instance of the page is   *)
(* made once for a login that was answered (Counted).                      *)
(***************************************************************************)
EXTENDS WebLogin, SessionTimerProofs, FiniteSetTheorems

PageType == [otp : BOOLEAN, key : BOOLEAN, txn : Transactions \union {0},
             until : Int, poll : Transactions \union {0}]

Prompt(page) == (page.key \/ page.until # 0) => page.txn # 0

(* What the tab can receive fits the session. *)
RepliesFit ==
  /\ now \in Nat
  /\ \A r \in replies : /\ r.token \in Time
                        /\ r.token # 0 => r.idle \in LogoutTimes
                        /\ r.txn \in Transactions \union {0}

PagesFit ==
  /\ pages \in [Instances -> PageType]
  /\ \A p \in Instances : Prompt(pages[p])
  /\ asked \in [Transactions -> SUBSET Kinds]

(* A transaction's challenge is in one place. *)
OnePlace ==
  /\ \A r \in replies : r.txn # 0 =>
       /\ asked[r.txn] # {}
       /\ \A p \in Instances : pages[p].txn # r.txn
       /\ \A s \in replies : s.txn = r.txn => s = r
  /\ \A p \in Instances : pages[p].txn # 0 =>
       /\ asked[pages[p].txn] # {}
       /\ \A q \in Instances : pages[q].txn = pages[p].txn => q = p

(* A login was sent for the push of this transaction. *)
Spent(t) == \/ \E r \in requests : r.kind = "push" /\ r.txn = t
            \/ \E r \in replies : r.kind = "push" /\ r.of = t

SpentIsOver ==
  \A t \in Transactions : Spent(t) =>
    /\ asked[t] # {}
    /\ \A p \in Instances : pages[p].txn = t => pages[p].until = 0
    /\ \A r \in replies : r.txn # t

PushesNamed == \A r \in Pushes(requests) : r.txn \in Transactions

LInv == /\ RepliesFit /\ PagesFit /\ OnePlace /\ SpentIsOver /\ PushesNamed
        /\ OneLoginPerPush

-----------------------------------------------------------------------------
(* A page fades: it forgets its transaction, or stops polling, or nothing. *)
Fades(old, new) ==
  /\ new \in PageType /\ Prompt(new)
  /\ new.txn \in {old.txn, 0}
  /\ new.until \in {old.until, 0}

FadingStep ==
  /\ pages' \in [Instances -> PageType]
  /\ \A p \in Instances : Fades(pages[p], pages'[p])
  /\ asked' = asked /\ now' \in Nat
  /\ replies' \subseteq replies
  /\ \A r \in requests' : r \in requests \/ r.kind # "push"

(* A step in which pages fade, answers are dropped and requests that are not *)
(* for a push are sent keeps the invariant.                                  *)
LEMMA FadingKeeps ==
  ASSUME LInv, FadingStep
  PROVE  LInv'
<1> USE DEF FadingStep
<1>1. RepliesFit'
  BY DEF LInv, RepliesFit
<1>2. PagesFit'
  BY DEF LInv, PagesFit, Fades
<1>3. \A p \in Instances : pages'[p].txn \in {pages[p].txn, 0} /\ pages'[p].until \in {pages[p].until, 0}
  BY DEF Fades
<1>4. OnePlace'
  BY <1>3 DEF LInv, OnePlace
<1>5. \A t : Spent(t)' => Spent(t)
  BY DEF Spent
<1>6. SpentIsOver'
  <2> SUFFICES ASSUME NEW t \in Transactions, Spent(t)'
               PROVE  /\ asked'[t] # {}
                      /\ \A p \in Instances : pages'[p].txn = t => pages'[p].until = 0
                      /\ \A r \in replies' : r.txn # t
    BY DEF SpentIsOver
  <2>1. t # 0
    BY LoginConstants DEF Transactions
  <2>2. /\ asked[t] # {} /\ \A p \in Instances : pages[p].txn = t => pages[p].until = 0
        /\ \A r \in replies : r.txn # t
    BY <1>5 DEF LInv, SpentIsOver
  <2> QED
    BY <1>3, <2>1, <2>2
<1>7. PushesNamed' /\ OneLoginPerPush'
  BY DEF LInv, PushesNamed, OneLoginPerPush, Pushes
<1> QED
  BY <1>1, <1>2, <1>4, <1>6, <1>7 DEF LInv

LEMMA ZeroIsNone == 0 \notin Transactions
  BY LoginConstants DEF Transactions

(* An instance fades when one page of it is stopped or forgotten. *)
LEMMA StoppedFades ==
  ASSUME NEW page \in PageType, Prompt(page)
  PROVE  /\ Fades(page, page) /\ Fades(page, Stopped(page)) /\ Fades(page, Fresh)
         /\ \A b \in BOOLEAN : Fades(page, [page EXCEPT !.otp = b])
         /\ Fades(page, [page EXCEPT !.poll = page.txn])
         /\ Fades(page, [Forgotten(page) EXCEPT !.otp = FALSE])
         /\ Fades(page, Forgotten(page))
         /\ Stopped(page).otp = page.otp /\ Stopped(page).txn = page.txn
         /\ Forgotten(page).otp = page.otp /\ ~[Forgotten(page) EXCEPT !.otp = FALSE].otp
<1>1. /\ page.otp \in BOOLEAN /\ page.key \in BOOLEAN /\ page.until \in Int
      /\ page.txn \in Transactions \union {0} /\ page.poll \in Transactions \union {0}
  BY DEF PageType
<1> DEFINE Stays(new, otp) == /\ new \in PageType /\ new.otp = otp
                             /\ new.key \in {page.key, FALSE} /\ new.until \in {page.until, 0}
<1>2. Stays(Stopped(page), page.otp) /\ Stopped(page).txn = page.txn
  <2> DEFINE still == [page EXCEPT !.until = 0]
  <2>1. /\ still \in PageType /\ still.otp = page.otp /\ still.key = page.key
        /\ still.txn = page.txn /\ still.until = 0
    BY DEF PageType
  <2>2. Stopped(page) = [still EXCEPT !.poll = 0]
    BY DEF PageType, Stopped
  <2> HIDE DEF still
  <2> QED
    BY <2>1, <2>2 DEF PageType
<1>3. Stopped(page) \in PageType
  BY <1>2
<1>4. /\ Stays(Forgotten(page), page.otp) /\ Forgotten(page).txn = 0
      /\ Forgotten(page).key = FALSE /\ Forgotten(page).until = 0
  <2> DEFINE still == Stopped(page)
             dark  == [still EXCEPT !.key = FALSE]
  <2>1. still \in PageType /\ still.otp = page.otp /\ still.until \in {page.until, 0}
    BY <1>2
  <2>2. still.until = 0
    BY DEF PageType, Stopped
  <2> HIDE DEF still
  <2>3. /\ dark \in PageType /\ dark.otp = page.otp /\ dark.until = 0 /\ dark.key = FALSE
    BY <2>1, <2>2 DEF PageType
  <2>4. [still EXCEPT !.key = FALSE, !.txn = 0] = [dark EXCEPT !.txn = 0]
    BY <2>1 DEF PageType
  <2> HIDE DEF dark
  <2>5. Forgotten(page) = [dark EXCEPT !.txn = 0]
    BY <2>4 DEF Forgotten, still
  <2> QED
    BY <2>3, <2>5 DEF PageType
<1> DEFINE over == [Forgotten(page) EXCEPT !.otp = FALSE]
<1>5. /\ Stays(over, FALSE) /\ over.txn = 0 /\ over.key = FALSE /\ over.until = 0
  BY <1>4 DEF PageType
<1>6. Fades(page, page)
  BY DEF Fades
<1>7. Fades(page, Stopped(page))
  BY <1>2 DEF Fades, Prompt
<1>8. Fades(page, Fresh)
  BY DEF Fresh, Fades, Prompt, PageType
<1>9. \A b \in BOOLEAN : Fades(page, [page EXCEPT !.otp = b])
  BY <1>1 DEF Fades, Prompt, PageType
<1>10. Fades(page, [page EXCEPT !.poll = page.txn])
  BY <1>1 DEF Fades, Prompt, PageType
<1>11. Fades(page, over)
  BY <1>5 DEF Fades, Prompt
<1>12. Fades(page, Forgotten(page))
  BY <1>4 DEF Fades, Prompt
<1> QED
  BY <1>2, <1>4, <1>5, <1>6, <1>7, <1>8, <1>9, <1>10, <1>11, <1>12

(* Changing one page into one it fades to changes the pages so. *)
LEMMA OneFades ==
  ASSUME PagesFit, NEW p, NEW page,
         p \in Instances => Fades(pages[p], page)
  PROVE  /\ [pages EXCEPT ![p] = page] \in [Instances -> PageType]
         /\ \A q \in Instances : Fades(pages[q], [pages EXCEPT ![p] = page][q])
<1>1. \A q \in Instances : pages[q] \in PageType /\ Fades(pages[q], pages[q])
  BY StoppedFades DEF PagesFit
<1> QED
  BY <1>1 DEF PagesFit, Fades

-----------------------------------------------------------------------------
(* The steps in which pages fade. *)
LEMMA PageSteps ==
  ASSUME LInv,
         \/ SubmitPassword \/ SubmitOtp \/ StartOver
         \/ \E p \in Instances : PollAgain(p) \/ PollEnds(p) \/ PollFails(p)
  PROVE  FadingStep
<1> USE DEF LInv
<1>1. \A p \in Instances : pages[p] \in PageType /\ Prompt(pages[p])
  BY DEF PagesFit
<1>2. now \in Nat /\ \A r : r \in replies => r \in replies
  BY DEF RepliesFit
<1>3. CASE SubmitPassword
  <2>1. /\ pages' = [pages EXCEPT ![shown] = Forgotten(pages[shown])]
        /\ asked' = asked /\ replies' = replies /\ now' = now
        /\ \A r \in requests' : r \in requests \/ r.kind = "password"
    BY <1>3 DEF SubmitPassword, Send, timerVars
  <2>2. shown \in Instances => Fades(pages[shown], Forgotten(pages[shown]))
    BY <1>1, <2>1, StoppedFades
  <2> QED
    BY <1>2, <2>1, <2>2, OneFades DEF FadingStep
<1>4. CASE SubmitOtp
  <2>1. /\ pages' = [pages EXCEPT ![shown] = Stopped(pages[shown])]
        /\ asked' = asked /\ replies' = replies /\ now' = now
        /\ \A r \in requests' : r \in requests \/ r.kind = "otp"
    BY <1>4 DEF SubmitOtp, Send, timerVars
  <2>2. shown \in Instances => Fades(pages[shown], Stopped(pages[shown]))
    BY <1>1, StoppedFades
  <2> QED
    BY <1>2, <2>1, <2>2, OneFades DEF FadingStep
<1>5. CASE StartOver
  <2>1. /\ pages' = [pages EXCEPT ![shown] = [Forgotten(pages[shown]) EXCEPT !.otp = FALSE]]
        /\ asked' = asked /\ replies' = replies /\ now' = now /\ requests' = requests
    BY <1>5 DEF StartOver, timerVars
  <2>2. shown \in Instances => Fades(pages[shown], [Forgotten(pages[shown]) EXCEPT !.otp = FALSE])
    BY <1>1, StoppedFades
  <2> QED
    BY <1>2, <2>1, <2>2, OneFades DEF FadingStep
<1>6. ASSUME NEW p \in Instances, PollAgain(p) PROVE FadingStep
  <2>1. /\ pages' = [pages EXCEPT ![p] = [pages[p] EXCEPT !.poll = pages[p].txn]]
        /\ asked' = asked /\ replies' = replies /\ now' = now /\ requests' = requests
    BY <1>1, <1>6 DEF PollAgain, timerVars, PagesFit, PageType
  <2>2. Fades(pages[p], [pages[p] EXCEPT !.poll = pages[p].txn])
    BY <1>1, StoppedFades
  <2> QED
    BY <1>2, <2>1, <2>2, OneFades DEF FadingStep
<1>7. ASSUME NEW p \in Instances, PollEnds(p) \/ PollFails(p) PROVE FadingStep
  <2>1. /\ pages' = [pages EXCEPT ![p] = Stopped(pages[p])]
        /\ asked' = asked /\ replies' = replies /\ now' = now /\ requests' = requests
    BY <1>7 DEF PollEnds, PollFails, timerVars
  <2>2. Fades(pages[p], Stopped(pages[p]))
    BY <1>1, StoppedFades
  <2> QED
    BY <1>2, <2>1, <2>2, OneFades DEF FadingStep
<1> QED
  BY <1>3, <1>4, <1>5, <1>6, <1>7

(* The steps of the session, a confirmation and a failure leave the pages. *)
LEMMA SessionSteps ==
  ASSUME LInv,
         \/ SubmitKey \/ Fail \/ Active \/ LogOut \/ TimeOut \/ TimedOut \/ Pass
         \/ \E t \in Transactions : Confirm(t)
  PROVE  FadingStep
<1> USE DEF LInv
<1>1. \A p \in Instances : pages[p] \in PageType /\ Fades(pages[p], pages[p])
  BY StoppedFades DEF PagesFit
<1>2. now \in Nat /\ pages \in [Instances -> PageType]
  BY DEF RepliesFit, PagesFit
<1>3. /\ pages' = pages /\ asked' = asked /\ now' \in {now, now + 1} /\ replies' \subseteq replies
      /\ \A r \in requests' : r \in requests \/ r.kind # "push"
  BY DEF SubmitKey, Send, Fail, Active, LogOut, TimeOut, TimedOut, Pass, Leave, Confirm, timerVars,
     loginVars, ResetSessionTimer, Logout, HandleSessionTimeout, EndSession, Tick
<1> QED
  BY <1>1, <1>2, <1>3 DEF FadingStep

LEMMA ReloadStep ==
  ASSUME LInv, ReloadPage
  PROVE  FadingStep
<1>1. Fresh \in PageType /\ \A page : Fades(page, Fresh)
  BY DEF Fresh, PageType, Fades, Prompt
<1>2. /\ pages' = [p \in Instances |-> Fresh] /\ replies' = {} /\ requests' = {}
      /\ asked' = asked /\ now' = now /\ now \in Nat
  BY DEF ReloadPage, Reload, LInv, RepliesFit
<1> QED
  BY <1>1, <1>2 DEF FadingStep

LEMMA GrantedStep ==
  ASSUME LInv, NEW r \in replies, Granted(r)
  PROVE  FadingStep
<1> DEFINE left == IF OnLoginPage THEN [pages EXCEPT ![shown] = Fresh] ELSE pages
<1>1. \A p \in Instances : pages[p] \in PageType /\ Prompt(pages[p])
  BY DEF LInv, PagesFit
<1>2. Fresh \in PageType /\ Prompt(Fresh) /\ \A page : Fades(page, Fresh)
  BY DEF Fresh, PageType, Fades, Prompt
<1>3. /\ left \in [Instances -> PageType]
      /\ \A p \in Instances : Prompt(left[p]) /\ Fades(pages[p], left[p])
  BY <1>1, <1>2, StoppedFades DEF LInv, PagesFit
<1>4. pages' = [left EXCEPT ![r.page] = [left[r.page] EXCEPT !.otp = FALSE]]
  BY DEF Granted
<1> HIDE DEF left
<1>5. /\ pages' \in [Instances -> PageType]
      /\ \A p \in Instances : Fades(pages[p], pages'[p])
  <2>1. \A p \in Instances : Fades(left[p], [left[p] EXCEPT !.otp = FALSE])
    BY <1>3, StoppedFades
  <2>2. \A p \in Instances : Fades(pages[p], [left[p] EXCEPT !.otp = FALSE])
    BY <1>3, <2>1 DEF Fades
  <2> QED
    BY <1>3, <1>4, <2>2 DEF Fades
<1>6. /\ replies' \subseteq replies /\ requests' = requests /\ asked' = asked /\ now' = now
      /\ now \in Nat
  BY DEF Granted, SignIn, LInv, RepliesFit
<1> QED
  BY <1>5, <1>6 DEF FadingStep

(* An answer that lists no challenge changes no more than what is asked for. *)
LEMMA UnlistedStep ==
  ASSUME LInv, NEW r \in replies, ChallengedUnlisted(r)
  PROVE  FadingStep
<1> DEFINE p0 == r.page
           otp == pages[p0].otp \/ r.kind \notin ByKey
<1>1. \A p \in Instances : pages[p] \in PageType /\ Prompt(pages[p])
  BY DEF LInv, PagesFit
<1>2. /\ pages' = [pages EXCEPT ![p0] = [pages[p0] EXCEPT !.otp = otp]]
      /\ replies' \subseteq replies /\ requests' = requests /\ asked' = asked /\ now' = now
      /\ now \in Nat
  BY <1>1 DEF ChallengedUnlisted, LInv, PagesFit, RepliesFit, timerVars
<1>3. p0 \in Instances => Fades(pages[p0], [pages[p0] EXCEPT !.otp = otp])
  <2>1. p0 \in Instances => otp \in BOOLEAN
    BY <1>1 DEF PageType
  <2> HIDE DEF otp
  <2> QED
    BY <1>1, <2>1, StoppedFades
<1> HIDE DEF otp
<1>4. /\ pages' \in [Instances -> PageType]
      /\ \A p \in Instances : Fades(pages[p], pages'[p])
  BY <1>2, <1>3, OneFades DEF LInv
<1> QED
  BY <1>2, <1>4 DEF FadingStep

(* A challenge goes from the answer to the page. *)
LEMMA ChallengedStep ==
  ASSUME LInv, NEW r \in replies, Challenged(r)
  PROVE  LInv'
<1> DEFINE p0 == r.page
           until == IF "push" \in asked[r.txn] THEN now + PollFor ELSE pages[p0].until
           poll == IF "push" \in asked[r.txn] THEN r.txn ELSE pages[p0].poll
           new == [otp   |-> pages[p0].otp \/ r.kind \notin ByKey,
                   key   |-> pages[p0].key \/ "webauthn" \in asked[r.txn],
                   txn   |-> r.txn, until |-> until, poll |-> poll]
<1>1. /\ r.txn # 0 /\ r.txn \in Transactions
      /\ replies' = replies \ {r} /\ asked' = asked /\ requests' = requests /\ now' = now
      /\ pages' = [pages EXCEPT ![p0] = new]
  BY DEF Challenged, LInv, RepliesFit, timerVars
<1>2. \A p \in Instances : pages[p] \in PageType /\ Prompt(pages[p])
  BY DEF LInv, PagesFit
<1>3. now \in Nat /\ PollFor \in Nat
  BY LoginConstants DEF LInv, RepliesFit
<1>4. p0 \in Instances => new \in PageType
  <2> SUFFICES ASSUME p0 \in Instances PROVE new \in PageType
    OBVIOUS
  <2>1. /\ pages[p0].otp \in BOOLEAN /\ pages[p0].key \in BOOLEAN /\ pages[p0].until \in Int
        /\ pages[p0].poll \in Transactions \union {0}
    BY <1>2 DEF PageType
  <2>2. until \in Int /\ poll \in Transactions \union {0}
    BY <1>1, <1>3, <2>1
  <2> HIDE DEF until, poll
  <2> QED
    BY <1>1, <2>1, <2>2 DEF PageType
<1>5. new.txn = r.txn
  OBVIOUS
<1> HIDE DEF new
<1>6. /\ pages' \in [Instances -> PageType]
      /\ \A p \in Instances : pages'[p] = IF p = p0 THEN new ELSE pages[p]
  BY <1>1, <1>4 DEF LInv, PagesFit
<1>7. RepliesFit'
  BY <1>1, <1>3 DEF LInv, RepliesFit
<1>8. PagesFit'
  BY <1>1, <1>2, <1>5, <1>6 DEF LInv, PagesFit, Prompt
<1>9. OnePlace'
  <2>1. /\ asked[r.txn] # {}
        /\ \A p \in Instances : pages[p].txn # r.txn
        /\ \A s \in replies : s.txn = r.txn => s = r
    BY <1>1 DEF LInv, OnePlace
  <2>2. ASSUME NEW s \in replies', s.txn # 0
        PROVE  /\ asked[s.txn] # {}
               /\ \A p \in Instances : pages'[p].txn # s.txn
               /\ \A t \in replies' : t.txn = s.txn => t = s
    BY <1>1, <1>5, <1>6, <2>1, <2>2 DEF LInv, OnePlace
  <2>3. ASSUME NEW p \in Instances, pages'[p].txn # 0
        PROVE  /\ asked[pages'[p].txn] # {}
               /\ \A q \in Instances : pages'[q].txn = pages'[p].txn => q = p
    BY <1>1, <1>5, <1>6, <2>1, <2>3 DEF LInv, OnePlace
  <2> QED
    BY <1>1, <2>2, <2>3 DEF OnePlace
<1>10. \A t : Spent(t)' => Spent(t)
  BY <1>1 DEF Spent
<1>11. SpentIsOver'
  <2> SUFFICES ASSUME NEW t \in Transactions, Spent(t)'
               PROVE  /\ asked'[t] # {}
                      /\ \A p \in Instances : pages'[p].txn = t => pages'[p].until = 0
                      /\ \A s \in replies' : s.txn # t
    BY DEF SpentIsOver
  <2>1. /\ asked[t] # {} /\ \A p \in Instances : pages[p].txn = t => pages[p].until = 0
        /\ \A s \in replies : s.txn # t
    BY <1>10 DEF LInv, SpentIsOver
  <2> QED
    BY <1>1, <1>5, <1>6, <2>1
<1>12. PushesNamed' /\ OneLoginPerPush'
  BY <1>1 DEF LInv, PushesNamed, OneLoginPerPush, Pushes
<1> QED
  BY <1>7, <1>8, <1>9, <1>11, <1>12 DEF LInv

(* A poll that finds the push confirmed sends the one login for it. *)
LEMMA PollConfirmedStep ==
  ASSUME LInv, NEW p0 \in Instances, PollConfirmed(p0)
  PROVE  LInv'
<1> DEFINE t0 == pages[p0].txn
           req == [id |-> sent + 1, page |-> p0, kind |-> "push", txn |-> t0, realm |-> NoRealm]
<1>1. /\ pages' = [pages EXCEPT ![p0] = Stopped(pages[p0])]
      /\ requests' = requests \union {req}
      /\ replies' = replies /\ asked' = asked /\ now' = now /\ pages[p0].until # 0
  BY DEF PollConfirmed, Send, Polling, timerVars
<1>2. \A p \in Instances : pages[p] \in PageType /\ Prompt(pages[p])
  BY DEF LInv, PagesFit
<1>3. Stopped(pages[p0]) \in PageType /\ Prompt(Stopped(pages[p0]))
      /\ Stopped(pages[p0]).txn \in {t0, 0} /\ Stopped(pages[p0]).until = 0
  <2>1. Fades(pages[p0], Stopped(pages[p0]))
    BY <1>2, StoppedFades
  <2>2. Stopped(pages[p0]).until = 0
    BY <1>2 DEF Stopped, PageType
  <2> QED
    BY <2>1, <2>2 DEF Fades
<1>4. t0 \in Transactions /\ t0 # 0
  BY <1>1, <1>2 DEF Prompt, PageType
<1>5. req.kind = "push" /\ req.txn = t0
  OBVIOUS
<1> HIDE DEF req
<1>6. /\ pages' \in [Instances -> PageType]
      /\ \A p \in Instances : pages'[p] = IF p = p0 THEN Stopped(pages[p0]) ELSE pages[p]
  BY <1>1, <1>2, <1>3 DEF LInv, PagesFit
<1>7. ~Spent(t0)
  BY <1>1, <1>4 DEF LInv, SpentIsOver
<1>8. /\ asked[t0] # {} /\ \A q \in Instances : pages[q].txn = t0 => q = p0
      /\ \A r \in replies : r.txn # t0
  BY <1>4 DEF LInv, OnePlace
<1>9. RepliesFit' /\ PagesFit'
  BY <1>1, <1>2, <1>3, <1>6 DEF LInv, RepliesFit, PagesFit
<1>10. OnePlace'
  <2>1. \A p \in Instances : pages'[p].txn \in {pages[p].txn, 0}
    BY <1>3, <1>6
  <2> QED
    BY <1>1, <2>1 DEF LInv, OnePlace
<1>11. \A t : Spent(t)' => Spent(t) \/ t = t0
  BY <1>1, <1>5 DEF Spent
<1>12. SpentIsOver'
  <2> SUFFICES ASSUME NEW t \in Transactions, Spent(t)'
               PROVE  /\ asked'[t] # {}
                      /\ \A p \in Instances : pages'[p].txn = t => pages'[p].until = 0
                      /\ \A s \in replies' : s.txn # t
    BY DEF SpentIsOver
  <2>1. t # 0
    BY ZeroIsNone
  <2>2. CASE t = t0
    BY <1>1, <1>3, <1>6, <1>8, <2>1, <2>2
  <2>3. CASE Spent(t)
    <3>1. /\ asked[t] # {} /\ \A p \in Instances : pages[p].txn = t => pages[p].until = 0
          /\ \A s \in replies : s.txn # t
      BY <2>3 DEF LInv, SpentIsOver
    <3> QED
      BY <1>1, <1>3, <1>6, <2>1, <3>1
  <2> QED
    BY <1>11, <2>2, <2>3
<1>13. PushesNamed'
  BY <1>1, <1>4, <1>5 DEF LInv, PushesNamed, Pushes
<1>14. /\ \A r \in Pushes(requests) : r.txn # t0
       /\ \A r \in Pushes(replies) : r.of # t0
  BY <1>7 DEF Spent, Pushes
<1>15. OneLoginPerPush'
  BY <1>1, <1>5, <1>14 DEF LInv, OneLoginPerPush, Pushes
<1> QED
  BY <1>9, <1>10, <1>12, <1>13, <1>15 DEF LInv

(* The server answers: the claim to a push goes from the request to the     *)
(* answer, and a new challenge is nowhere else.                             *)
LEMMA ReplyStep ==
  ASSUME LInv, NEW r \in requests, NEW token \in Time, NEW idle \in LogoutTimes \union {0},
         token # 0 => idle \in LogoutTimes,
         NEW txn \in Transactions \union {0}, Reply(r, token, idle, txn),
         asked' \in [Transactions -> SUBSET Kinds],
         \A t \in Transactions : asked[t] # {} => asked'[t] # {},
         txn # 0 => asked[txn] = {} /\ asked'[txn] # {}
  PROVE  LInv'
<1> DEFINE rep == [id |-> r.id, page |-> r.page, kind |-> r.kind,
                   of |-> IF r.kind = "push" THEN r.txn ELSE 0,
                   token |-> token, idle |-> idle, txn |-> txn]
<1>1. /\ requests' = requests \ {r} /\ replies' = replies \union {rep}
      /\ pages' = pages /\ now' = now
  BY DEF Reply, timerVars
<1>2. /\ rep.kind = r.kind /\ rep.txn = txn /\ rep.token = token /\ rep.idle = idle
      /\ r.kind = "push" => rep.of = r.txn
  OBVIOUS
<1> HIDE DEF rep
<1>3. RepliesFit' /\ PagesFit'
  BY <1>1, <1>2 DEF LInv, RepliesFit, PagesFit
<1>4. /\ \A s \in replies : s.txn \in Transactions \union {0}
      /\ \A p \in Instances : pages[p].txn \in Transactions \union {0}
  BY DEF LInv, RepliesFit, PagesFit, PageType
<1>5. txn # 0 => /\ \A s \in replies : s.txn # txn
                 /\ \A p \in Instances : pages[p].txn # txn
                 /\ ~Spent(txn)
  BY DEF LInv, OnePlace, SpentIsOver
<1>6. OnePlace'
  <2>1. ASSUME NEW s \in replies', s.txn # 0
        PROVE  /\ asked'[s.txn] # {}
               /\ \A p \in Instances : pages[p].txn # s.txn
               /\ \A t \in replies' : t.txn = s.txn => t = s
    <3>1. CASE s = rep
      BY <1>1, <1>2, <1>5, <2>1, <3>1
    <3>2. CASE s \in replies
      BY <1>1, <1>2, <1>4, <1>5, <2>1, <3>2 DEF LInv, OnePlace
    <3> QED
      BY <1>1, <3>1, <3>2
  <2>2. ASSUME NEW p \in Instances, pages[p].txn # 0
        PROVE  /\ asked'[pages[p].txn] # {}
               /\ \A q \in Instances : pages[q].txn = pages[p].txn => q = p
    BY <1>4, <2>2 DEF LInv, OnePlace
  <2> QED
    BY <1>1, <2>1, <2>2 DEF OnePlace
<1>7. \A t : Spent(t)' => Spent(t)
  BY <1>1, <1>2 DEF Spent
<1>8. SpentIsOver'
  <2> SUFFICES ASSUME NEW t \in Transactions, Spent(t)'
               PROVE  /\ asked'[t] # {}
                      /\ \A p \in Instances : pages'[p].txn = t => pages'[p].until = 0
                      /\ \A s \in replies' : s.txn # t
    BY DEF SpentIsOver
  <2>1. t # 0
    BY ZeroIsNone
  <2>2. /\ Spent(t)
        /\ asked[t] # {} /\ \A p \in Instances : pages[p].txn = t => pages[p].until = 0
        /\ \A s \in replies : s.txn # t
    BY <1>7 DEF LInv, SpentIsOver
  <2> QED
    BY <1>1, <1>2, <1>5, <2>1, <2>2
<1>9. PushesNamed'
  BY <1>1 DEF LInv, PushesNamed, Pushes
<1>10. OneLoginPerPush'
  <2>1. /\ \A q, s \in Pushes(requests) : q # s => q.txn # s.txn
        /\ \A q \in Pushes(requests), s \in Pushes(replies) : q.txn # s.of
        /\ \A q, s \in Pushes(replies) : q # s => q.of # s.of
    BY DEF LInv, OneLoginPerPush
  <2>2. /\ Pushes(requests)' \subseteq Pushes(requests) \ {r}
        /\ \A s \in Pushes(replies)' : s \in Pushes(replies)
                                       \/ (s = rep /\ r \in Pushes(requests) /\ s.of = r.txn)
    BY <1>1, <1>2 DEF Pushes
  <2> QED
    BY <2>1, <2>2 DEF OneLoginPerPush
<1> QED
  BY <1>3, <1>6, <1>8, <1>9, <1>10 DEF LInv

LEMMA ServerSteps ==
  ASSUME LInv, NEW r \in requests, Grant(r) \/ Challenge(r) \/ ChallengeUnlisted(r)
  PROVE  LInv'
<1>1. now \in Nat /\ asked \in [Transactions -> SUBSET Kinds]
  BY DEF LInv, RepliesFit, PagesFit
<1>2. CASE Grant(r)
  <2>1. PICK life \in Lifetimes, idle \in LogoutTimes : Reply(r, WholeSeconds(now + life), idle, 0)
    BY <1>2 DEF Grant
  <2>2. now =< LastStart /\ asked' = asked
    BY <1>2, <2>1 DEF Grant, Reply
  <2>3. LastStart \in Nat /\ life \in Nat /\ MaxTime \in Nat /\ LastStart + life + Notice =< MaxTime
    BY LoginConstants, TimerConstants
  <2>4. WholeSeconds(now + life) \in Time
    BY <1>1, <2>2, <2>3 DEF WholeSeconds, Second, Notice, Time
  <2> QED
    BY <1>1, <2>1, <2>2, <2>4, ReplyStep
<1>3. CASE Challenge(r)
  <2>1. PICK t \in Transactions, kinds \in Triggers :
          /\ asked[t] = {}
          /\ asked' = [asked EXCEPT ![t] = kinds]
          /\ Reply(r, 0, 0, t)
    BY <1>3 DEF Challenge
  <2>2. kinds \in SUBSET Kinds /\ kinds # {}
    BY LoginConstants
  <2>3. /\ asked' \in [Transactions -> SUBSET Kinds]
        /\ \A u \in Transactions : asked[u] # {} => asked'[u] # {}
        /\ asked'[t] # {}
    BY <1>1, <2>1, <2>2
  <2>4. 0 \in Time
    BY TimerConstants DEF Time
  <2> QED
    BY <2>1, <2>3, <2>4, ReplyStep
<1>4. CASE ChallengeUnlisted(r)
  <2>1. Reply(r, 0, 0, 0) /\ asked' = asked
    BY <1>4 DEF ChallengeUnlisted
  <2>2. 0 \in Time
    BY TimerConstants DEF Time
  <2> QED
    BY <1>1, <2>1, <2>2, ReplyStep
<1> QED
  BY <1>2, <1>3, <1>4

LEMMA LoginInit == Init => LInv
<1> SUFFICES ASSUME Init PROVE LInv
  OBVIOUS
<1> USE DEF Init
<1>1. Fresh \in PageType /\ Prompt(Fresh) /\ Fresh.txn = 0
  BY DEF Fresh, PageType, Prompt
<1>2. RepliesFit /\ PagesFit
  BY <1>1 DEF RepliesFit, PagesFit, TimerInit
<1>3. OnePlace /\ SpentIsOver /\ PushesNamed /\ OneLoginPerPush
  BY <1>1 DEF OnePlace, SpentIsOver, PushesNamed, OneLoginPerPush, Pushes, Spent
<1> QED
  BY <1>2, <1>3 DEF LInv

LEMMA LoginStep == LInv /\ [Next]_vars => LInv'
<1> SUFFICES ASSUME LInv, [Next]_vars PROVE LInv'
  OBVIOUS
<1>1. CASE UNCHANGED vars
  BY <1>1 DEF LInv, RepliesFit, PagesFit, OnePlace, SpentIsOver, PushesNamed, OneLoginPerPush, Pushes,
     Spent, vars, timerVars, loginVars
<1>2. CASE Next
  BY <1>2, PageSteps, SessionSteps, ReloadStep, GrantedStep, UnlistedStep, FadingKeeps,
     ChallengedStep, PollConfirmedStep, ServerSteps DEF Next
<1> QED
  BY <1>1, <1>2

THEOREM LoginInvariant == Spec => []LInv
<1> QED
  BY LoginInit, LoginStep, PTL DEF Spec

-----------------------------------------------------------------------------
(* A page that asks for an OTP without a transaction was told of none. *)
Heard == \A p \in Instances : pages[p].otp /\ pages[p].txn = 0 => p \in unnamed

LEMMA HeardPages ==
  ASSUME LInv, Heard, unnamed' = unnamed,
         \A p \in Instances :
           pages'[p].otp /\ pages'[p].txn = 0 => pages[p].otp /\ pages[p].txn = 0
  PROVE  Heard'
<1> QED
  BY DEF Heard

LEMMA HeardPage ==
  ASSUME LInv, Heard, unnamed' = unnamed, NEW p0, NEW page,
         pages' = [pages EXCEPT ![p0] = page],
         p0 \in Instances /\ page.otp /\ page.txn = 0 => pages[p0].otp /\ pages[p0].txn = 0
  PROVE  Heard'
<1>1. \A p \in Instances : pages'[p] = IF p = p0 THEN page ELSE pages[p]
  BY DEF LInv, PagesFit
<1> QED
  BY <1>1, HeardPages

LEMMA HeardStep == LInv /\ Heard /\ [Next]_vars => Heard'
<1> SUFFICES ASSUME LInv, Heard, [Next]_vars PROVE Heard'
  OBVIOUS
<1>1. \A p \in Instances : pages[p] \in PageType /\ Prompt(pages[p])
  BY DEF LInv, PagesFit
<1>2. CASE UNCHANGED <<pages, unnamed>>
  BY <1>2 DEF Heard
<1>3. CASE SubmitPassword
  <2>1. /\ unnamed' = unnamed /\ ~pages[shown].otp
        /\ pages' = [pages EXCEPT ![shown] = Forgotten(pages[shown])]
    BY <1>3 DEF SubmitPassword
  <2>2. shown \in Instances => ~Forgotten(pages[shown]).otp
    BY <1>1, <2>1, StoppedFades
  <2> QED
    BY <2>1, <2>2, HeardPage
<1>11. CASE SubmitOtp
  <2>1. /\ unnamed' = unnamed
        /\ pages' = [pages EXCEPT ![shown] = Stopped(pages[shown])]
    BY <1>11 DEF SubmitOtp
  <2> QED
    BY <1>1, <2>1, StoppedFades, HeardPage
<1>12. CASE StartOver
  <2> DEFINE over == [Forgotten(pages[shown]) EXCEPT !.otp = FALSE]
  <2>1. unnamed' = unnamed /\ pages' = [pages EXCEPT ![shown] = over]
    BY <1>12 DEF StartOver
  <2>2. shown \in Instances => ~over.otp
    BY <1>1, StoppedFades
  <2> HIDE DEF over
  <2> QED
    BY <2>1, <2>2, HeardPage
<1>4. ASSUME NEW p \in Instances, PollAgain(p) PROVE Heard'
  <2>1. /\ unnamed' = unnamed
        /\ pages' = [pages EXCEPT ![p] = [pages[p] EXCEPT !.poll = pages[p].txn]]
    BY <1>1, <1>4 DEF PollAgain, PageType, LInv, PagesFit
  <2>2. /\ [pages[p] EXCEPT !.poll = pages[p].txn].otp = pages[p].otp
        /\ [pages[p] EXCEPT !.poll = pages[p].txn].txn = pages[p].txn
    BY <1>1 DEF PageType
  <2> QED
    BY <2>1, <2>2, HeardPage
<1>5. ASSUME NEW p \in Instances, PollConfirmed(p) \/ PollEnds(p) \/ PollFails(p) PROVE Heard'
  <2>1. unnamed' = unnamed /\ pages' = [pages EXCEPT ![p] = Stopped(pages[p])]
    BY <1>5 DEF PollConfirmed, PollEnds, PollFails
  <2> QED
    BY <1>1, <2>1, StoppedFades, HeardPage
<1>6. ASSUME NEW r \in replies, Granted(r) PROVE Heard'
  <2> DEFINE left == IF OnLoginPage THEN [pages EXCEPT ![shown] = Fresh] ELSE pages
  <2>1. /\ unnamed' = unnamed
        /\ pages' = [left EXCEPT ![r.page] = [left[r.page] EXCEPT !.otp = FALSE]]
    BY <1>6 DEF Granted
  <2>2. /\ left \in [Instances -> PageType]
        /\ \A p \in Instances : left[p] \in {pages[p], Fresh}
    <3>1. Fresh \in PageType
      BY DEF Fresh, PageType
    <3> QED
      BY <3>1 DEF LInv, PagesFit
  <2> HIDE DEF left
  <2>3. \A p \in Instances : /\ pages'[p].otp => left[p].otp
                             /\ pages'[p].txn = left[p].txn
    BY <2>1, <2>2 DEF PageType
  <2>4. ~Fresh.otp
    BY DEF Fresh
  <2> QED
    BY <2>1, <2>2, <2>3, <2>4, HeardPages
<1>7. ASSUME NEW r \in replies, Challenged(r) PROVE Heard'
  <2>1. r.txn # 0 /\ unnamed' = unnamed \ {r.page}
    BY <1>7 DEF Challenged
  <2>2. \A p \in Instances : /\ p # r.page => pages'[p] = pages[p]
                             /\ p = r.page => pages'[p].txn = r.txn
    BY <1>7 DEF Challenged, LInv, PagesFit
  <2> QED
    BY <2>1, <2>2 DEF Heard
<1>8. ASSUME NEW r \in replies, ChallengedUnlisted(r) PROVE Heard'
  <2>1. /\ pages' = [pages EXCEPT ![r.page].otp = @ \/ r.kind \notin ByKey]
        /\ unnamed' = IF r.kind \in ByKey THEN unnamed ELSE unnamed \union {r.page}
    BY <1>8 DEF ChallengedUnlisted
  <2>2. \A p \in Instances :
          /\ p # r.page => pages'[p] = pages[p]
          /\ pages'[p].txn = pages[p].txn
          /\ r.kind \in ByKey => pages'[p].otp = pages[p].otp
    BY <1>1, <2>1 DEF LInv, PagesFit, PageType
  <2> QED
    BY <2>1, <2>2 DEF Heard
<1>9. CASE ReloadPage
  <2>1. \A p \in Instances : pages'[p] = Fresh
    BY <1>9 DEF ReloadPage
  <2> QED
    BY <2>1 DEF Heard, Fresh
<1>10. CASE \/ SubmitKey \/ Fail \/ Active \/ LogOut \/ TimeOut \/ TimedOut \/ Pass
            \/ \E t \in Transactions : Confirm(t)
            \/ \E r \in requests : Grant(r) \/ Challenge(r) \/ ChallengeUnlisted(r)
            \/ UNCHANGED vars
  <2>1. UNCHANGED <<pages, unnamed>>
    BY <1>10 DEF SubmitKey, Fail, Active, LogOut, TimeOut, TimedOut, Pass, Leave, Confirm, Grant,
       Challenge, ChallengeUnlisted, Reply, vars, loginVars
  <2> QED
    BY <1>2, <2>1
<1> QED
  BY <1>3, <1>4, <1>5, <1>6, <1>7, <1>8, <1>9, <1>10, <1>11, <1>12 DEF Next

(* A page that offers the key or polls for a push knows its transaction, and *)
(* one that asks for an OTP does unless the last challenge it heard of came  *)
(* without one.                                                              *)
THEOREM PromptsKnow == Spec => []PromptsHaveChallenge
<1>1. Init => Heard
  BY DEF Init, Heard, Fresh
<1>2. LInv /\ Heard => PromptsHaveChallenge
  BY DEF LInv, PagesFit, Prompt, Heard, PromptsHaveChallenge, Polling
<1> QED
  BY <1>1, <1>2, HeardStep, LoginInvariant, PTL DEF Spec

(* A confirmed push is turned into one login. *)
THEOREM PushesOnce == Spec => []OneLoginPerPush
<1>1. LInv => OneLoginPerPush
  BY DEF LInv
<1> QED
  BY <1>1, LoginInvariant, PTL

(* The tab's session behaves as SessionTimer says. *)
LEMMA SessionOfTab == LInv /\ [Next]_vars => [TimerNext]_timerVars
<1> SUFFICES ASSUME LInv, Next PROVE [TimerNext]_timerVars
  BY DEF vars
<1>1. ASSUME NEW r \in replies, Granted(r) PROVE TimerNext
  <2>1. r.token \in Time /\ r.idle \in LogoutTimes /\ SignIn(r.token, r.idle)
    BY <1>1 DEF Granted, LInv, RepliesFit
  <2> QED
    BY <2>1 DEF TimerNext
<1>2. ASSUME Active \/ LogOut \/ ReloadPage \/ TimeOut \/ TimedOut \/ Pass PROVE TimerNext
  BY <1>2 DEF Active, LogOut, ReloadPage, TimeOut, TimedOut, Pass, TimerNext
<1>3. ASSUME NEW r \in requests, Grant(r) \/ Challenge(r) \/ ChallengeUnlisted(r)
      PROVE  UNCHANGED timerVars
  BY <1>3 DEF Grant, Challenge, ChallengeUnlisted, Reply
<1>4. ASSUME NEW r \in replies, Challenged(r) \/ ChallengedUnlisted(r) PROVE UNCHANGED timerVars
  BY <1>4 DEF Challenged, ChallengedUnlisted
<1>5. ASSUME NEW p \in Instances, PollAgain(p) \/ PollConfirmed(p) \/ PollEnds(p) \/ PollFails(p)
      PROVE  UNCHANGED timerVars
  BY <1>5 DEF PollAgain, PollConfirmed, PollEnds, PollFails
<1>6. ASSUME SubmitPassword \/ SubmitOtp \/ SubmitKey \/ StartOver \/ Fail PROVE UNCHANGED timerVars
  BY <1>6 DEF SubmitPassword, SubmitOtp, SubmitKey, StartOver, Fail
<1>7. ASSUME NEW t \in Transactions, Confirm(t) PROVE UNCHANGED timerVars
  BY <1>7 DEF Confirm
<1> QED
  BY <1>1, <1>2, <1>3, <1>4, <1>5, <1>6, <1>7 DEF Next

LEMMA TabImplementsSession == Spec => TimerSpec
<1>1. Init => TimerInit
  BY DEF Init
<1> QED
  BY <1>1, SessionOfTab, LoginInvariant, PTL DEF Spec, TimerSpec

(* No session of the tab outlives its token by more than its notice. *)
THEOREM TabEndsInTime == Spec => []EndsWithItsToken
<1> QED
  BY TabImplementsSession, EndsInTime, PTL

(* In the tab, too, the notice is shown when it is due. *)
THEOREM TabToldInTime == Spec => ToldWhenDue
<1> QED
  BY TabImplementsSession, ToldInTime, PTL

-----------------------------------------------------------------------------
(* How much is sent, and how many instances of the page that makes.        *)

(* May a request for the push of this transaction still be sent? *)
CanPush(t) ==
  \/ asked[t] = {}
  \/ \E r \in replies : r.txn = t
  \/ \E p \in Instances : pages[p].txn = t /\ Polling(p)

Unpushed == {t \in Transactions : CanPush(t)}

(* Every transaction is good for one request more than the user begins. *)
SentInBudget == sent + Cardinality(Unpushed) =< MaxRequest + MaxTransaction

(* What can yet make a new instance of the page, with those there were. *)
Claims == shown + (IF signedIn THEN 1 ELSE 0)
                + Cardinality(requests) + Cardinality(replies)

Counted ==
  /\ sent \in Nat /\ shown \in Nat /\ shown >= 1
  /\ IsFiniteSet(requests) /\ IsFiniteSet(replies)
  /\ SentInBudget /\ Claims =< sent + 1

(* The types that LInv does not give. *)
Typed ==
  /\ \A p \in Instances : pages[p].until \in Time
  /\ requests \subseteq Requests /\ replies \subseteq Replies
  /\ answered \in [Transactions -> {"open", "confirmed", "used"}]
  /\ unnamed \subseteq Instances

WInv == LInv /\ Inv /\ Counted /\ Typed

LEMMA UnpushedFinite ==
  /\ IsFiniteSet(Unpushed) /\ Cardinality(Unpushed) \in Nat
  /\ Cardinality(Unpushed) =< MaxTransaction
  /\ \A T \in SUBSET Unpushed : IsFiniteSet(T) /\ Cardinality(T) \in Nat
                                /\ Cardinality(T) =< Cardinality(Unpushed)
<1>1. MaxTransaction \in Nat
  BY LoginConstants
<1>2. IsFiniteSet(Transactions) /\ Cardinality(Transactions) = MaxTransaction
  BY <1>1, FS_Interval DEF Transactions
<1>3. Unpushed \in SUBSET Transactions
  BY DEF Unpushed
<1>4. IsFiniteSet(Unpushed) /\ Cardinality(Unpushed) =< MaxTransaction
  BY <1>2, <1>3, FS_Subset
<1> QED
  BY <1>4, FS_Subset, FS_CardinalityType

LEMMA CountTypes ==
  ASSUME Counted
  PROVE  /\ Cardinality(requests) \in Nat /\ Cardinality(replies) \in Nat
         /\ sent \in Nat /\ shown \in Instances /\ sent =< MaxRequest + MaxTransaction
<1>1. Cardinality(requests) \in Nat /\ Cardinality(replies) \in Nat
  BY FS_CardinalityType DEF Counted
<1>2. sent =< MaxRequest + MaxTransaction
  BY UnpushedFinite, LoginConstants DEF Counted, SentInBudget
<1>3. shown =< sent + 1
  <2>1. CASE signedIn
    BY <1>1, <2>1 DEF Counted, Claims
  <2>2. CASE ~signedIn
    BY <1>1, <2>2 DEF Counted, Claims
  <2> QED
    BY <2>1, <2>2
<1> QED
  BY <1>1, <1>2, <1>3, LoginConstants DEF Counted, Instances

(* A step that sends nothing and makes nothing possible. *)
LEMMA NothingSent ==
  ASSUME Counted, sent' = sent, shown' \in Nat, shown' >= 1,
         IsFiniteSet(requests'), IsFiniteSet(replies'),
         Unpushed' \subseteq Unpushed, Claims' =< Claims
  PROVE  Counted'
<1>1. Cardinality(Unpushed') \in Nat /\ Cardinality(Unpushed') =< Cardinality(Unpushed)
  BY UnpushedFinite
<1>2. SentInBudget'
  BY <1>1, UnpushedFinite, LoginConstants DEF Counted, SentInBudget
<1>3. Claims \in Nat /\ Claims' \in Nat
  <2>1. /\ Cardinality(requests) \in Nat /\ Cardinality(replies) \in Nat
        /\ Cardinality(requests') \in Nat /\ Cardinality(replies') \in Nat
    BY FS_CardinalityType DEF Counted
  <2>2. shown \in Nat
    BY DEF Counted
  <2> QED
    BY <2>1, <2>2 DEF Claims
<1>4. Claims' =< sent' + 1
  BY <1>3 DEF Counted
<1> QED
  BY <1>2, <1>4 DEF Counted

(* One request more is one claim more. *)
LEMMA OneSent ==
  ASSUME Counted, NEW q, sent' = sent + 1, requests' = requests \union {q},
         UNCHANGED <<signedIn, shown, replies>>
  PROVE  /\ IsFiniteSet(requests') /\ Claims' =< sent' + 1
<1>1. /\ IsFiniteSet(requests') /\ Cardinality(requests) \in Nat
      /\ Cardinality(requests') \in Nat
      /\ Cardinality(requests') =< Cardinality(requests) + 1
      /\ Cardinality(replies) \in Nat
  BY FS_AddElement, FS_CardinalityType DEF Counted
<1> DEFINE s == IF signedIn THEN 1 ELSE 0
<1>2. s \in Nat
  OBVIOUS
<1>3. /\ Claims = shown + s + Cardinality(requests) + Cardinality(replies)
      /\ Claims' = shown + s + Cardinality(requests') + Cardinality(replies)
  BY DEF Claims
<1> HIDE DEF s
<1> QED
  BY <1>1, <1>2, <1>3 DEF Counted

(* A page that fades, and an answer that is dropped, make nothing possible. *)
LEMMA FadingUnpushed ==
  ASSUME LInv, FadingStep
  PROVE  Unpushed' \subseteq Unpushed
<1> SUFFICES ASSUME NEW t \in Transactions, CanPush(t)' PROVE CanPush(t)
  BY DEF Unpushed
<1>1. t # 0
  BY ZeroIsNone
<1>2. \A p \in Instances : /\ pages'[p].txn \in {pages[p].txn, 0}
                           /\ pages'[p].until \in {pages[p].until, 0}
  BY DEF FadingStep, Fades
<1> QED
  BY <1>1, <1>2 DEF CanPush, FadingStep, Polling

LEMMA FadingTyped ==
  ASSUME Typed, FadingStep
  PROVE  \A p \in Instances : pages'[p].until \in Time
<1>1. 0 \in Time
  BY TimerConstants DEF Time
<1> QED
  BY <1>1 DEF Typed, FadingStep, Fades

(* What is sent is a request. *)
LEMMA SendTyped ==
  ASSUME Typed, NEW p \in Instances, NEW kind \in Kinds \union {"password", "passkey"},
         NEW txn \in Transactions \union {0}, NEW realm \in {UserRealm, NoRealm},
         sent \in Nat, sent + 1 =< MaxRequest + MaxTransaction, Send(p, kind, txn, realm)
  PROVE  requests' \subseteq Requests
<1> DEFINE req == [id |-> sent + 1, page |-> p, kind |-> kind, txn |-> txn, realm |-> realm]
<1>1. sent + 1 \in Sent
  BY LoginConstants DEF Sent
<1>2. req \in Requests
  BY <1>1 DEF Requests
<1>3. requests' = requests \union {req}
  BY DEF Send
<1> HIDE DEF req
<1> QED
  BY <1>2, <1>3 DEF Typed

-----------------------------------------------------------------------------
(* One lemma per kind of step. *)

(* A login the user begins. *)
LEMMA UserSends ==
  ASSUME WInv, FadingStep, NEW kind \in {"password", "otp", "webauthn", "passkey"},
         NEW txn \in Transactions \union {0}, NEW realm \in {UserRealm, NoRealm},
         Send(shown, kind, txn, realm),
         UNCHANGED <<timerVars, shown, replies, answered, unnamed>>
  PROVE  Counted' /\ Typed'
<1>1. /\ sent < MaxRequest /\ sent' = sent + 1 /\ sent \in Nat /\ shown \in Instances
      /\ UNCHANGED signedIn
  BY CountTypes DEF Send, WInv, timerVars
<1>2. Cardinality(Unpushed') \in Nat /\ Cardinality(Unpushed') =< MaxTransaction
  BY UnpushedFinite, FadingUnpushed, LoginConstants DEF WInv
<1>3. SentInBudget'
  BY <1>1, <1>2, LoginConstants DEF SentInBudget
<1>4. IsFiniteSet(requests') /\ Claims' =< sent' + 1
  BY <1>1, OneSent DEF Send, WInv
<1>5. Counted'
  BY <1>1, <1>3, <1>4 DEF Counted, WInv
<1>6. requests' \subseteq Requests
  <2>1. kind \in Kinds \union {"password", "passkey"}
    BY DEF Kinds
  <2>2. sent + 1 =< MaxRequest + MaxTransaction
    BY <1>1, LoginConstants
  <2> QED
    BY <1>1, <2>1, <2>2, SendTyped DEF WInv
<1>7. Typed'
  BY <1>6, FadingTyped DEF Typed, WInv
<1> QED
  BY <1>5, <1>7

(* What the page does without a request. *)
LEMMA PageOnly ==
  ASSUME WInv, FadingStep,
         UNCHANGED <<timerVars, shown, requests, replies, sent, answered, unnamed>>
  PROVE  Counted' /\ Typed'
<1>1. Claims' = Claims /\ Claims =< Claims
  <2>1. Claims' = Claims
    BY DEF Claims, timerVars
  <2>2. Claims \in Int
    BY CountTypes DEF WInv, Counted, Claims
  <2> QED
    BY <2>1, <2>2
<1>2. Counted'
  BY <1>1, FadingUnpushed, NothingSent DEF WInv, Counted
<1>3. Typed'
  BY FadingTyped DEF Typed, WInv
<1> QED
  BY <1>2, <1>3

(* The steps of the page. *)
LEMMA PageBudget ==
  ASSUME WInv,
         \/ SubmitPassword \/ SubmitOtp \/ SubmitKey \/ StartOver
         \/ \E p \in Instances : PollAgain(p) \/ PollEnds(p) \/ PollFails(p)
  PROVE  Counted' /\ Typed'
<1>1. FadingStep
  BY PageSteps, SessionSteps DEF WInv
<1>2. \A p \in Instances : pages[p].txn \in Transactions \union {0}
  BY DEF WInv, LInv, PagesFit, PageType
<1>3. shown \in Instances
  BY CountTypes DEF WInv
<1>4. CASE SubmitPassword
  <2>1. /\ Send(shown, "password", 0, UserRealm)
        /\ UNCHANGED <<timerVars, shown, replies, answered, unnamed>>
    BY <1>4 DEF SubmitPassword
  <2> QED
    BY <1>1, <2>1, UserSends
<1>5. CASE SubmitOtp
  <2>1. /\ Send(shown, "otp", pages[shown].txn, UserRealm)
        /\ UNCHANGED <<timerVars, shown, replies, answered, unnamed>>
    BY <1>5 DEF SubmitOtp
  <2> QED
    BY <1>1, <1>2, <1>3, <2>1, UserSends
<1>6. CASE SubmitKey
  <2>1. /\ \/ Send(shown, "webauthn", pages[shown].txn, NoRealm)
           \/ Send(shown, "passkey", 0, NoRealm)
        /\ UNCHANGED <<timerVars, shown, replies, answered, unnamed>>
    BY <1>6 DEF SubmitKey
  <2> QED
    BY <1>1, <1>2, <1>3, <2>1, UserSends
<1>7. CASE \/ StartOver
           \/ \E p \in Instances : PollAgain(p) \/ PollEnds(p) \/ PollFails(p)
  <2>1. UNCHANGED <<timerVars, shown, requests, replies, sent, answered, unnamed>>
    BY <1>7 DEF StartOver, PollAgain, PollEnds, PollFails
  <2> QED
    BY <1>1, <2>1, PageOnly
<1> QED
  BY <1>4, <1>5, <1>6, <1>7

(* A request for a push uses up what its transaction was good for: the page *)
(* that asked for it was the only one that could, and polls no more.        *)
LEMMA PushBudget ==
  ASSUME WInv, NEW p0 \in Instances, PollConfirmed(p0)
  PROVE  Counted' /\ Typed'
<1> DEFINE t0 == pages[p0].txn
<1>1. /\ pages' = [pages EXCEPT ![p0] = Stopped(pages[p0])]
      /\ Send(p0, "push", t0, NoRealm) /\ Polling(p0)
      /\ UNCHANGED <<timerVars, shown, replies, asked, answered, unnamed>>
      /\ LInv /\ Counted /\ Typed
  BY DEF PollConfirmed, WInv
<1>2. /\ pages \in [Instances -> PageType] /\ pages[p0] \in PageType /\ Prompt(pages[p0])
      /\ t0 \in Transactions /\ t0 # 0
  BY <1>1, ZeroIsNone DEF LInv, PagesFit, Prompt, PageType, Polling
<1>3. /\ Stopped(pages[p0]).until = 0 /\ Stopped(pages[p0]).txn \in {t0, 0}
  BY <1>2, StoppedFades DEF Fades, Stopped, PageType
<1>4. \A p \in Instances : pages'[p] = IF p = p0 THEN Stopped(pages[p0]) ELSE pages[p]
  BY <1>1, <1>2
<1>5. /\ asked[t0] # {} /\ \A q \in Instances : pages[q].txn = t0 => q = p0
      /\ \A r \in replies : r.txn # t0
  BY <1>1, <1>2 DEF LInv, OnePlace
<1>6. t0 \in Unpushed
  BY <1>1, <1>2 DEF Unpushed, CanPush
<1>7. Unpushed' \subseteq Unpushed \ {t0}
  <2> SUFFICES ASSUME NEW t \in Transactions, CanPush(t)'
               PROVE  CanPush(t) /\ t # t0
    BY DEF Unpushed
  <2>1. t # 0
    BY ZeroIsNone
  <2>2. \A p \in Instances : pages'[p].txn = t /\ Polling(p)' => p # p0 /\ pages'[p] = pages[p]
    BY <1>3, <1>4, <2>1 DEF Polling
  <2>3. CanPush(t)
    BY <1>1, <2>2 DEF CanPush, Polling
  <2>4. t # t0
    BY <1>1, <1>5, <2>2 DEF CanPush, Polling
  <2> QED
    BY <2>3, <2>4
<1>8. /\ Cardinality(Unpushed') \in Nat
      /\ Cardinality(Unpushed') =< Cardinality(Unpushed) - 1
  <2>1. /\ IsFiniteSet(Unpushed \ {t0})
        /\ Cardinality(Unpushed \ {t0}) = Cardinality(Unpushed) - 1
    BY <1>6, UnpushedFinite, FS_RemoveElement
  <2> QED
    BY <1>7, <2>1, UnpushedFinite, FS_Subset
<1>9. sent' = sent + 1 /\ sent \in Nat /\ UNCHANGED signedIn
  BY <1>1 DEF Send, Counted, timerVars
<1>10. /\ SentInBudget' /\ sent + 1 =< MaxRequest + MaxTransaction
  BY <1>1, <1>8, <1>9, UnpushedFinite, LoginConstants DEF Counted, SentInBudget
<1>11. IsFiniteSet(requests') /\ Claims' =< sent' + 1
  BY <1>1, <1>9, OneSent DEF Send
<1>12. Counted'
  BY <1>1, <1>9, <1>10, <1>11 DEF Counted
<1>13. requests' \subseteq Requests
  <2>1. "push" \in Kinds \union {"password", "passkey"}
    BY DEF Kinds
  <2> QED
    BY <1>1, <1>2, <1>9, <1>10, <2>1, SendTyped
<1>14. \A p \in Instances : pages'[p].until \in Time
  <2>1. 0 \in Time
    BY TimerConstants DEF Time
  <2> QED
    BY <1>1, <1>3, <1>4, <2>1 DEF Typed
<1>15. Typed'
  BY <1>1, <1>13, <1>14 DEF Typed
<1> QED
  BY <1>12, <1>15

(* An answer takes the place of its request. *)
LEMMA ReplyBudget ==
  ASSUME WInv, NEW r \in requests, NEW token \in Time, NEW idle \in LogoutTimes \union {0},
         NEW txn \in Transactions \union {0}, Reply(r, token, idle, txn),
         \A t \in Transactions : asked'[t] = {} => asked[t] = {},
         txn # 0 => asked[txn] = {},
         answered' \in [Transactions -> {"open", "confirmed", "used"}]
  PROVE  Counted' /\ Typed'
<1> DEFINE rep == [id |-> r.id, page |-> r.page, kind |-> r.kind,
                   of |-> IF r.kind = "push" THEN r.txn ELSE 0,
                   token |-> token, idle |-> idle, txn |-> txn]
<1>1. /\ requests' = requests \ {r} /\ replies' = replies \union {rep}
      /\ UNCHANGED <<timerVars, shown, pages, sent, unnamed>>
      /\ Counted /\ Typed
  BY DEF Reply, WInv
<1>2. rep \in Replies
  <2>1. r \in Requests
    BY <1>1 DEF Typed
  <2>2. /\ r.id \in Sent /\ r.page \in Instances /\ r.kind \in Kinds \union {"password", "passkey"}
        /\ r.txn \in Transactions \union {0}
    BY <2>1 DEF Requests
  <2> QED
    BY <2>2 DEF Replies
<1>3. rep.txn = txn
  OBVIOUS
<1> HIDE DEF rep
<1>4. Unpushed' \subseteq Unpushed
  BY <1>1, <1>3, ZeroIsNone DEF Unpushed, CanPush, Polling
<1>5. /\ IsFiniteSet(requests') /\ IsFiniteSet(replies')
      /\ Cardinality(requests) \in Nat /\ Cardinality(requests') = Cardinality(requests) - 1
      /\ Cardinality(replies) \in Nat /\ Cardinality(replies') \in Nat
      /\ Cardinality(replies') =< Cardinality(replies) + 1
  <2>1. IsFiniteSet(requests) /\ IsFiniteSet(replies)
    BY <1>1 DEF Counted
  <2>2. Cardinality(requests) \in Nat /\ Cardinality(replies) \in Nat
    BY <2>1, FS_CardinalityType
  <2>3. IsFiniteSet(requests') /\ Cardinality(requests') = Cardinality(requests) - 1
    BY <1>1, <2>1, FS_RemoveElement
  <2>4. /\ IsFiniteSet(replies')
        /\ Cardinality(replies') \in {Cardinality(replies), Cardinality(replies) + 1}
    BY <1>1, <2>1, FS_AddElement
  <2> QED
    BY <2>2, <2>3, <2>4
<1>6. Claims' =< Claims
  <2> DEFINE s == IF signedIn THEN 1 ELSE 0
  <2>1. s \in Nat
    OBVIOUS
  <2>2. /\ Claims = shown + s + Cardinality(requests) + Cardinality(replies)
        /\ Claims' = shown + s + Cardinality(requests') + Cardinality(replies')
    BY <1>1 DEF Claims, timerVars
  <2> HIDE DEF s
  <2> QED
    BY <1>1, <1>5, <2>1, <2>2 DEF Counted
<1>7. Counted'
  BY <1>1, <1>4, <1>5, <1>6, NothingSent DEF Counted
<1>8. Typed'
  BY <1>1, <1>2 DEF Typed
<1> QED
  BY <1>7, <1>8

LEMMA ServerBudget ==
  ASSUME WInv, NEW r \in requests, Grant(r) \/ Challenge(r) \/ ChallengeUnlisted(r)
  PROVE  Counted' /\ Typed'
<1>1. /\ now \in Nat /\ asked \in [Transactions -> SUBSET Kinds]
      /\ answered \in [Transactions -> {"open", "confirmed", "used"}]
  BY DEF WInv, Typed, LInv, RepliesFit, PagesFit
<1>2. Closed(r) \in [Transactions -> {"open", "confirmed", "used"}]
  BY <1>1 DEF Closed
<1>3. CASE Grant(r)
  <2>1. PICK life \in Lifetimes, idle \in LogoutTimes : Reply(r, WholeSeconds(now + life), idle, 0)
    BY <1>3 DEF Grant
  <2>2. now =< LastStart /\ asked' = asked /\ answered' = Closed(r)
    BY <1>3, <2>1 DEF Grant, Reply
  <2>3. LastStart \in Nat /\ life \in Nat /\ MaxTime \in Nat /\ LastStart + life + Notice =< MaxTime
    BY LoginConstants, TimerConstants
  <2>4. WholeSeconds(now + life) \in Time
    BY <1>1, <2>2, <2>3 DEF WholeSeconds, Second, Notice, Time
  <2> QED
    BY <1>2, <2>1, <2>2, <2>4, ReplyBudget
<1>4. CASE Challenge(r)
  <2>1. PICK t \in Transactions, kinds \in Triggers :
          /\ asked[t] = {}
          /\ asked' = [asked EXCEPT ![t] = kinds]
          /\ answered' = [Closed(r) EXCEPT ![t] = "open"]
          /\ Reply(r, 0, 0, t)
    BY <1>4 DEF Challenge
  <2>2. kinds # {}
    BY LoginConstants
  <2>3. \A u \in Transactions : asked'[u] = {} => asked[u] = {}
    BY <1>1, <2>1, <2>2
  <2>4. answered' \in [Transactions -> {"open", "confirmed", "used"}]
    BY <1>2, <2>1
  <2>5. 0 \in Time
    BY TimerConstants DEF Time
  <2> QED
    BY <2>1, <2>3, <2>4, <2>5, ReplyBudget
<1>5. CASE ChallengeUnlisted(r)
  <2>1. Reply(r, 0, 0, 0) /\ asked' = asked /\ answered' = answered
    BY <1>5 DEF ChallengeUnlisted
  <2>2. 0 \in Time
    BY TimerConstants DEF Time
  <2> QED
    BY <1>1, <2>1, <2>2, ReplyBudget
<1> QED
  BY <1>3, <1>4, <1>5

LEMMA ChallengedBudget ==
  ASSUME WInv, NEW r \in replies, Challenged(r)
  PROVE  Counted' /\ Typed'
<1> DEFINE p0 == r.page
           until == IF "push" \in asked[r.txn] THEN now + PollFor ELSE pages[p0].until
           poll == IF "push" \in asked[r.txn] THEN r.txn ELSE pages[p0].poll
           new == [otp   |-> pages[p0].otp \/ r.kind \notin ByKey,
                   key   |-> pages[p0].key \/ "webauthn" \in asked[r.txn],
                   txn   |-> r.txn, until |-> until, poll |-> poll]
<1>1. /\ r.txn # 0 /\ now =< LastStart
      /\ pages' = [pages EXCEPT ![p0] = new]
      /\ replies' = replies \ {r}
      /\ unnamed' = unnamed \ {r.page}
      /\ UNCHANGED <<timerVars, shown, requests, sent, asked, answered>>
      /\ LInv /\ Inv /\ Counted /\ Typed
  BY DEF Challenged, WInv
<1>2. /\ p0 \in Instances /\ pages \in [Instances -> PageType] /\ now \in Nat
      /\ now + PollFor \in Time
  <2>1. r \in Replies
    BY <1>1 DEF Typed
  <2>2. now \in Nat /\ pages \in [Instances -> PageType]
    BY <1>1 DEF LInv, RepliesFit, PagesFit
  <2>3. now + PollFor \in Time
    BY <1>1, <2>2, LoginConstants, TimerConstants DEF Time
  <2> QED
    BY <2>1, <2>2, <2>3 DEF Replies
<1>3. until \in Time /\ new.until = until /\ new.txn = r.txn
  BY <1>1, <1>2 DEF Typed
<1> HIDE DEF until, poll, new
<1>4. \A p \in Instances : pages'[p] = IF p = p0 THEN new ELSE pages[p]
  BY <1>1, <1>2
<1>5. Unpushed' \subseteq Unpushed
  BY <1>1, <1>3, <1>4 DEF Unpushed, CanPush, Polling
<1>6. /\ IsFiniteSet(replies') /\ Cardinality(replies) \in Nat /\ Cardinality(replies') \in Nat
      /\ Cardinality(replies') =< Cardinality(replies)
  <2>1. IsFiniteSet(replies)
    BY <1>1 DEF Counted
  <2>2. /\ IsFiniteSet(replies') /\ Cardinality(replies) \in Nat
        /\ Cardinality(replies') \in {Cardinality(replies), Cardinality(replies) - 1}
    BY <1>1, <2>1, FS_RemoveElement, FS_CardinalityType
  <2>3. Cardinality(replies') \in Nat
    BY <2>2, FS_CardinalityType
  <2> QED
    BY <2>2, <2>3
<1>7. Claims' =< Claims
  <2> DEFINE s == IF signedIn THEN 1 ELSE 0
  <2>1. s \in Nat /\ Cardinality(requests) \in Nat /\ shown \in Nat
    BY <1>1, CountTypes DEF Counted
  <2>2. /\ Claims = shown + s + Cardinality(requests) + Cardinality(replies)
        /\ Claims' = shown + s + Cardinality(requests) + Cardinality(replies')
    BY <1>1 DEF Claims, timerVars
  <2> HIDE DEF s
  <2> QED
    BY <1>6, <2>1, <2>2
<1>8. Counted'
  BY <1>1, <1>5, <1>6, <1>7, NothingSent DEF Counted
<1>9. Typed'
  BY <1>1, <1>3, <1>4 DEF Typed
<1> QED
  BY <1>8, <1>9

(* A login takes the place of the answer it came with. *)
LEMMA GrantedBudget ==
  ASSUME WInv, NEW r \in replies, Granted(r)
  PROVE  Counted' /\ Typed'
<1>1. /\ FadingStep /\ replies' = replies \ {r} /\ signedIn' = TRUE
      /\ UNCHANGED <<shown, requests, sent, asked, answered, unnamed>>
      /\ LInv /\ Counted /\ Typed
  BY GrantedStep DEF Granted, SignIn, WInv
<1>2. /\ IsFiniteSet(replies') /\ Cardinality(replies) \in Nat
      /\ Cardinality(replies') = Cardinality(replies) - 1
  BY <1>1, FS_RemoveElement, FS_CardinalityType DEF Counted
<1>3. Claims' =< Claims
  <2> DEFINE s == IF signedIn THEN 1 ELSE 0
  <2>1. s \in Nat /\ Cardinality(requests) \in Nat /\ shown \in Nat
    BY <1>1, CountTypes DEF Counted
  <2>2. /\ Claims = shown + s + Cardinality(requests) + Cardinality(replies)
        /\ Claims' = shown + 1 + Cardinality(requests) + Cardinality(replies')
    BY <1>1 DEF Claims
  <2> HIDE DEF s
  <2> QED
    BY <1>2, <2>1, <2>2
<1>4. Counted'
  BY <1>1, <1>2, <1>3, FadingUnpushed, NothingSent DEF Counted
<1>5. Typed'
  BY <1>1, FadingTyped DEF Typed
<1> QED
  BY <1>4, <1>5

(* An answer that lists no challenge is used up. *)
LEMMA UnlistedBudget ==
  ASSUME WInv, NEW r \in replies, ChallengedUnlisted(r)
  PROVE  Counted' /\ Typed'
<1>1. /\ FadingStep /\ replies' = replies \ {r}
      /\ UNCHANGED <<timerVars, shown, requests, sent, answered>>
      /\ unnamed' \subseteq unnamed \union {r.page}
      /\ LInv /\ Counted /\ Typed
  BY UnlistedStep DEF ChallengedUnlisted, WInv
<1>2. r.page \in Instances
  BY <1>1 DEF Typed, Replies
<1>3. /\ IsFiniteSet(replies') /\ Cardinality(replies) \in Nat
      /\ Cardinality(replies') = Cardinality(replies) - 1
  BY <1>1, FS_RemoveElement, FS_CardinalityType DEF Counted
<1>4. Claims' =< Claims
  <2> DEFINE s == IF signedIn THEN 1 ELSE 0
  <2>1. s \in Nat /\ Cardinality(requests) \in Nat /\ shown \in Nat
    BY <1>1, CountTypes DEF Counted
  <2>2. /\ Claims = shown + s + Cardinality(requests) + Cardinality(replies)
        /\ Claims' = shown + s + Cardinality(requests) + Cardinality(replies')
    BY <1>1 DEF Claims, timerVars
  <2> HIDE DEF s
  <2> QED
    BY <1>3, <2>1, <2>2
<1>5. Counted'
  BY <1>1, <1>3, <1>4, FadingUnpushed, NothingSent DEF Counted
<1>6. Typed'
  BY <1>1, <1>2, FadingTyped DEF Typed
<1> QED
  BY <1>5, <1>6

(* A new instance of the page takes the place of the session that ended. *)
LEMMA SessionBudget ==
  ASSUME WInv,
         \/ Fail \/ Active \/ LogOut \/ TimeOut \/ TimedOut \/ Pass
         \/ \E t \in Transactions : Confirm(t)
  PROVE  Counted' /\ Typed'
<1>1. /\ FadingStep /\ pages' = pages /\ sent' = sent
      /\ requests' \subseteq requests /\ replies' \subseteq replies
      /\ LInv /\ Counted /\ Typed /\ signedIn \in BOOLEAN
  BY SessionSteps DEF WInv, Inv, TimerTypeOK, Fail, Active, LogOut, TimeOut, TimedOut, Pass,
     Leave, Confirm, loginVars
<1>2. /\ IsFiniteSet(requests') /\ IsFiniteSet(replies')
      /\ Cardinality(requests) \in Nat /\ Cardinality(requests') \in Nat
      /\ Cardinality(requests') =< Cardinality(requests)
      /\ Cardinality(replies) \in Nat /\ Cardinality(replies') \in Nat
      /\ Cardinality(replies') =< Cardinality(replies)
  BY <1>1, FS_Subset, FS_CardinalityType DEF Counted
<1>3. /\ shown \in Nat /\ shown >= 1
      /\ \/ shown' = shown /\ signedIn' = signedIn
         \/ shown' = shown + 1 /\ signedIn /\ ~signedIn'
         \/ shown' = shown /\ ~signedIn'
  <2>1. CASE LogOut \/ TimedOut
    BY <1>1, <2>1 DEF LogOut, TimedOut, Logout, EndSession, ForgetSession, Leave, OnLoginPage,
       Counted
  <2>2. CASE \/ Fail \/ Active \/ TimeOut \/ Pass
             \/ \E t \in Transactions : Confirm(t)
    BY <1>1, <2>2 DEF Fail, Active, TimeOut, Pass, Confirm, ResetSessionTimer,
       HandleSessionTimeout, Tick, timerVars, loginVars, Counted
  <2> QED
    BY <2>1, <2>2
<1>4. Claims' =< Claims /\ shown' \in Nat /\ shown' >= 1
  BY <1>1, <1>2, <1>3 DEF Claims
<1>5. Counted'
  BY <1>1, <1>2, <1>3, <1>4, FadingUnpushed, NothingSent DEF Counted
<1>6. answered' \in [Transactions -> {"open", "confirmed", "used"}] /\ unnamed' = unnamed
  BY <1>1 DEF Typed, Fail, Active, LogOut, TimeOut, TimedOut, Pass, Leave, Confirm, loginVars
<1>7. Typed'
  BY <1>1, <1>6 DEF Typed
<1> QED
  BY <1>5, <1>7

(* A page that is loaded anew is the first instance again. *)
LEMMA ReloadBudget ==
  ASSUME WInv, ReloadPage
  PROVE  Counted' /\ Typed'
<1>1. /\ FadingStep /\ shown' = 1 /\ requests' = {} /\ replies' = {}
      /\ unnamed' = {}
      /\ UNCHANGED <<sent, asked, answered>>
      /\ LInv /\ Counted /\ Typed /\ signedIn \in BOOLEAN
      /\ signedIn' \in BOOLEAN /\ (signedIn' => signedIn)
  BY ReloadStep DEF ReloadPage, Reload, ForgetSession, WInv, Inv, TimerTypeOK
<1>2. /\ IsFiniteSet({}) /\ Cardinality({}) = 0
  BY FS_EmptySet
<1>3. Cardinality(requests) \in Nat /\ Cardinality(replies) \in Nat /\ shown \in Nat /\ shown >= 1
  BY <1>1, CountTypes DEF Counted
<1>4. Claims' =< Claims
  <2>1. Claims' = 1 + (IF signedIn' THEN 1 ELSE 0) + 0 + 0
    BY <1>1, <1>2 DEF Claims
  <2> QED
    BY <1>1, <1>3, <2>1 DEF Claims
<1>5. Counted'
  BY <1>1, <1>2, <1>4, FadingUnpushed, NothingSent DEF Counted
<1>6. Typed'
  BY <1>1, FadingTyped DEF Typed
<1> QED
  BY <1>5, <1>6

LEMMA WStep == WInv /\ [Next]_vars => WInv'
<1> SUFFICES ASSUME WInv, [Next]_vars PROVE WInv'
  OBVIOUS
<1>1. LInv' /\ Inv'
  <2>1. LInv /\ Inv
    BY DEF WInv
  <2> QED
    BY <2>1, LoginStep, SessionOfTab, StepKeeps
<1>2. CASE UNCHANGED vars
  <2>1. Unpushed' = Unpushed /\ Claims' = Claims
    BY <1>2 DEF vars, timerVars, loginVars, Unpushed, CanPush, Polling, Claims
  <2> QED
    BY <1>1, <1>2, <2>1 DEF WInv, Counted, Typed, SentInBudget, vars, timerVars, loginVars
<1>3. CASE Next
  <2>1. Counted' /\ Typed'
    BY <1>3, PageBudget, PushBudget, ServerBudget, ChallengedBudget, GrantedBudget,
       UnlistedBudget, SessionBudget, ReloadBudget DEF Next
  <2> QED
    BY <1>1, <2>1 DEF WInv
<1> QED
  BY <1>2, <1>3

LEMMA WInit == Init => WInv
<1> SUFFICES ASSUME Init PROVE WInv
  OBVIOUS
<1>1. LInv /\ Inv
  BY LoginInit, InitHolds DEF Init
<1>2. /\ sent = 0 /\ shown = 1 /\ requests = {} /\ replies = {} /\ signedIn = FALSE
      /\ unnamed = {}
      /\ answered = [t \in Transactions |-> "open"]
      /\ pages = [p \in Instances |-> Fresh]
  BY DEF Init, TimerInit
<1>3. /\ IsFiniteSet({}) /\ Cardinality({}) = 0
  BY FS_EmptySet
<1>4. Claims =< sent + 1
  BY <1>2, <1>3 DEF Claims
<1>5. SentInBudget
  BY <1>2, UnpushedFinite, LoginConstants DEF SentInBudget
<1>6. Typed
  <2>1. 0 \in Time
    BY TimerConstants DEF Time
  <2> QED
    BY <1>2, <2>1 DEF Typed, Fresh
<1> QED
  BY <1>1, <1>2, <1>3, <1>4, <1>5, <1>6 DEF WInv, Counted

(* Every variable has its type: nothing is sent but for a login the user     *)
(* began or a push whose transaction has not been used, and no instance of   *)
(* the page is made but for a login that was answered.                       *)
THEOREM LoginTypeCorrect == Spec => []TypeOK
<1>1. WInv => TypeOK
  <2> SUFFICES ASSUME WInv PROVE TypeOK
    OBVIOUS
  <2>1. TimerTypeOK
    BY DEF WInv, Inv
  <2>2. shown \in Instances /\ sent \in Sent \union {0}
    <3>1. shown \in Instances /\ sent \in Nat /\ sent =< MaxRequest + MaxTransaction
      BY CountTypes DEF WInv
    <3> QED
      BY <3>1, LoginConstants DEF Sent
  <2>3. pages \in [Instances -> [otp : BOOLEAN, key : BOOLEAN, txn : Transactions \union {0},
                                 until : Time, poll : Transactions \union {0}]]
    BY DEF WInv, LInv, PagesFit, PageType, Typed
  <2> QED
    BY <2>1, <2>2, <2>3 DEF WInv, Typed, LInv, PagesFit, TypeOK
<1> QED
  BY <1>1, WInit, WStep, PTL DEF Spec

=============================================================================
