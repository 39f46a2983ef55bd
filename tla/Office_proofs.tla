---------------------------- MODULE Office_proofs ----------------------------
(***************************************************************************)
(* Proofs about the parts of the office, for any values of its constants:  *)
(* the lock on a phone's screen, the translators' credentials with the     *)
(* dialog that makes links, the approver's page, what is known of a stream *)
(* on the air, and signing in at the approver's desk; the accounts have a  *)
(* module of their own, and so have the console and the chart.  What is    *)
(* shown of a component's own specification holds of the office while that *)
(* part runs.                                                              *)
(***************************************************************************)
EXTENDS OfficeConsole_proofs, UserAccounts_proofs

-----------------------------------------------------------------------------
(* The lock on the screen.  A run that has been granted a lock does not      *)
(* overwrite another's as long as runs of one effect do not overlap, since   *)
(* it has taken the last lock out of the reference itself.                   *)

Runs == Phone!UnderWay

PhoneInv ==
    /\ Phone!TypeOK
    /\ \A q \in WakeRun : asks[q].at = "asked" => asks[q].previous = None
    /\ ~wanted => Runs = {} /\ ref = None
    /\ ~doubled => /\ Runs # {} => ref = None
                   /\ \A p, q \in Runs : p = q
    /\ Phone!NoLockIsLost

Previous(as) == {as[q].previous : q \in WakeRun}

LEMMA PhoneInit == Phone!Init => PhoneInv
<1> SUFFICES ASSUME Phone!Init
             PROVE  PhoneInv
  OBVIOUS
<1>1. /\ asks = [q \in WakeRun |-> Phone!Idle] /\ held = {} /\ ref = None
      /\ wanted = FALSE /\ visible = TRUE /\ doubled = FALSE
  BY DEF Phone!Init
<1>2. Runs = {} /\ \A q \in WakeRun : asks[q].at = "idle"
  BY <1>1 DEF Runs, Phone!UnderWay, Phone!Idle
<1>3. Phone!TypeOK
  BY <1>1 DEF Phone!TypeOK, Phone!Idle
<1>4. QED
  BY <1>1, <1>2, <1>3 DEF PhoneInv, Phone!NoLockIsLost

LEMMA PhoneBegins ==
  ASSUME PhoneInv, NEW q \in WakeRun, Phone!Begins(q), wanted' = TRUE, visible' \in BOOLEAN,
         UNCHANGED held
  PROVE  PhoneInv'
<1> DEFINE r == [at |-> IF ref = None THEN "asked" ELSE "releasing",
                 cancelled |-> FALSE, previous |-> ref]
<1>1. /\ asks' = [asks EXCEPT ![q] = r] /\ ref' = None /\ asks[q] = Phone!Idle
      /\ doubled' = (doubled \/ Runs # {})
  BY DEF Phone!Begins, Runs
<1>2. /\ r.at \in {"asked", "releasing"} /\ r.cancelled = FALSE /\ r.previous = ref
      /\ r.at = "asked" => ref = None
      /\ r \in [at : {"idle", "releasing", "asked"}, cancelled : BOOLEAN, previous : Lock \cup {None}]
  BY DEF PhoneInv, Phone!TypeOK
<1> HIDE DEF r
<1>3. Phone!TypeOK'
  BY <1>1, <1>2 DEF PhoneInv, Phone!TypeOK
<1>4. asks'[q] = r /\ \A p \in WakeRun \ {q} : asks'[p] = asks[p]
  BY <1>1 DEF PhoneInv, Phone!TypeOK
<1>5. \A p \in WakeRun : asks'[p].at = "asked" => asks'[p].previous = None
  BY <1>2, <1>4 DEF PhoneInv
<1>6. Runs' \subseteq Runs \cup {q}
  BY <1>4 DEF Runs, Phone!UnderWay, Phone!Idle
<1>7. ~doubled' => \A p1, p2 \in Runs' : p1 = p2
  BY <1>1, <1>6
<1>8. Phone!NoLockIsLost'
  <2> SUFFICES ASSUME ~doubled', NEW lock \in held
               PROVE  lock \in {ref'} \cup Previous(asks')
    BY DEF Phone!NoLockIsLost, Previous
  <2>1. lock \in {ref} \cup Previous(asks)
    BY <1>1 DEF PhoneInv, Phone!NoLockIsLost, Previous
  <2>2. CASE lock = ref
    BY <1>2, <1>4, <2>2 DEF Previous
  <2>3. ASSUME NEW p \in WakeRun, lock = asks[p].previous
        PROVE  lock \in {ref'} \cup Previous(asks')
    <3>1. CASE p = q
      BY <1>1, <2>3, <3>1 DEF Phone!Idle
    <3>2. CASE p # q
      BY <1>4, <2>3, <3>2 DEF Previous
    <3>3. QED
      BY <3>1, <3>2
  <2>4. QED
    BY <2>1, <2>2, <2>3 DEF Previous
<1>9. QED
  BY <1>1, <1>3, <1>5, <1>7, <1>8 DEF PhoneInv

LEMMA PhoneStarts ==
  ASSUME PhoneInv, Phone!Starts
  PROVE  PhoneInv'
<1>1. CASE \E q \in WakeRun : Phone!Begins(q)
  BY <1>1, PhoneBegins DEF Phone!Starts, PhoneInv, Phone!TypeOK
<1>2. CASE Phone!Declines
  BY <1>2 DEF Phone!Starts, Phone!Declines, PhoneInv, Phone!TypeOK, Phone!NoLockIsLost, Runs, Phone!UnderWay
<1>3. QED
  BY <1>1, <1>2 DEF Phone!Starts, Phone!MayBegin

LEMMA PhoneShows ==
  ASSUME PhoneInv, Phone!Shows
  PROVE  PhoneInv'
<1>1. CASE wanted /\ \E q \in WakeRun : Phone!Begins(q)
  <2>1. PICK q \in WakeRun : Phone!Begins(q)
    BY <1>1
  <2>2. QED
    BY <1>1, <2>1, PhoneBegins DEF Phone!Shows, PhoneInv, Phone!TypeOK
<1>2. CASE Phone!Declines
  BY <1>2 DEF Phone!Shows, Phone!Declines, PhoneInv, Phone!TypeOK, Phone!NoLockIsLost, Runs, Phone!UnderWay
<1>3. QED
  BY <1>1, <1>2 DEF Phone!Shows, Phone!MayBegin

LEMMA PhoneHides ==
  ASSUME PhoneInv, Phone!Hides
  PROVE  PhoneInv'
BY DEF Phone!Hides, PhoneInv, Phone!TypeOK, Phone!NoLockIsLost, Runs, Phone!UnderWay

LEMMA PhoneEnds ==
  ASSUME PhoneInv, Phone!Ends
  PROVE  PhoneInv'
<1>1. \A q \in WakeRun : /\ asks'[q].previous = asks[q].previous
                         /\ asks'[q].at = asks[q].at
                         /\ asks'[q] = Phone!Idle \/ asks'[q].cancelled
  BY DEF Phone!Ends, Phone!Cancelled, Phone!Idle, PhoneInv, Phone!TypeOK
<1>2. Phone!TypeOK'
  BY DEF Phone!Ends, Phone!Cancelled, Phone!Idle, PhoneInv, Phone!TypeOK
<1>3. Runs' = {}
  BY <1>1 DEF Runs, Phone!UnderWay
<1>4. Phone!NoLockIsLost'
  BY <1>1 DEF Phone!Ends, PhoneInv, Phone!NoLockIsLost
<1>5. QED
  BY <1>1, <1>2, <1>3, <1>4 DEF Phone!Ends, PhoneInv

(* A run goes on or ends: what it held before is released or is none.       *)
LEMMA PhoneReleased ==
  ASSUME PhoneInv, NEW q \in WakeRun, Phone!Released(q)
  PROVE  PhoneInv'
<1> DEFINE r == [asks[q] EXCEPT !.at = "asked", !.previous = None]
<1>1. /\ asks' = [asks EXCEPT ![q] = r] /\ held' = held \ {asks[q].previous}
      /\ UNCHANGED <<wanted, visible, ref, doubled>>
  BY DEF Phone!Released, PhoneInv, Phone!TypeOK
<1>0. asks[q] \in [at : {"idle", "releasing", "asked"}, cancelled : BOOLEAN,
                     previous : Lock \cup {None}]
  BY DEF PhoneInv, Phone!TypeOK
<1>2. /\ r.at = "asked" /\ r.previous = None /\ r.cancelled = asks[q].cancelled
      /\ r \in [at : {"idle", "releasing", "asked"}, cancelled : BOOLEAN, previous : Lock \cup {None}]
  BY <1>0
<1>3. asks[q] # Phone!Idle
  BY DEF Phone!Released, Phone!Idle
<1> HIDE DEF r
<1>4. Phone!TypeOK'
  BY <1>1, <1>2 DEF PhoneInv, Phone!TypeOK
<1>5. asks'[q] = r /\ \A p \in WakeRun \ {q} : asks'[p] = asks[p]
  BY <1>1 DEF PhoneInv, Phone!TypeOK
<1>6. Runs' \subseteq Runs
  BY <1>2, <1>3, <1>5 DEF Runs, Phone!UnderWay
<1>7. Phone!NoLockIsLost'
  BY <1>1, <1>5 DEF PhoneInv, Phone!NoLockIsLost
<1>8. QED
  BY <1>1, <1>2, <1>4, <1>5, <1>6, <1>7 DEF PhoneInv

LEMMA PhoneAnswered ==
  ASSUME PhoneInv, NEW q \in WakeRun, Phone!Granted(q) \/ Phone!Refused(q)
  PROVE  PhoneInv'
<1>1. asks' = [asks EXCEPT ![q] = Phone!Idle] /\ UNCHANGED <<wanted, visible, doubled>>
  BY DEF Phone!Granted, Phone!Refused
<1>2. asks[q].at = "asked" /\ asks[q].previous = None
  BY DEF Phone!Granted, Phone!Refused, PhoneInv
<1>3. Phone!Idle.previous = None /\ Phone!Idle.at = "idle"
  BY DEF Phone!Idle
<1>4. asks' \in [WakeRun -> [at : {"idle", "releasing", "asked"}, cancelled : BOOLEAN,
                            previous : Lock \cup {None}]]
  BY <1>1 DEF PhoneInv, Phone!TypeOK, Phone!Idle
<1>5. asks'[q] = Phone!Idle /\ \A p \in WakeRun \ {q} : asks'[p] = asks[p]
  BY <1>1 DEF PhoneInv, Phone!TypeOK
<1>6. Runs' \subseteq Runs \ {q}
  BY <1>5 DEF Runs, Phone!UnderWay
<1>7. Previous(asks') = Previous(asks)
  BY <1>2, <1>3, <1>5 DEF Previous
<1>8. \A p \in WakeRun : asks'[p].at = "asked" => asks'[p].previous = None
  BY <1>3, <1>5 DEF PhoneInv
<1>9. CASE UNCHANGED <<ref, held>>
  <2>1. Phone!NoLockIsLost'
    BY <1>1, <1>7, <1>9 DEF PhoneInv, Phone!NoLockIsLost, Previous
  <2>2. QED
    BY <1>1, <1>4, <1>6, <1>8, <1>9, <2>1 DEF PhoneInv, Phone!TypeOK
<1>10. CASE ~UNCHANGED <<ref, held>>
  <2>1. ~asks[q].cancelled
    BY <1>10 DEF Phone!Granted, Phone!Refused
  <2>2. PICK lock \in Lock : ref' = lock /\ held' = held \cup {lock}
    BY <1>10, <2>1 DEF Phone!Granted, Phone!Refused
  <2>3. q \in Runs
    BY <1>2, <1>3, <2>1 DEF Runs, Phone!UnderWay
  <2>4. wanted = TRUE /\ (~doubled => ref = None /\ Runs = {q})
    BY <2>3 DEF PhoneInv, Phone!TypeOK
  <2>5. ~doubled => held \subseteq Previous(asks)
    BY <1>2, <2>4 DEF PhoneInv, Phone!NoLockIsLost, Previous
  <2>6. Phone!NoLockIsLost'
    BY <1>1, <1>7, <2>2, <2>4, <2>5 DEF Phone!NoLockIsLost, Previous
  <2>7. Phone!TypeOK'
    BY <1>1, <1>4, <2>2 DEF PhoneInv, Phone!TypeOK
  <2>8. QED
    BY <1>1, <1>6, <1>8, <2>4, <2>6, <2>7 DEF PhoneInv
<1>11. QED
  BY <1>9, <1>10

LEMMA PhoneStep == PhoneInv /\ [Phone!Next]_Phone!vars => PhoneInv'
<1>1. ASSUME PhoneInv, UNCHANGED Phone!vars
      PROVE  PhoneInv'
  BY <1>1 DEF Phone!vars, PhoneInv, Phone!TypeOK, Phone!NoLockIsLost, Runs, Phone!UnderWay
<1>2. QED
  BY <1>1, PhoneStarts, PhoneEnds, PhoneHides, PhoneShows, PhoneReleased, PhoneAnswered DEF Phone!Next

LEMMA PhoneSafe == PhoneInv => Phone!NoLockIsLost
BY DEF PhoneInv

(* The screen is not kept on by a lock that nothing gives back, however many *)
(* runs wait at once, unless two of one effect overlapped (requestWakeLock). *)
THEOREM ScreenIsLetGo == Phone!Spec => []Phone!NoLockIsLost
BY PhoneSafe, PhoneInit, PhoneStep, PTL DEF Phone!Spec

-----------------------------------------------------------------------------
(* The translators' credentials.  A sign-in compares with the row it has     *)
(* read, so what it knows of the language is that row unless it is late, and  *)
(* a row names a secret that was given out for its language.                 *)

MaybeExpiry == Links!Expiry \cup {None}
Credential  == [secret : Links!Secret, expires : MaybeExpiry]
SignIn      == [phase : {"digest", "session"}, lang : Language, secret : Links!Secret,
                read : Credential, late : BOOLEAN]
DialogRow   == [lang : Language \cup {None}, link : Links!Secret \cup {None}, busy : BOOLEAN,
                notice : BOOLEAN]

Given(l, n) == n <= lastSecret /\ owner[n] = l

Informed(t) ==
    /\ Given(t.lang, t.read.secret)
    /\ ~t.late => t.read = row[t.lang]
    /\ t.phase = "session" => t.secret = t.read.secret

LinksServer ==
    /\ clock \in 0 .. MaxTime /\ lastSecret \in 0 .. MaxSecret
    /\ owner \in [Links!Secret -> Language \cup {None}]
    /\ row \in [Language -> Credential]
    /\ signedIn \subseteq [lang : Language, secret : Links!Secret, late : BOOLEAN]
    /\ signIns \in [LinkCall -> SignIn \cup {Links!Idle}]
    /\ \A l \in Language : Given(l, row[l].secret)
    /\ \A c \in LinkCall : signIns[c] # Links!Idle => Informed(signIns[c])
    /\ Links!ReplacedIsOut

LinksConsole ==
    /\ dialog \in DialogRow
    /\ request \in RequestRow \cup {None}
    /\ request # None /\ request.op = "generate" => request.hours \in Hours
    /\ detail \in [Language -> MaybeExpiry]
    /\ Links!BusyIsWaiting

LinksInv == LinksServer /\ LinksConsole

(* At first every language has a secret of its own.                         *)
OwnSecrets == [Language -> 1 .. Cardinality(Language)]
Apart(f)   == \A l, m \in Language : f[l] = f[m] => l = m

LEMMA SecretsGiven ==
  ASSUME LinksFit, NEW f, f = CHOOSE h \in OwnSecrets : Apart(h)
  PROVE  /\ f \in OwnSecrets /\ Apart(f)
         /\ \A n \in 1 .. Cardinality(Language) : \E l \in Language : f[l] = n
<1> DEFINE k == Cardinality(Language)
<1>1. k \in Nat /\ ExistsBijection(1 .. k, Language)
  BY FS_CardinalityType DEF LinksFit
<1>2. ExistsBijection(Language, 1 .. k)
  BY <1>1, Fun_ExistsBijSymmetric
<1>3. PICK g \in Bijection(Language, 1 .. k) : TRUE
  BY <1>2 DEF ExistsBijection
<1>4. g \in OwnSecrets /\ Apart(g)
  BY <1>3 DEF Bijection, Injection, IsInjective, OwnSecrets, Apart
<1>5. f \in OwnSecrets /\ Apart(f)
  BY <1>4
<1>6. f \in Injection(Language, 1 .. k)
  BY <1>5 DEF Injection, IsInjective, OwnSecrets, Apart
<1>7. IsFiniteSet(1 .. k) /\ Cardinality(1 .. k) = k
  BY <1>1, FS_Interval
<1>8. f \in Surjection(Language, 1 .. k)
  BY <1>6, <1>7, FS_Injection
<1>9. QED
  BY <1>5, <1>8 DEF Surjection

LEMMA LinksInit == ASSUME LinksFit PROVE Links!Init => LinksInv
<1> SUFFICES ASSUME Links!Init
             PROVE  LinksInv
  OBVIOUS
<1> DEFINE f == CHOOSE h \in OwnSecrets : Apart(h)
<1>1. lastSecret = Cardinality(Language)
  BY DEF Links!Init, Links!Cardinality, Cardinality, Links!IsFiniteSet, IsFiniteSet
<1>2. f = CHOOSE h \in [Language -> 1 .. lastSecret] : \A l, m \in Language : h[l] = h[m] => l = m
  BY <1>1 DEF OwnSecrets, Apart
<1> DEFINE h == CHOOSE h \in [Language -> 1 .. lastSecret] : \A l, m \in Language : h[l] = h[m] => l = m
<1>3. /\ row = [l \in Language |-> Links!Unexpiring(h[l])]
      /\ owner = [n \in Links!Secret |-> IF n > lastSecret THEN None
                                         ELSE CHOOSE l \in Language : h[l] = n]
  BY DEF Links!Init
<1>4. h = f
  BY <1>2
<1> HIDE DEF f, h
<1>5. /\ f \in [Language -> 1 .. lastSecret] /\ \A l, m \in Language : f[l] = f[m] => l = m
      /\ \A n \in 1 .. lastSecret : \E l \in Language : f[l] = n
  BY <1>1, SecretsGiven DEF f, OwnSecrets, Apart
<1>6. lastSecret \in 0 .. MaxSecret /\ 1 .. lastSecret \subseteq Links!Secret
  BY <1>1, FS_CardinalityType DEF LinksFit, Links!Secret
<1>7. /\ row \in [Language -> Credential]
      /\ \A l \in Language : row[l].secret = f[l]
  BY <1>3, <1>4, <1>5, <1>6 DEF Links!Unexpiring, Credential, MaybeExpiry
<1>8. ASSUME NEW n \in Links!Secret
      PROVE  /\ owner[n] \in Language \cup {None}
             /\ n <= lastSecret => owner[n] \in Language /\ f[owner[n]] = n
  <2>1. owner[n] = IF n > lastSecret THEN None ELSE CHOOSE l \in Language : f[l] = n
    BY <1>3, <1>4
  <2>2. n <= lastSecret => n \in 1 .. lastSecret
    BY <1>6 DEF Links!Secret
  <2>3. CASE n <= lastSecret
    BY <1>5, <1>6, <2>1, <2>2, <2>3 DEF Links!Secret
  <2>4. CASE ~(n <= lastSecret)
    BY <1>6, <2>1, <2>4 DEF Links!Secret
  <2>5. QED
    BY <2>3, <2>4
<1>9. owner \in [Links!Secret -> Language \cup {None}]
  BY <1>3, <1>8
<1>10. \A l \in Language : Given(l, row[l].secret)
  BY <1>5, <1>6, <1>7, <1>8 DEF Given
<1>11. LinksServer
  <2>1. clock \in 0 .. MaxTime /\ signedIn = {}
    BY DEF Links!Init, LinksFit
  <2>2. \A c \in LinkCall : signIns[c] = Links!Idle
    BY DEF Links!Init
  <2>3. signIns \in [LinkCall -> SignIn \cup {Links!Idle}]
    BY DEF Links!Init
  <2>4. QED
    BY <1>6, <1>7, <1>9, <1>10, <2>1, <2>2, <2>3 DEF LinksServer, Links!ReplacedIsOut
<1>12. LinksConsole
  BY DEF Links!Init, LinksConsole, Links!Closed, DialogRow, MaybeExpiry, Links!BusyIsWaiting
<1>13. QED
  BY <1>11, <1>12 DEF LinksInv

LEMMA LinksReplaces ==
  ASSUME LinksFit, LinksServer, NEW l \in Language, NEW e \in MaybeExpiry, Links!Replaces(l, e)
  PROVE  LinksServer'
<1> DEFINE n == lastSecret + 1
<1>1. /\ n \in Links!Secret /\ n \in 0 .. MaxSecret /\ lastSecret' = n /\ clock' = clock
      /\ owner' = [owner EXCEPT ![n] = l]
      /\ row' = [row EXCEPT ![l] = [secret |-> n, expires |-> e]]
      /\ signedIn' = {x \in signedIn : x.lang # l}
      /\ signIns' = Links!Overtaken(l)
  BY DEF Links!Replaces, Links!Remaining, Links!Secret, LinksServer, LinksFit
<1>2. owner' \in [Links!Secret -> Language \cup {None}]
  BY <1>1 DEF LinksServer
<1>3. /\ row' \in [Language -> Credential]
      /\ row'[l].secret = n /\ \A m \in Language \ {l} : row'[m] = row[m]
  BY <1>1 DEF LinksServer, Credential
<1>4. owner'[n] = l /\ \A x \in Links!Secret : x <= lastSecret => owner'[x] = owner[x]
  BY <1>1 DEF LinksServer, Links!Secret
<1>5. \A m \in Language, x \in Links!Secret : Given(m, x) => Given(m, x)'
  BY <1>1, <1>4 DEF Given, LinksServer, Links!Secret
<1>6. \A m \in Language : Given(m, row[m].secret)'
  BY <1>1, <1>3, <1>4, <1>5 DEF LinksServer, Credential, Given, Links!Secret
<1>7. ASSUME NEW c \in LinkCall
      PROVE  /\ signIns'[c] \in SignIn \cup {Links!Idle}
             /\ signIns'[c] # Links!Idle => Informed(signIns[c])'
  <2>1. signIns'[c] = IF signIns[c] # Links!Idle /\ signIns[c].lang = l
                    THEN [signIns[c] EXCEPT !.late = TRUE] ELSE signIns[c]
    BY <1>1 DEF Links!Overtaken
  <2>2. CASE signIns[c] = Links!Idle
    BY <2>1, <2>2
  <2>3. CASE signIns[c] # Links!Idle
    <3>1. signIns[c] \in SignIn /\ Informed(signIns[c])
      BY <2>3 DEF LinksServer
    <3> DEFINE t == signIns[c]
               u == signIns'[c]
    <3>2. /\ u \in SignIn /\ u.phase = t.phase /\ u.lang = t.lang /\ u.secret = t.secret
          /\ u.read = t.read /\ u.late = (t.late \/ t.lang = l)
      BY <2>1, <2>3, <3>1 DEF SignIn
    <3>3. t.read.secret \in Links!Secret /\ t.lang \in Language
      BY <3>1 DEF SignIn, Credential
    <3>4. Informed(signIns[c])'
      BY <1>3, <1>5, <3>1, <3>2, <3>3 DEF Informed
    <3>5. QED
      BY <3>2, <3>4
  <2>4. QED
    BY <2>2, <2>3
<1>8. signIns' \in [LinkCall -> SignIn \cup {Links!Idle}]
  BY <1>1, <1>7 DEF Links!Overtaken
<1>9. Links!ReplacedIsOut'
  BY <1>1, <1>3 DEF LinksServer, Links!ReplacedIsOut
<1>10. QED
  BY <1>1, <1>2, <1>3, <1>6, <1>7, <1>8, <1>9 DEF LinksServer

LEMMA LinksServerStays ==
  ASSUME LinksServer, UNCHANGED <<Links!server, signIns>>
  PROVE  LinksServer'
BY DEF Links!server, LinksServer, Given, Informed, Links!ReplacedIsOut

LEMMA LinksConsoleStays ==
  ASSUME LinksConsole, UNCHANGED Links!console
  PROVE  LinksConsole'
BY DEF Links!console, LinksConsole, Links!BusyIsWaiting

(* One sign-in goes on; the signedIn are those there were, or one more that *)
(* was earned with the language's secret.                                   *)
LEMMA LinksCallStep ==
  ASSUME LinksServer, NEW c \in LinkCall, NEW t \in SignIn \cup {Links!Idle},
         signIns' = [signIns EXCEPT ![c] = t], t # Links!Idle => Informed(t),
         UNCHANGED <<clock, lastSecret, owner, row>>,
         signedIn' \subseteq [lang : Language, secret : Links!Secret, late : BOOLEAN],
         \A x \in signedIn' \ signedIn : ~x.late => x.secret = row[x.lang].secret
  PROVE  LinksServer'
<1>1. signIns' \in [LinkCall -> SignIn \cup {Links!Idle}]
  BY DEF LinksServer
<1>2. signIns'[c] = t /\ \A d \in LinkCall \ {c} : signIns'[d] = signIns[d]
  BY DEF LinksServer
<1>3. \A d \in LinkCall : signIns'[d] # Links!Idle => Informed(signIns'[d])
  BY <1>2 DEF LinksServer
<1>4. \A d \in LinkCall : signIns'[d] # Links!Idle => Informed(signIns[d])'
  BY <1>3 DEF Informed, Given
<1>5. Links!ReplacedIsOut'
  BY DEF LinksServer, Links!ReplacedIsOut
<1>6. QED
  BY <1>1, <1>4, <1>5 DEF LinksServer, Given

LEMMA LinksCalls ==
  ASSUME LinksFit, LinksServer, NEW c \in LinkCall,
         Links!LoginReads(c) \/ Links!LoginVerifies(c) \/ Links!LoginEnds(c)
  PROVE  LinksServer'
<1>1. CASE Links!LoginReads(c)
  <2>1. PICK l \in Language, n \in 1 .. lastSecret :
          signIns' = [signIns EXCEPT ![c] = [phase |-> "digest", lang |-> l, secret |-> n,
                                         read |-> row[l], late |-> FALSE]]
    BY <1>1 DEF Links!LoginReads
  <2> DEFINE t == [phase |-> "digest", lang |-> l, secret |-> n, read |-> row[l], late |-> FALSE]
  <2>2. n \in Links!Secret /\ row[l] \in Credential
    BY <2>1 DEF LinksServer, LinksFit, Links!Secret
  <2>3. t \in SignIn /\ Informed(t)
    BY <2>2 DEF SignIn, Informed, LinksServer
  <2> HIDE DEF t
  <2>4. signIns' = [signIns EXCEPT ![c] = t]
    BY <2>1 DEF t
  <2>5. UNCHANGED <<clock, lastSecret, owner, row, signedIn>>
    BY <1>1 DEF Links!LoginReads, Links!server
  <2>6. QED
    BY <2>3, <2>4, <2>5, LinksCallStep DEF LinksServer
<1>2. CASE Links!LoginVerifies(c)
  <2>1. signIns[c].phase = "digest" /\ UNCHANGED <<clock, lastSecret, owner, row, signedIn>>
    BY <1>2 DEF Links!LoginVerifies, Links!server
  <2>2. signIns[c] \in SignIn /\ Informed(signIns[c])
    BY <2>1 DEF LinksServer, Links!Idle
  <2>3. CASE Links!Accepts(signIns[c].read, signIns[c].secret)
    <3> DEFINE t == [signIns[c] EXCEPT !.phase = "session"]
    <3>1. signIns' = [signIns EXCEPT ![c] = t]
      BY <1>2, <2>3 DEF Links!LoginVerifies
    <3>2. /\ t \in SignIn /\ t.lang = signIns[c].lang /\ t.secret = signIns[c].secret
          /\ t.read = signIns[c].read /\ t.late = signIns[c].late
      BY <2>2 DEF SignIn
    <3>3. Informed(t)
      BY <2>2, <2>3, <3>2 DEF Informed, Links!Accepts
    <3> HIDE DEF t
    <3>4. QED
      BY <2>1, <3>1, <3>2, <3>3, LinksCallStep DEF LinksServer
  <2>4. CASE ~Links!Accepts(signIns[c].read, signIns[c].secret)
    <3>1. signIns' = [signIns EXCEPT ![c] = Links!Idle]
      BY <1>2, <2>4 DEF Links!LoginVerifies
    <3>2. QED
      BY <2>1, <3>1, LinksCallStep DEF LinksServer
  <2>5. QED
    BY <2>3, <2>4
<1>3. CASE Links!LoginEnds(c)
  <2> DEFINE t == signIns[c]
             x == [lang |-> t.lang, secret |-> t.secret, late |-> t.late]
  <2>1. /\ t.phase = "session" /\ signedIn' = signedIn \cup {x}
        /\ signIns' = [signIns EXCEPT ![c] = Links!Idle] /\ UNCHANGED <<clock, lastSecret, owner, row>>
    BY <1>3 DEF Links!LoginEnds
  <2>2. t \in SignIn /\ Informed(t)
    BY <2>1 DEF LinksServer, Links!Idle
  <2>3. x \in [lang : Language, secret : Links!Secret, late : BOOLEAN]
    BY <2>2 DEF SignIn
  <2>4. ~x.late => x.secret = row[x.lang].secret
    BY <2>1, <2>2 DEF Informed
  <2> HIDE DEF x
  <2>5. QED
    BY <2>1, <2>3, <2>4, LinksCallStep DEF LinksServer
<1>4. QED
  BY <1>1, <1>2, <1>3

LEMMA LinksSessionEnds ==
  ASSUME LinksServer, NEW x \in signedIn, Links!SessionEnds(x)
  PROVE  LinksServer'
BY DEF Links!SessionEnds, LinksServer, Given, Informed, Links!ReplacedIsOut

LEMMA LinksTick ==
  ASSUME LinksFit, LinksServer, Links!Tick
  PROVE  LinksServer'
<1>1. clock' \in 0 .. MaxTime
  BY DEF Links!Tick, LinksServer, LinksFit
<1>2. QED
  BY <1>1 DEF Links!Tick, LinksServer, Given, Informed, Links!ReplacedIsOut

LEMMA LinksReplacements ==
  ASSUME LinksFit, LinksServer, NEW l \in Language,
         \/ \E h \in Hours : Links!IssueAccess(l, h)
         \/ Links!RevokeAccess(l)
         \/ Links!ResetPassword(l)
  PROVE  LinksServer'
<1>1. \A h \in Hours : clock + h \in MaybeExpiry
  BY DEF LinksServer, LinksFit, MaybeExpiry, Links!Expiry
<1>2. clock \in MaybeExpiry /\ None \in MaybeExpiry
  BY DEF LinksServer, LinksFit, MaybeExpiry, Links!Expiry
<1>3. QED
  BY <1>1, <1>2, LinksReplaces DEF Links!IssueAccess, Links!RevokeAccess, Links!ResetPassword

(* The dialog: the buttons are busy exactly while a request is under way.   *)
LEMMA LinksDialog ==
  ASSUME LinksConsole, NEW l \in Language, Links!Opens(l)
  PROVE  LinksConsole'
BY DEF Links!Opens, Links!Closed, LinksConsole, DialogRow, Links!BusyIsWaiting

LEMMA LinksCloses ==
  ASSUME LinksConsole, Links!Closes
  PROVE  LinksConsole'
BY DEF Links!Closes, Links!Closed, LinksConsole, DialogRow, Links!BusyIsWaiting

LEMMA LinksPresses ==
  ASSUME LinksFit, LinksConsole, Links!PressGenerate \/ Links!PressRevoke
  PROVE  LinksConsole'
<1>1. dialog.lang \in Language /\ UNCHANGED detail
  BY DEF Links!PressGenerate, Links!PressRevoke, Links!Sends, LinksConsole, DialogRow
<1>2. dialog' \in DialogRow /\ dialog'.busy
  BY DEF Links!PressGenerate, Links!PressRevoke, LinksConsole, DialogRow
<1>3. PICK op \in {"generate", "revoke"}, h \in Hours \cup {None} :
        /\ op = "generate" => h \in Hours
        /\ Links!Sends(op, h)
  BY DEF Links!PressGenerate, Links!PressRevoke
<1>4. request' = [op |-> op, lang |-> dialog.lang, hours |-> h, ans |-> None, secret |-> None]
  BY <1>3 DEF Links!Sends
<1>5. request' \in RequestRow /\ (request'.op = "generate" => request'.hours \in Hours)
  BY <1>1, <1>3, <1>4 DEF RequestRow
<1>6. QED
  BY <1>1, <1>2, <1>5 DEF LinksFit, LinksConsole, Links!BusyIsWaiting

(* The request gets another answer, and the dialog stays busy.              *)
LEMMA LinksAnswerStep ==
  ASSUME LinksFit, LinksConsole, request \in RequestRow, UNCHANGED detail,
         dialog' \in DialogRow, dialog'.busy = dialog.busy,
         request' \in RequestRow, request'.op = request.op, request'.hours = request.hours
  PROVE  LinksConsole'
BY DEF LinksFit, LinksConsole, Links!BusyIsWaiting

LEMMA LinksServes ==
  ASSUME LinksFit, LinksInv, Links!ServeGenerate \/ Links!ServeRevoke
  PROVE  LinksInv'
<1>1. request \in RequestRow /\ (request.op = "generate" => request.hours \in Hours)
  BY DEF Links!ServeGenerate, Links!ServeRevoke, Links!UnderWay, LinksInv, LinksConsole
<1>2. request.lang \in Language
  BY <1>1 DEF RequestRow
<1>3. LinksServer'
  BY <1>1, <1>2, LinksReplacements DEF Links!ServeGenerate, Links!ServeRevoke, LinksInv
<1>4. lastSecret + 1 \in Links!Secret \/ Links!ServeRevoke
  BY DEF Links!ServeGenerate, Links!IssueAccess, Links!Replaces, Links!Secret, LinksInv, LinksServer,
         LinksFit
<1>5. /\ request' \in RequestRow /\ request'.op = request.op
      /\ request'.hours = request.hours
  BY <1>1, <1>4 DEF Links!ServeGenerate, Links!ServeRevoke, RequestRow
<1>6. LinksConsole'
  BY <1>1, <1>5, LinksAnswerStep DEF Links!ServeGenerate, Links!ServeRevoke, LinksInv, LinksConsole
<1>7. QED
  BY <1>3, <1>6 DEF LinksInv

LEMMA LinksRequestFails ==
  ASSUME LinksFit, LinksConsole, Links!RequestFails
  PROVE  LinksConsole'
<1>1. request \in RequestRow
  BY DEF Links!RequestFails, LinksConsole
<1>2. /\ request' \in RequestRow /\ request'.op = request.op
      /\ request'.hours = request.hours
  BY <1>1 DEF Links!RequestFails, RequestRow
<1>3. QED
  BY <1>1, <1>2, LinksAnswerStep DEF Links!RequestFails, LinksConsole

LEMMA LinksAnswered ==
  ASSUME LinksFit, LinksConsole, Links!Answered
  PROVE  LinksConsole'
<1>1. request \in RequestRow
  BY DEF Links!Answered, Links!UnderWay, LinksConsole
<1>2. /\ request' \in RequestRow /\ request'.op = request.op
      /\ request'.hours = request.hours
  BY <1>1 DEF Links!Answered, RequestRow
<1>3. request.secret \in Links!Secret \cup {None}
  BY <1>1 DEF RequestRow
<1>4. dialog' \in DialogRow /\ dialog'.busy = dialog.busy
  BY <1>3 DEF Links!Answered, LinksConsole, DialogRow
<1>5. QED
  BY <1>1, <1>2, <1>4, LinksAnswerStep DEF Links!Answered

LEMMA LinksLoads ==
  ASSUME LinksServer
  PROVE  [l \in Language |-> row[l].expires] \in [Language -> MaybeExpiry]
BY DEF LinksServer, Credential

LEMMA LinksEnds ==
  ASSUME LinksInv, Links!Refreshed \/ Links!AnswerFails
  PROVE  LinksConsole'
<1>1. request' = None /\ dialog' = [dialog EXCEPT !.busy = FALSE]
  BY DEF Links!Refreshed, Links!AnswerFails
<1>2. dialog' \in DialogRow /\ dialog'.busy = FALSE
  BY <1>1 DEF LinksInv, LinksConsole, DialogRow
<1>3. detail' \in [Language -> MaybeExpiry]
  BY LinksLoads DEF Links!Refreshed, Links!AnswerFails, LinksInv, LinksConsole
<1>4. QED
  BY <1>1, <1>2, <1>3 DEF LinksConsole, Links!BusyIsWaiting

LEMMA LinksLoadsDetail ==
  ASSUME LinksInv, Links!LoadsDetail
  PROVE  LinksConsole'
BY LinksLoads DEF Links!LoadsDetail, LinksInv, LinksConsole, Links!BusyIsWaiting

LEMMA LinksStep == ASSUME LinksFit PROVE LinksInv /\ [Links!Next]_Links!vars => LinksInv'
<1> SUFFICES ASSUME LinksInv, [Links!Next]_Links!vars
             PROVE  LinksInv'
  OBVIOUS
<1> USE DEF LinksInv
<1>1. CASE UNCHANGED Links!vars
  BY <1>1, LinksServerStays, LinksConsoleStays DEF Links!vars
<1>2. ASSUME NEW c \in LinkCall, Links!LoginReads(c) \/ Links!LoginVerifies(c) \/ Links!LoginEnds(c)
      PROVE  LinksInv'
  <2>1. UNCHANGED Links!console
    BY <1>2 DEF Links!LoginReads, Links!LoginVerifies, Links!LoginEnds
  <2>2. QED
    BY <1>2, <2>1, LinksCalls, LinksConsoleStays
<1>3. ASSUME NEW x \in signedIn, Links!SessionEnds(x)
      PROVE  LinksInv'
  BY <1>3, LinksSessionEnds, LinksConsoleStays DEF Links!SessionEnds
<1>4. ASSUME NEW l \in Language, Links!OtherReplaces(l)
      PROVE  LinksInv'
  BY <1>4, LinksReplacements, LinksConsoleStays DEF Links!OtherReplaces
<1>5. CASE Links!Tick
  BY <1>5, LinksTick, LinksConsoleStays DEF Links!Tick
<1>6. CASE Links!ServeGenerate \/ Links!ServeRevoke
  BY <1>6, LinksServes
<1>7. ASSUME \/ \E l \in Language : Links!Opens(l)
             \/ Links!Closes \/ Links!PressGenerate \/ Links!PressRevoke \/ Links!RequestFails
             \/ Links!Answered \/ Links!Refreshed \/ Links!AnswerFails \/ Links!LoadsDetail
      PROVE  LinksInv'
  <2>1. UNCHANGED <<Links!server, signIns>>
    BY <1>7 DEF Links!Opens, Links!Closes, Links!PressGenerate, Links!PressRevoke,
                Links!RequestFails, Links!Answered, Links!Refreshed, Links!AnswerFails,
                Links!LoadsDetail
  <2>2. LinksConsole'
    BY <1>7, LinksDialog, LinksCloses, LinksPresses, LinksRequestFails, LinksAnswered, LinksEnds,
       LinksLoadsDetail
  <2>3. QED
    BY <2>1, <2>2, LinksServerStays
<1>8. QED
  BY <1>1, <1>2, <1>3, <1>4, <1>5, <1>6, <1>7 DEF Links!Next

LEMMA LinksSafe == LinksInv => Links!AccessIsCurrent
<1>1. LinksInv => Links!LetInWithLink
  <2> SUFFICES ASSUME LinksInv, NEW c \in LinkCall, signIns[c] # Links!Idle, signIns[c].phase = "session"
               PROVE  /\ owner[signIns[c].secret] = signIns[c].lang
                      /\ ~signIns[c].late => signIns[c].secret = row[signIns[c].lang].secret
    BY DEF Links!LetInWithLink
  <2>1. Informed(signIns[c])
    BY DEF LinksInv, LinksServer
  <2>2. QED
    BY <2>1 DEF Informed, Given
<1>2. QED
  BY <1>1 DEF LinksInv, LinksServer, LinksConsole, Links!AccessIsCurrent

(* Whoever is signed in, or about to be, has shown the secret that the       *)
(* language has now, unless the sign-in had read the row before it was       *)
(* replaced; and the dialog is busy exactly while its request is under way.  *)
THEOREM CredentialIsCurrent == ASSUME LinksFit PROVE Links!Spec => []Links!AccessIsCurrent
BY LinksSafe, LinksInit, LinksStep, PTL DEF Links!Spec

-----------------------------------------------------------------------------
(* The approver's page.  Nothing else runs while the page is loaded, a        *)
(* sign-in is awaited only by a page that shows the form, and a sign-out is   *)
(* heard only by a page that still waits for it.  An approval that the        *)
(* server has granted is a claim more that was admitted, until the page has   *)
(* counted it.                                                               *)

Answer == Said \cup {None}

HandlerRow ==
    [op : {"idle", "load", "login", "logout", "scan", "link", "manual"},
     at : {"none", "program", "session", "login", "logout", "approve"},
     claim : Claim \cup {None}, sent : Nat, ans : Answer, count : Nat, alive : BOOLEAN]

ScannerRow ==
    [auth : {"checking", "loggedOut", "loggedIn", "loggingOut", "programMissing", "programExpired"},
     count : Nat, login : BOOLEAN, manual : BOOLEAN, code : Claim \cup {None}, link : Claim \cup {None}]

HandlerOK(t) ==
    /\ t.op = "idle" => t = Scanner!Idle
    /\ t.op = "load" => t.at \in {"program", "session"}
    /\ t.op = "login" => t.at \in {"login", "session"}
    /\ t.op = "logout" => t.at = "logout"
    /\ t.op \in Scanner!Approval => t.at = "approve" /\ t.claim \in Claim
    /\ t.op \notin {"idle", "logout"} => t.alive

ScannerTyped ==
    /\ lastSession \in Nat /\ cookie \in Nat /\ straddled \in BOOLEAN
    /\ page \in ScannerRow
    /\ task \in [Slot -> HandlerRow]
    /\ \A s \in Slot : HandlerOK(task[s])

(* What was pending has not been admitted, what is approved has been.       *)
ClaimsOK ==
    /\ status \in [Claim -> {"pending", "approved", "revoked"}]
    /\ admitted \subseteq Claim
    /\ \A c \in Claim : /\ status[c] = "pending" => c \notin admitted
                        /\ status[c] = "approved" => c \in admitted

Waits(s, op)    == task[s].op = op /\ task[s].alive
SomeWaits(op)   == \E s \in Slot : Waits(s, op)
AtMostOne(op)   == \A s1, s2 \in Slot : Waits(s1, op) /\ Waits(s2, op) => s1 = s2

Waiting ==
    /\ \A op \in {"load", "login", "logout", "manual"} : AtMostOne(op)
    /\ page.auth = "checking" <=> SomeWaits("load")
    /\ page.auth = "checking" => \A s \in Slot : task[s].op \in {"idle", "load"}
    /\ page.auth = "loggingOut" <=> SomeWaits("logout")
    /\ page.login <=> SomeWaits("login")
    /\ page.login => page.auth = "loggedOut"
    /\ page.manual <=> SomeWaits("manual")

Granted(tk) == {s \in Slot : tk[s].op \in Scanner!Approval /\ tk[s].ans = "ok"}

Counted ==
    /\ \A s \in Slot : task[s].count <= Cardinality(admitted)
    /\ ~straddled => page.count + Cardinality(Granted(task)) <= Cardinality(admitted)

ScannerInv == ScannerTyped /\ ClaimsOK /\ Waiting /\ Counted

SlotStep(s, u) ==
    /\ task' \in [Slot -> HandlerRow]
    /\ task'[s] = u /\ \A x \in Slot \ {s} : task'[x] = task[x]

LEMMA Sizes ==
  ASSUME ScannerFit, ClaimsOK
  PROVE  /\ IsFiniteSet(admitted) /\ Cardinality(admitted) \in Nat
         /\ \A tk : IsFiniteSet(Granted(tk)) /\ Cardinality(Granted(tk)) \in Nat
<1>1. \A tk : Granted(tk) \subseteq Slot
  BY DEF Granted
<1>2. QED
  BY <1>1, FS_Subset, FS_CardinalityType DEF ScannerFit, ClaimsOK

LEMMA Smaller ==
  ASSUME NEW S, NEW T, IsFiniteSet(T), S \subseteq T
  PROVE  Cardinality(S) \in Nat /\ Cardinality(T) \in Nat /\ Cardinality(S) <= Cardinality(T)
BY FS_Subset, FS_CardinalityType

(* The handler of one slot steps to u, which waits for the same.            *)
LEMMA WaitingStays ==
  ASSUME Waiting, NEW s \in Slot, NEW u, SlotStep(s, u),
         u.op = task[s].op, u.alive = task[s].alive,
         page'.auth = page.auth, page'.login = page.login, page'.manual = page.manual
  PROVE  Waiting'
<1>1. /\ \A x \in Slot, op \in {"load", "login", "logout", "manual"} : Waits(x, op)' <=> Waits(x, op)
      /\ \A x \in Slot : task'[x].op = task[x].op
  BY DEF SlotStep, Waits
<1>2. QED
  BY <1>1 DEF Waiting, AtMostOne, SomeWaits

LEMMA TypedStays ==
  ASSUME ScannerTyped, NEW s \in Slot, NEW u \in HandlerRow, HandlerOK(u),
         task' = [task EXCEPT ![s] = u],
         lastSession' \in Nat, cookie' \in Nat, straddled' \in BOOLEAN, page' \in ScannerRow
  PROVE  ScannerTyped' /\ SlotStep(s, u)
<1>1. SlotStep(s, u)
  BY DEF SlotStep, ScannerTyped
<1>2. ScannerTyped'
  BY <1>1 DEF SlotStep, ScannerTyped, HandlerOK, Scanner!Idle, Scanner!Approval
<1>3. QED
  BY <1>1, <1>2

(* Nothing is granted that was not, and nothing more is counted.            *)
LEMMA CountedStays ==
  ASSUME ScannerFit, ScannerTyped, ClaimsOK, ClaimsOK', Counted, page'.count \in Nat,
         admitted \subseteq admitted', Granted(task') \subseteq Granted(task),
         page'.count <= page.count, straddled' = straddled,
         \A x \in Slot : task'[x].count \in Nat /\ task[x].count \in Nat
                         /\ (task'[x].count <= task[x].count \/ task'[x].count <= Cardinality(admitted))
  PROVE  Counted'
<1>1. Cardinality(admitted) \in Nat /\ Cardinality(admitted') \in Nat
      /\ Cardinality(admitted) <= Cardinality(admitted')
  <2>1. IsFiniteSet(admitted')
    BY FS_Subset DEF ScannerFit, ClaimsOK
  <2>2. QED
    BY <2>1, Smaller
<1>2. /\ Cardinality(Granted(task)) \in Nat /\ Cardinality(Granted(task')) \in Nat
      /\ Cardinality(Granted(task')) <= Cardinality(Granted(task))
  BY Sizes, Smaller
<1>3. page.count \in Nat
  BY DEF ScannerTyped, ScannerRow
<1>4. \A x \in Slot : task'[x].count <= Cardinality(admitted')
  BY <1>1 DEF Counted
<1>5. ~straddled' => page'.count + Cardinality(Granted(task')) <= Cardinality(admitted')
  BY <1>1, <1>2, <1>3 DEF Counted
<1>6. QED
  BY <1>4, <1>5 DEF Counted, Granted

(* Steps that no handler takes.                                             *)
LEMMA ScannerQuiet ==
  ASSUME ScannerFit, ScannerInv, UNCHANGED <<task, lastSession, cookie, straddled>>, page' \in ScannerRow,
         page'.auth = page.auth, page'.login = page.login, page'.manual = page.manual,
         page'.count = page.count, ClaimsOK', admitted \subseteq admitted'
  PROVE  ScannerInv'
<1>1. ScannerTyped'
  BY DEF ScannerInv, ScannerTyped
<1>2. Waiting'
  BY DEF ScannerInv, Waiting, AtMostOne, SomeWaits, Waits
<1>3. \A x \in Slot : task[x].count \in Nat
  BY DEF ScannerInv, ScannerTyped, HandlerRow
<1>4. page.count \in Nat
  BY DEF ScannerInv, ScannerTyped, ScannerRow
<1>5. Granted(task') = Granted(task)
  OBVIOUS
<1>6. Counted'
  BY <1>3, <1>4, <1>5, CountedStays DEF ScannerInv
<1>7. QED
  BY <1>1, <1>2, <1>6 DEF ScannerInv

LEMMA ScannerOthers ==
  ASSUME ScannerFit, ScannerInv, NEW c \in Claim,
         \/ Scanner!HashChange(c) \/ Scanner!ChangeManualCode(c) \/ Scanner!DismissDeepLink
         \/ Scanner!ScanEnds(c) \/ Scanner!SessionEnds
  PROVE  ScannerInv'
<1>1. /\ page' \in ScannerRow /\ page'.auth = page.auth /\ page'.login = page.login
      /\ page'.manual = page.manual /\ page'.count = page.count
  BY DEF Scanner!HashChange, Scanner!ChangeManualCode, Scanner!DismissDeepLink, Scanner!ScanEnds,
         Scanner!SessionEnds, ScannerInv, ScannerTyped, ScannerRow
<1>2. UNCHANGED <<status, admitted, task, lastSession, cookie, straddled>>
  BY DEF Scanner!HashChange, Scanner!ChangeManualCode, Scanner!DismissDeepLink, Scanner!ScanEnds,
         Scanner!SessionEnds, Scanner!server
<1>3. ClaimsOK'
  BY <1>2 DEF ScannerInv, ClaimsOK
<1>4. QED
  BY <1>1, <1>2, <1>3, ScannerQuiet

LEMMA ScannerClaims ==
  ASSUME ScannerFit, ScannerInv, NEW c \in Claim, Scanner!OtherApproves(c) \/ Scanner!Revokes(c)
  PROVE  ScannerInv'
<1>1. UNCHANGED <<page, task, lastSession, cookie, straddled>> /\ admitted \subseteq admitted'
  BY DEF Scanner!OtherApproves, Scanner!Revokes
<1>2. ClaimsOK'
  BY DEF Scanner!OtherApproves, Scanner!Revokes, ScannerInv, ClaimsOK
<1>3. QED
  BY <1>1, <1>2, ScannerQuiet DEF ScannerInv, ScannerTyped

(* A handler that waits on: served, failed or at its next request.          *)
LEMMA WaitsOn ==
  ASSUME ScannerFit, ScannerInv, NEW s \in Slot, NEW u \in HandlerRow, HandlerOK(u),
         u.op = task[s].op, u.alive = task[s].alive, task' = [task EXCEPT ![s] = u],
         u.ans = "ok" => u.op \notin Scanner!Approval \/ task[s].ans = "ok",
         u.count <= task[s].count \/ u.count <= Cardinality(admitted),
         UNCHANGED <<status, admitted, page, straddled>>, lastSession' \in Nat, cookie' \in Nat
  PROVE  ScannerInv'
<1>1. ScannerTyped' /\ SlotStep(s, u)
  BY TypedStays DEF ScannerInv, ScannerTyped
<1>2. Waiting'
  BY <1>1, WaitingStays DEF ScannerInv
<1>3. ClaimsOK'
  BY DEF ScannerInv, ClaimsOK
<1>4. Granted(task') \subseteq Granted(task)
  BY <1>1 DEF SlotStep, Granted
<1>5. ASSUME NEW x \in Slot
      PROVE  /\ task'[x].count \in Nat /\ task[x].count \in Nat
             /\ task'[x].count <= task[x].count \/ task'[x].count <= Cardinality(admitted)
  BY <1>1 DEF SlotStep, ScannerInv, ScannerTyped, HandlerRow
<1>6. page'.count \in Nat /\ page'.count <= page.count
  BY DEF ScannerInv, ScannerTyped, ScannerRow
<1>7. Counted'
  BY <1>3, <1>4, <1>5, <1>6, CountedStays DEF ScannerInv
<1>8. QED
  BY <1>1, <1>2, <1>3, <1>7 DEF ScannerInv

LEMMA SameHandler ==
  ASSUME NEW t, NEW u, HandlerOK(t), t.op # "idle", u.op = t.op, u.at = t.at, u.claim = t.claim,
         u.alive = t.alive
  PROVE  HandlerOK(u)
BY DEF HandlerOK

LEMMA HandlerOf ==
  ASSUME ScannerInv, NEW s \in Slot
  PROVE  task[s] \in HandlerRow /\ HandlerOK(task[s]) /\ Scanner!Idle.op = "idle"
         /\ Scanner!Idle.at = "none"
BY DEF ScannerInv, ScannerTyped, Scanner!Idle

LEMMA ScannerFails ==
  ASSUME ScannerFit, ScannerInv, NEW s \in Slot, Scanner!Fails(s)
  PROVE  ScannerInv'
<1> DEFINE u == [task[s] EXCEPT !.ans = "error", !.count = 0]
<1>1. task[s] \in HandlerRow /\ HandlerOK(task[s]) /\ task[s].op # "idle"
  BY HandlerOf DEF Scanner!Fails, HandlerOK
<1>2. /\ u \in HandlerRow /\ u.op = task[s].op /\ u.at = task[s].at /\ u.claim = task[s].claim
      /\ u.alive = task[s].alive /\ u.ans = "error" /\ u.count = 0 /\ task[s].count \in Nat
  BY <1>1 DEF HandlerRow, Answer, Said
<1>3. task' = [task EXCEPT ![s] = u]
  BY DEF Scanner!Fails, ScannerInv, ScannerTyped
<1> HIDE DEF u
<1>4. HandlerOK(u)
  BY <1>1, <1>2, SameHandler
<1>5. UNCHANGED <<status, admitted, lastSession, cookie, page, straddled>>
  BY DEF Scanner!Fails, Scanner!server
<1>6. u.count <= task[s].count /\ u.ans # "ok" /\ lastSession' \in Nat /\ cookie' \in Nat
  BY <1>2, <1>5 DEF ScannerInv, ScannerTyped
<1>7. QED
  BY <1>2, <1>3, <1>4, <1>5, <1>6, WaitsOn

LEMMA ScannerServesRead ==
  ASSUME ScannerFit, ScannerInv, NEW s \in Slot, task[s].ans = None,
         UNCHANGED <<cookie, page, scanned, straddled>>,
         \/ Scanner!ServeProgram(s) \/ Scanner!ServeSession(s)
         \/ Scanner!ServeLogin(s) \/ Scanner!ServeLogout(s)
  PROVE  ScannerInv'
<1>1. task[s] \in HandlerRow /\ HandlerOK(task[s]) /\ task[s].at \in {"program", "session", "login", "logout"}
  BY HandlerOf DEF Scanner!ServeProgram, Scanner!ServeSession, Scanner!ServeLogin, Scanner!ServeLogout
<1>2. task[s].op \in {"load", "login", "logout"}
  BY <1>1, HandlerOf DEF HandlerOK, HandlerRow, Scanner!Approval
<1>3. UNCHANGED <<status, admitted>> /\ lastSession' \in Nat
  BY DEF Scanner!ServeProgram, Scanner!ServeSession, Scanner!ServeLogin, Scanner!ServeLogout,
         Scanner!server, ScannerInv, ScannerTyped
<1>4. Scanner!ApprovedCount \in Nat /\ Scanner!ApprovedCount <= Cardinality(admitted)
  <2> DEFINE A == {c \in Claim : status[c] = "approved"}
  <2>1. A \subseteq admitted
    BY DEF ScannerInv, ClaimsOK
  <2>2. Scanner!ApprovedCount = Cardinality(A)
    BY DEF Scanner!ApprovedCount, Scanner!Cardinality, Cardinality, Scanner!IsFiniteSet, IsFiniteSet
  <2> HIDE DEF A
  <2>3. QED
    BY <2>1, <2>2, Sizes, Smaller DEF ScannerInv
<1>5. ASSUME NEW u \in HandlerRow, u.op = task[s].op, u.at = task[s].at, u.claim = task[s].claim,
             u.alive = task[s].alive, task' = [task EXCEPT ![s] = u],
             u.count <= task[s].count \/ u.count <= Cardinality(admitted)
      PROVE  ScannerInv'
  <2>1. HandlerOK(u)
    BY <1>1, <1>2, <1>5, SameHandler
  <2>2. u.op \notin Scanner!Approval
    BY <1>2, <1>5 DEF Scanner!Approval
  <2>3. QED
    BY <1>3, <1>5, <2>1, <2>2, WaitsOn DEF ScannerInv, ScannerTyped
<1>6. task[s].count \in Nat /\ task[s].sent \in Nat
  BY <1>1 DEF HandlerRow
<1>7. CASE \E ans \in Said : Scanner!Answered(s, ans)
  <2>1. PICK ans \in Said : Scanner!Answered(s, ans)
    BY <1>7
  <2> DEFINE u == [task[s] EXCEPT !.ans = ans]
  <2>2. task' = [task EXCEPT ![s] = u]
    BY <2>1 DEF Scanner!Answered, ScannerInv, ScannerTyped
  <2>3. /\ u \in HandlerRow /\ u.op = task[s].op /\ u.at = task[s].at
        /\ u.claim = task[s].claim /\ u.alive = task[s].alive /\ u.count = task[s].count
    BY <1>1, <2>1 DEF HandlerRow, Answer
  <2> HIDE DEF u
  <2>4. u.count <= task[s].count
    BY <1>6, <2>3
  <2>5. QED
    BY <1>5, <2>2, <2>3, <2>4
<1>8. CASE Scanner!ServeSession(s)
  <2> DEFINE a == IF Scanner!Known(task[s]) THEN "ok" ELSE "auth"
             k == Scanner!ApprovedCount
             u == [task[s] EXCEPT !.ans = a, !.count = k]
  <2>1. task' = [task EXCEPT ![s] = u]
    BY <1>8 DEF Scanner!ServeSession, ScannerInv, ScannerTyped
  <2>2. a \in Said
    BY DEF Said
  <2> HIDE DEF a, k
  <2>3. k \in Nat /\ k <= Cardinality(admitted)
    BY <1>4 DEF k
  <2>4. /\ u \in HandlerRow /\ u.op = task[s].op /\ u.at = task[s].at
        /\ u.claim = task[s].claim /\ u.alive = task[s].alive /\ u.count = k
    BY <1>1, <2>2, <2>3 DEF HandlerRow, Answer
  <2> HIDE DEF u
  <2>5. QED
    BY <1>5, <2>1, <2>3, <2>4
<1>9. CASE Scanner!ServeLogin(s) /\ task' = [task EXCEPT ![s].ans = "ok", ![s].sent = lastSession + 1]
  <2> DEFINE u == [task[s] EXCEPT !.ans = "ok", !.sent = lastSession + 1]
  <2>1. task' = [task EXCEPT ![s] = u]
    BY <1>9 DEF ScannerInv, ScannerTyped
  <2>2. lastSession + 1 \in Nat
    BY DEF ScannerInv, ScannerTyped
  <2>3. /\ u \in HandlerRow /\ u.op = task[s].op /\ u.at = task[s].at
        /\ u.claim = task[s].claim /\ u.alive = task[s].alive /\ u.count = task[s].count
    BY <1>1, <2>2 DEF HandlerRow, Answer, Said
  <2> HIDE DEF u
  <2>4. u.count <= task[s].count
    BY <1>6, <2>3
  <2>5. QED
    BY <1>5, <2>1, <2>3, <2>4
<1>10. QED
  BY <1>7, <1>8, <1>9 DEF Scanner!ServeProgram, Scanner!ServeLogin, Scanner!ServeLogout, Said

LEMMA ScannerApproves ==
  ASSUME ScannerFit, ScannerInv, NEW s \in Slot, task[s].ans = None,
         UNCHANGED <<cookie, page, scanned, straddled>>, Scanner!ServeApproval(s)
  PROVE  ScannerInv'
<1> DEFINE c == task[s].claim
           a == IF ~Scanner!Known(task[s]) THEN "auth"
                ELSE CASE status[c] = "pending"  -> "ok"
                       [] status[c] = "approved" -> "already"
                       [] status[c] = "revoked"  -> "revoked"
           u == [task[s] EXCEPT !.ans = a]
           grants == Scanner!Known(task[s]) /\ status[c] = "pending"
<1>1. /\ task[s] \in HandlerRow /\ HandlerOK(task[s]) /\ task[s].at = "approve"
      /\ Scanner!Idle.at = "none"
  BY HandlerOf DEF Scanner!ServeApproval
<1>2. task[s].op \in Scanner!Approval /\ c \in Claim
  BY <1>1 DEF HandlerOK, HandlerRow, Scanner!Approval
<1>3. a \in Said /\ (a = "ok" <=> grants)
  <2>1. status[c] \in {"pending", "approved", "revoked"}
    BY <1>2 DEF ScannerInv, ClaimsOK
  <2>2. CASE ~Scanner!Known(task[s])
    BY <2>2 DEF Said
  <2>3. CASE Scanner!Known(task[s]) /\ status[c] = "pending"
    BY <2>3 DEF Said
  <2>4. CASE Scanner!Known(task[s]) /\ status[c] = "approved"
    BY <2>4 DEF Said
  <2>5. CASE Scanner!Known(task[s]) /\ status[c] = "revoked"
    BY <2>5 DEF Said
  <2>6. QED
    BY <2>1, <2>2, <2>3, <2>4, <2>5
<1>4. task' = [task EXCEPT ![s] = u]
  BY DEF Scanner!ServeApproval, Scanner!Answered, ScannerInv, ScannerTyped
<1>5. IF grants THEN status' = [status EXCEPT ![c] = "approved"] /\ admitted' = admitted \cup {c}
      ELSE UNCHANGED <<status, admitted>>
  BY DEF Scanner!ServeApproval
<1>6. lastSession' \in Nat /\ cookie' \in Nat /\ straddled' \in BOOLEAN /\ page' \in ScannerRow
  BY DEF Scanner!ServeApproval, ScannerInv, ScannerTyped
<1> HIDE DEF a, grants
<1>7. /\ u \in HandlerRow /\ u.op = task[s].op /\ u.at = task[s].at /\ u.claim = task[s].claim
      /\ u.alive = task[s].alive /\ u.count = task[s].count /\ u.ans = a /\ task[s].count \in Nat
  BY <1>1, <1>3 DEF HandlerRow, Answer
<1> HIDE DEF u
<1>8. HandlerOK(u) /\ u.count <= task[s].count
  <2>1. task[s].op # "idle"
    BY <1>2 DEF Scanner!Approval
  <2>2. QED
    BY <1>1, <1>7, <2>1, SameHandler
<1>9. CASE ~grants
  BY <1>3, <1>4, <1>5, <1>6, <1>7, <1>8, <1>9, WaitsOn
<1>10. CASE grants
  <2>1. ScannerTyped' /\ SlotStep(s, u)
    BY <1>4, <1>6, <1>7, <1>8, TypedStays DEF ScannerInv
  <2>2. Waiting'
    BY <1>7, <2>1, WaitingStays DEF ScannerInv
  <2>3. c \notin admitted /\ admitted' = admitted \cup {c}
    BY <1>2, <1>5, <1>10 DEF grants, ScannerInv, ClaimsOK
  <2>4. ClaimsOK'
    <3>1. status' = [status EXCEPT ![c] = "approved"]
      BY <1>5, <1>10
    <3> HIDE DEF c
    <3>2. QED
      BY <1>2, <2>3, <3>1 DEF ScannerInv, ClaimsOK
  <2>5. Granted(task') = Granted(task) \cup {s} /\ s \notin Granted(task)
    <3>1. task'[s].op \in Scanner!Approval /\ task'[s].ans = "ok" /\ task[s].ans # "ok"
      BY <1>2, <1>3, <1>7, <1>10, <2>1 DEF SlotStep, ScannerFit, Said
    <3>2. \A x \in Slot \ {s} : task'[x] = task[x]
      BY <2>1 DEF SlotStep
    <3>3. QED
      BY <3>1, <3>2 DEF Granted
  <2>6. /\ Cardinality(admitted') = Cardinality(admitted) + 1
        /\ Cardinality(Granted(task')) = Cardinality(Granted(task)) + 1
        /\ Cardinality(admitted) \in Nat /\ Cardinality(Granted(task)) \in Nat
    BY <2>3, <2>5, Sizes, FS_AddElement DEF ScannerInv
  <2>7. \A x \in Slot : task'[x].count = task[x].count /\ task[x].count \in Nat
    BY <1>7, <2>1 DEF SlotStep, ScannerInv, ScannerTyped, HandlerRow
  <2>8. \A x \in Slot : task'[x].count <= Cardinality(admitted')
    BY <2>6, <2>7 DEF ScannerInv, Counted
  <2>9. page.count \in Nat
    BY DEF ScannerInv, ScannerTyped, ScannerRow
  <2>10. ~straddled' => page'.count + Cardinality(Granted(task')) <= Cardinality(admitted')
    BY <2>6, <2>9 DEF ScannerInv, Counted
  <2>11. Counted'
    BY <2>8, <2>10 DEF Counted, Granted
  <2>12. QED
    BY <2>1, <2>2, <2>4, <2>11 DEF ScannerInv
<1>11. QED
  BY <1>9, <1>10

LEMMA ScannerServes ==
  ASSUME ScannerFit, ScannerInv, NEW s \in Slot, Scanner!Serve(s)
  PROVE  ScannerInv'
<1>1. task[s].ans = None /\ UNCHANGED <<cookie, page, scanned, straddled>>
  BY DEF Scanner!Serve
<1>2. CASE Scanner!ServeApproval(s)
  BY <1>1, <1>2, ScannerApproves
<1>3. CASE \/ Scanner!ServeProgram(s) \/ Scanner!ServeSession(s)
           \/ Scanner!ServeLogin(s) \/ Scanner!ServeLogout(s)
  BY <1>1, <1>3, ScannerServesRead
<1>4. QED
  BY <1>2, <1>3 DEF Scanner!Serve

(* A handler ends, and with it what the page waits for.                     *)
LEMMA ScannerEnds ==
  ASSUME ScannerFit, ScannerInv, NEW s \in Slot, task' = Scanner!Ends(s), task[s].op # "idle",
         page' \in ScannerRow, cookie' \in Nat, straddled' \in BOOLEAN,
         UNCHANGED <<status, admitted, lastSession>>,
         page'.auth = "checking" <=> page.auth = "checking" /\ ~Waits(s, "load"),
         page'.auth = "loggingOut" <=> page.auth = "loggingOut" /\ ~Waits(s, "logout"),
         page'.login <=> page.login /\ ~Waits(s, "login"),
         page'.login => page'.auth = "loggedOut",
         page'.manual <=> page.manual /\ ~Waits(s, "manual"),
         ~straddled' => page'.count + Cardinality(Granted(task')) <= Cardinality(admitted)
  PROVE  ScannerInv'
<1>1. task' = [task EXCEPT ![s] = Scanner!Idle]
  BY DEF Scanner!Ends
<1>2. /\ Scanner!Idle \in HandlerRow /\ HandlerOK(Scanner!Idle) /\ Scanner!Idle.op = "idle"
      /\ Scanner!Idle.count = 0
  BY DEF Scanner!Idle, HandlerRow, HandlerOK, Answer, Scanner!Approval
<1>3. ScannerTyped' /\ SlotStep(s, Scanner!Idle)
  BY <1>1, <1>2, TypedStays DEF ScannerInv, ScannerTyped
<1>4. ClaimsOK'
  BY DEF ScannerInv, ClaimsOK
<1>5. \A x \in Slot, op \in {"load", "login", "logout", "manual"} :
          Waits(x, op)' <=> Waits(x, op) /\ x # s
  BY <1>2, <1>3 DEF SlotStep, Waits
<1>6. \A op \in {"load", "login", "logout", "manual"} :
          AtMostOne(op)' /\ (SomeWaits(op)' <=> SomeWaits(op) /\ ~Waits(s, op))
  BY <1>5 DEF ScannerInv, Waiting, AtMostOne, SomeWaits
<1>7. page'.auth = "checking" => \A x \in Slot : task'[x].op \in {"idle", "load"}
  BY <1>2, <1>3 DEF SlotStep, ScannerInv, Waiting
<1>8. Waiting'
  BY <1>6, <1>7 DEF ScannerInv, Waiting
<1>9. Cardinality(admitted) \in Nat
  BY Sizes DEF ScannerInv
<1>10. \A x \in Slot : task'[x].count <= Cardinality(admitted)
  BY <1>2, <1>3, <1>9 DEF SlotStep, ScannerInv, Counted
<1>11. Counted'
  BY <1>10 DEF Counted, Granted
<1>12. QED
  BY <1>3, <1>4, <1>8, <1>11 DEF ScannerInv

(* What the server has granted is fewer without the handler that ends.      *)
LEMMA FewerGranted ==
  ASSUME ScannerFit, ScannerInv, NEW s \in Slot, task' = Scanner!Ends(s)
  PROVE  /\ Granted(task') = Granted(task) \ {s}
         /\ Cardinality(Granted(task')) \in Nat /\ Cardinality(Granted(task)) \in Nat
         /\ Cardinality(Granted(task')) <= Cardinality(Granted(task))
         /\ s \in Granted(task) => Cardinality(Granted(task')) + 1 = Cardinality(Granted(task))
<1>1. /\ task'[s] = Scanner!Idle /\ \A x \in Slot \ {s} : task'[x] = task[x]
  BY DEF Scanner!Ends, ScannerInv, ScannerTyped
<1>2. Scanner!Idle.op \notin Scanner!Approval
  BY DEF Scanner!Idle, Scanner!Approval
<1>3. Granted(task') = Granted(task) \ {s}
  BY <1>1, <1>2 DEF Granted
<1>4. /\ Cardinality(Granted(task')) \in Nat /\ Cardinality(Granted(task)) \in Nat
      /\ IsFiniteSet(Granted(task))
  BY Sizes DEF ScannerInv
<1>5. Cardinality(Granted(task')) <= Cardinality(Granted(task))
  BY <1>3, <1>4, Smaller
<1>6. s \in Granted(task) => Cardinality(Granted(task')) = Cardinality(Granted(task)) - 1
  BY <1>3, <1>4, FS_RemoveElement
<1>7. QED
  BY <1>3, <1>4, <1>5, <1>6

(* Nothing the page shows is about more claims than before.                 *)
LEMMA NoMoreShown ==
  ASSUME ScannerFit, ScannerInv, NEW s \in Slot, task' = Scanner!Ends(s),
         page'.count \in Nat, page'.count <= page.count, straddled' = straddled
  PROVE  ~straddled' => page'.count + Cardinality(Granted(task')) <= Cardinality(admitted)
<1>1. page.count \in Nat /\ Cardinality(admitted) \in Nat
  BY Sizes DEF ScannerInv, ScannerTyped, ScannerRow
<1>2. ~straddled => page.count + Cardinality(Granted(task)) <= Cardinality(admitted)
  BY DEF ScannerInv, Counted
<1>3. QED
  BY <1>1, <1>2, FewerGranted

LEMMA GoesOnKeeps ==
  ASSUME ScannerFit, ScannerInv, NEW s \in Slot, NEW c \in Nat, task[s].op \in {"load", "login"},
         Scanner!GoesOn(s, "session", c), cookie' \in Nat,
         UNCHANGED <<status, admitted, lastSession, page, straddled>>
  PROVE  ScannerInv'
<1> DEFINE u == [task[s] EXCEPT !.at = "session", !.ans = None, !.sent = c]
<1>1. task[s] \in HandlerRow /\ HandlerOK(task[s])
  BY HandlerOf
<1>2. task' = [task EXCEPT ![s] = u]
  BY DEF Scanner!GoesOn, ScannerInv, ScannerTyped
<1>3. /\ u \in HandlerRow /\ u.op = task[s].op /\ u.at = "session" /\ u.alive = task[s].alive
      /\ u.ans = None /\ u.count = task[s].count /\ task[s].count \in Nat
  BY <1>1 DEF HandlerRow, Answer
<1> HIDE DEF u
<1>4. HandlerOK(u)
  BY <1>1, <1>3 DEF HandlerOK, Scanner!Approval
<1>5. u.ans # "ok" /\ u.count <= task[s].count /\ lastSession' \in Nat
  BY <1>3 DEF ScannerFit, Said, ScannerInv, ScannerTyped
<1>6. QED
  BY <1>2, <1>3, <1>4, <1>5, WaitsOn

(* Which handler makes a request.                                           *)
LEMMA HandlerAt ==
  ASSUME ScannerInv, NEW s \in Slot
  PROVE  /\ task[s].at = "program" => task[s].op = "load"
         /\ task[s].at = "login" => task[s].op = "login"
         /\ task[s].at = "logout" => task[s].op = "logout"
         /\ task[s].at = "approve" => task[s].op \in Scanner!Approval
         /\ task[s].op \in {"load", "login", "scan", "link", "manual"} => task[s].alive
BY HandlerOf DEF HandlerOK, HandlerRow, Scanner!Approval

LEMMA ScannerLoads ==
  ASSUME ScannerFit, ScannerInv, NEW s \in Slot,
         Scanner!ProgramAnswers(s) \/ Scanner!SessionAnswers(s)
  PROVE  ScannerInv'
<1>1. /\ task[s].op = "load" /\ Waits(s, "load") /\ ~Waits(s, "login") /\ ~Waits(s, "logout")
      /\ ~Waits(s, "manual")
  BY HandlerAt DEF Scanner!ProgramAnswers, Scanner!SessionAnswers, Waits
<1>2. page.auth = "checking" /\ ~page.login /\ \A x \in Slot : task[x].op \in {"idle", "load"}
  BY <1>1 DEF ScannerInv, Waiting, SomeWaits
<1>3. page \in ScannerRow /\ task[s] \in HandlerRow /\ cookie \in Nat
  BY DEF ScannerInv, ScannerTyped
<1>4. UNCHANGED <<status, admitted, lastSession, cookie, straddled>> /\ cookie' \in Nat /\ straddled' \in BOOLEAN
  BY DEF Scanner!ProgramAnswers, Scanner!SessionAnswers, Scanner!server, ScannerInv, ScannerTyped
<1>5. CASE Scanner!GoesOn(s, "session", cookie) /\ UNCHANGED page
  BY <1>1, <1>3, <1>4, <1>5, GoesOnKeeps
<1>6. ASSUME task' = Scanner!Ends(s), page' \in ScannerRow, page'.login = page.login,
             page'.manual = page.manual, page'.auth \notin {"checking", "loggingOut"},
             page'.count = page.count \/ page'.count = task[s].count
      PROVE  ScannerInv'
  <2>1. Granted(task') = {}
    <3>1. Granted(task) = {}
      BY <1>2 DEF Granted, Scanner!Approval
    <3>2. QED
      BY <1>6, <3>1, FewerGranted
  <2>2. ~straddled' => page'.count <= Cardinality(admitted)
    <3>1. page.count \in Nat /\ Cardinality(admitted) \in Nat /\ Cardinality(Granted(task)) \in Nat
      BY <1>3, Sizes DEF ScannerRow, ScannerInv
    <3>2. ~straddled => page.count <= Cardinality(admitted)
      BY <3>1 DEF ScannerInv, Counted
    <3>3. task[s].count <= Cardinality(admitted)
      BY DEF ScannerInv, Counted
    <3>4. QED
      BY <1>4, <1>6, <3>2, <3>3
  <2>3. ~straddled' => page'.count + Cardinality(Granted(task')) <= Cardinality(admitted)
    BY <1>6, <2>1, <2>2, FS_EmptySet DEF ScannerRow
  <2>4. QED
    BY <1>1, <1>2, <1>4, <1>6, <2>3, ScannerEnds
<1>7. CASE Scanner!SessionAnswers(s)
  BY <1>3, <1>6, <1>7 DEF Scanner!SessionAnswers, ScannerRow, HandlerRow
<1>8. CASE \E a \in {"programMissing", "programExpired"} :
             page' = [page EXCEPT !.auth = a] /\ task' = Scanner!Ends(s)
  BY <1>3, <1>6, <1>8 DEF ScannerRow
<1>9. QED
  BY <1>5, <1>7, <1>8 DEF Scanner!ProgramAnswers

LEMMA ScannerLoginAnswers ==
  ASSUME ScannerFit, ScannerInv, NEW s \in Slot, Scanner!LoginAnswers(s)
  PROVE  ScannerInv'
<1>1. /\ task[s].op = "login" /\ Waits(s, "login") /\ ~Waits(s, "load") /\ ~Waits(s, "logout")
      /\ ~Waits(s, "manual")
  BY HandlerAt DEF Scanner!LoginAnswers, Waits
<1>2. page.auth = "loggedOut"
  BY <1>1 DEF ScannerInv, Waiting, SomeWaits
<1>3. page \in ScannerRow /\ task[s] \in HandlerRow /\ cookie \in Nat
  BY DEF ScannerInv, ScannerTyped
<1>4. UNCHANGED <<status, admitted, lastSession, straddled>> /\ straddled' \in BOOLEAN
  BY DEF Scanner!LoginAnswers, Scanner!server, ScannerInv, ScannerTyped
<1>5. CASE task[s].ans = "ok"
  <2>1. task[s].sent \in Nat
    BY <1>3 DEF HandlerRow
  <2>2. cookie' = task[s].sent /\ Scanner!GoesOn(s, "session", task[s].sent) /\ page' = page
    BY <1>5 DEF Scanner!LoginAnswers
  <2>3. QED
    BY <1>1, <1>4, <2>1, <2>2, GoesOnKeeps
<1>6. CASE task[s].ans # "ok"
  <2>1. task' = Scanner!Ends(s) /\ page' = [page EXCEPT !.login = FALSE] /\ cookie' = cookie
    BY <1>6 DEF Scanner!LoginAnswers
  <2>2. /\ page' \in ScannerRow /\ page'.auth = page.auth /\ page'.login = FALSE
        /\ page'.manual = page.manual /\ page'.count = page.count /\ page.count \in Nat
    BY <1>3, <2>1 DEF ScannerRow
  <2>3. ~straddled' => page'.count + Cardinality(Granted(task')) <= Cardinality(admitted)
    BY <1>4, <2>1, <2>2, NoMoreShown
  <2>4. QED
    BY <1>1, <1>2, <1>3, <1>4, <2>1, <2>2, <2>3, ScannerEnds
<1>7. QED
  BY <1>5, <1>6

(* The number that the server told at a sign-in has all approvals in it,     *)
(* and nothing is left to be counted unless an approval is under way.        *)
LEMMA ScannerLoginDone ==
  ASSUME ScannerFit, ScannerInv, NEW s \in Slot, Scanner!LoginDone(s)
  PROVE  ScannerInv'
<1>1. /\ task[s].op = "login" /\ Waits(s, "login") /\ ~Waits(s, "load") /\ ~Waits(s, "logout")
      /\ ~Waits(s, "manual")
  BY HandlerAt DEF Scanner!LoginDone, Waits
<1>2. page.auth = "loggedOut"
  BY <1>1 DEF ScannerInv, Waiting, SomeWaits
<1>3. page \in ScannerRow /\ task[s] \in HandlerRow /\ cookie \in Nat /\ straddled \in BOOLEAN
  BY DEF ScannerInv, ScannerTyped
<1>4. /\ UNCHANGED <<status, admitted, lastSession, cookie>> /\ cookie' \in Nat
      /\ task' = Scanner!Ends(s) /\ straddled' = (straddled \/ Scanner!UnderWay)
  BY <1>3 DEF Scanner!LoginDone, Scanner!server
<1>5. straddled' \in BOOLEAN
  BY <1>4
<1>6. CASE task[s].ans = "ok"
  <2>1. page' = [page EXCEPT !.login = FALSE, !.auth = "loggedIn", !.count = task[s].count]
    BY <1>6 DEF Scanner!LoginDone
  <2>2. /\ page' \in ScannerRow /\ page'.auth = "loggedIn" /\ page'.login = FALSE
        /\ page'.manual = page.manual /\ page'.count = task[s].count /\ task[s].count \in Nat
    BY <1>3, <2>1 DEF ScannerRow, HandlerRow
  <2>3. ~straddled' => Granted(task') = {}
    <3>1. ~straddled' => Granted(task) = {}
      BY <1>4 DEF Granted, Scanner!UnderWay
    <3>2. QED
      BY <1>4, <3>1, FewerGranted
  <2>4. task[s].count <= Cardinality(admitted)
    BY DEF ScannerInv, Counted
  <2>5. ~straddled' => page'.count + Cardinality(Granted(task')) <= Cardinality(admitted)
    <3>1. ~straddled' => Cardinality(Granted(task')) = 0
      BY <2>3, FS_EmptySet
    <3>2. page'.count + 0 <= Cardinality(admitted)
      BY <2>2, <2>4, Sizes DEF ScannerInv
    <3>3. QED
      BY <3>1, <3>2
  <2>6. QED
    BY <1>1, <1>2, <1>4, <1>5, <2>2, <2>5, ScannerEnds
<1>7. CASE task[s].ans # "ok"
  <2>1. page' = [page EXCEPT !.login = FALSE]
    BY <1>7 DEF Scanner!LoginDone
  <2>2. /\ page' \in ScannerRow /\ page'.auth = page.auth /\ page'.login = FALSE
        /\ page'.manual = page.manual /\ page'.count = page.count /\ page.count \in Nat
    BY <1>3, <2>1 DEF ScannerRow
  <2>3. ~straddled' => page'.count + Cardinality(Granted(task')) <= Cardinality(admitted)
    <3>1. page.count \in Nat /\ Cardinality(admitted) \in Nat
      BY <1>3, Sizes DEF ScannerInv, ScannerRow
    <3>2. ~straddled => page.count + Cardinality(Granted(task)) <= Cardinality(admitted)
      BY DEF ScannerInv, Counted
    <3>3. /\ Cardinality(Granted(task')) \in Nat /\ Cardinality(Granted(task)) \in Nat
          /\ Cardinality(Granted(task')) <= Cardinality(Granted(task))
      BY <1>4, FewerGranted
    <3>4. ~straddled' => ~straddled
      BY <1>4
    <3>5. QED
      BY <2>2, <3>1, <3>2, <3>3, <3>4
  <2>4. QED
    BY <1>1, <1>2, <1>4, <1>5, <2>2, <2>3, ScannerEnds
<1>8. QED
  BY <1>6, <1>7

LEMMA ScannerLogoutAnswers ==
  ASSUME ScannerFit, ScannerInv, NEW s \in Slot, Scanner!LogoutAnswers(s)
  PROVE  ScannerInv'
<1>1. task[s].op = "logout" /\ ~Waits(s, "load") /\ ~Waits(s, "login") /\ ~Waits(s, "manual")
  BY HandlerAt DEF Scanner!LogoutAnswers, Waits
<1>2. page \in ScannerRow /\ cookie \in Nat /\ straddled \in BOOLEAN
  BY DEF ScannerInv, ScannerTyped
<1>3. /\ UNCHANGED <<status, admitted, lastSession, straddled>> /\ cookie' \in Nat
      /\ task' = Scanner!Ends(s)
      /\ page' = IF task[s].alive THEN [page EXCEPT !.auth = "loggedOut"] ELSE page
  BY <1>2 DEF Scanner!LogoutAnswers, Scanner!server
<1>4. /\ page' \in ScannerRow /\ page'.login = page.login /\ page'.manual = page.manual
      /\ page'.count = page.count /\ page.count \in Nat
      /\ page'.auth = IF task[s].alive THEN "loggedOut" ELSE page.auth
  BY <1>2, <1>3 DEF ScannerRow
<1>5. Waits(s, "logout") <=> task[s].alive
  BY <1>1 DEF Waits
<1>6. /\ task[s].alive => page.auth = "loggingOut"
      /\ page.login => page.auth = "loggedOut"
  BY <1>5 DEF ScannerInv, Waiting, SomeWaits
<1>7. ~straddled' => page'.count + Cardinality(Granted(task')) <= Cardinality(admitted)
  BY <1>3, <1>4, NoMoreShown
<1>8. QED
  BY <1>1, <1>2, <1>3, <1>4, <1>5, <1>6, <1>7, ScannerEnds

(* A handler starts, and the page waits for it.                             *)
LEMMA ScannerStarts ==
  ASSUME ScannerFit, ScannerInv, NEW s \in Slot, NEW op, NEW at, NEW c \in Claim \cup {None},
         Scanner!Starts(s, op, at, c),
         \/ op \in Scanner!Approval /\ at = "approve" /\ c \in Claim
         \/ op \in {"login", "logout"} /\ at = op,
         page' \in ScannerRow, UNCHANGED <<status, admitted, lastSession, cookie, straddled>>,
         page.auth # "checking", page'.auth # "checking",
         IF op = "logout" THEN page.auth # "loggingOut" /\ page'.auth = "loggingOut"
         ELSE page'.auth = page.auth,
         IF op = "login" THEN ~page.login /\ page'.login ELSE page'.login = page.login,
         page'.login => page'.auth = "loggedOut",
         IF op = "manual" THEN ~page.manual /\ page'.manual ELSE page'.manual = page.manual,
         page'.count <= page.count
  PROVE  ScannerInv'
<1> DEFINE u == Scanner!Handler(op, at, c)
<1>1. task[s] = Scanner!Idle /\ task' = [task EXCEPT ![s] = u]
  BY DEF Scanner!Starts
<1>2. op \in {"login", "logout", "scan", "link", "manual"} /\ at \in {"login", "logout", "approve"}
  BY DEF Scanner!Approval
<1>3. cookie \in Nat /\ page.count \in Nat /\ page'.count \in Nat
  BY DEF ScannerInv, ScannerTyped, ScannerRow
<1>4. /\ u \in HandlerRow /\ u.op = op /\ u.at = at /\ u.claim = c /\ u.alive = TRUE /\ u.ans = None
      /\ u.count = 0
  BY <1>2, <1>3 DEF Scanner!Handler, HandlerRow, Answer
<1> HIDE DEF u
<1>5. HandlerOK(u)
  BY <1>2, <1>4 DEF HandlerOK, Scanner!Approval
<1>6. ScannerTyped' /\ SlotStep(s, u)
  BY <1>1, <1>4, <1>5, TypedStays DEF ScannerInv, ScannerTyped
<1>7. ClaimsOK'
  BY DEF ScannerInv, ClaimsOK
<1>8. Waiting'
  <2>1. ASSUME NEW x \in Slot, NEW o \in {"load", "login", "logout", "manual"}
        PROVE  Waits(x, o)' <=> Waits(x, o) \/ (x = s /\ op = o)
    BY <1>1, <1>4, <1>6 DEF SlotStep, Waits, Scanner!Idle
  <2>2. \A o \in {"load", "login", "logout", "manual"} :
            /\ SomeWaits(o)' <=> SomeWaits(o) \/ op = o
            /\ (op = o => ~SomeWaits(o)) => AtMostOne(o)'
    BY <2>1 DEF SomeWaits, AtMostOne, ScannerInv, Waiting
  <2>3. /\ op = "login" => ~SomeWaits("login")
        /\ op = "logout" => ~SomeWaits("logout")
        /\ op = "manual" => ~SomeWaits("manual")
    BY DEF ScannerInv, Waiting
  <2>4. \A o \in {"load", "login", "logout", "manual"} : AtMostOne(o)'
    BY <1>2, <2>2, <2>3
  <2>5. /\ ~SomeWaits("load")' /\ (page'.auth = "loggingOut" <=> SomeWaits("logout")')
        /\ (page'.login <=> SomeWaits("login")') /\ (page'.manual <=> SomeWaits("manual")')
    BY <1>2, <2>2, <2>3 DEF ScannerInv, Waiting
  <2>6. QED
    BY <2>4, <2>5 DEF Waiting
<1>9. Granted(task') \subseteq Granted(task)
  BY <1>4, <1>6 DEF SlotStep, Granted, ScannerFit, Said
<1>10. ASSUME NEW x \in Slot
       PROVE  /\ task'[x].count \in Nat /\ task[x].count \in Nat
              /\ task'[x].count <= task[x].count \/ task'[x].count <= Cardinality(admitted)
  <2>1. task[x].count \in Nat
    BY DEF ScannerInv, ScannerTyped, HandlerRow
  <2>2. CASE x = s
    BY <1>4, <1>6, <2>1, <2>2 DEF SlotStep
  <2>3. CASE x # s
    BY <1>6, <2>1, <2>3 DEF SlotStep
  <2>4. QED
    BY <2>2, <2>3
<1>11. Counted'
  BY <1>3, <1>7, <1>9, <1>10, CountedStays DEF ScannerInv
<1>12. QED
  BY <1>6, <1>7, <1>8, <1>11 DEF ScannerInv

LEMMA ScannerBegins ==
  ASSUME ScannerFit, ScannerInv, NEW s \in Slot,
         \/ Scanner!SubmitLogin(s) \/ Scanner!PressLogout(s) \/ Scanner!ConfirmDeepLink(s)
         \/ Scanner!SubmitManualCode(s) \/ \E v \in Claim : Scanner!Scan(s, v)
  PROVE  ScannerInv'
<1>1. page \in ScannerRow
  BY DEF ScannerInv, ScannerTyped
<1>2. page.login => page.auth = "loggedOut"
  BY DEF ScannerInv, Waiting
<1>3. CASE Scanner!SubmitLogin(s)
  <2>1. /\ Scanner!Starts(s, "login", "login", None) /\ page.auth = "loggedOut" /\ ~page.login
        /\ page' = [page EXCEPT !.login = TRUE]
        /\ UNCHANGED <<status, admitted, lastSession, cookie, straddled>>
    BY <1>3 DEF Scanner!SubmitLogin, Scanner!MayLogIn, Scanner!server
  <2>2. /\ page' \in ScannerRow /\ page'.auth = page.auth /\ page'.login = TRUE
        /\ page'.manual = page.manual /\ page'.count <= page.count
    <3>1. page' = [page EXCEPT !.login = TRUE]
      BY <2>1
    <3>2. page' \in ScannerRow /\ page.count \in Nat
      BY <1>1, <3>1 DEF ScannerRow
    <3>3. /\ page'.auth = page.auth /\ page'.login = TRUE /\ page'.manual = page.manual
          /\ page'.count = page.count
      BY <1>1, <3>1 DEF ScannerRow
    <3>4. QED
      BY <3>2, <3>3
  <2>3. QED
    BY <2>1, <2>2, ScannerStarts
<1>4. CASE Scanner!PressLogout(s)
  <2>1. /\ Scanner!Starts(s, "logout", "logout", None) /\ page.auth = "loggedIn"
        /\ page' = [page EXCEPT !.auth = "loggingOut", !.count = 0]
        /\ UNCHANGED <<status, admitted, lastSession, cookie, straddled>>
    BY <1>4 DEF Scanner!PressLogout, Scanner!server
  <2>2. /\ page' \in ScannerRow /\ page'.auth = "loggingOut" /\ page'.login = page.login
        /\ page'.manual = page.manual /\ page'.count <= page.count
    <3>1. page' = [page EXCEPT !.auth = "loggingOut", !.count = 0]
      BY <2>1
    <3>2. page' \in ScannerRow /\ page.count \in Nat
      BY <1>1, <3>1 DEF ScannerRow
    <3>3. /\ page'.auth = "loggingOut" /\ page'.login = page.login /\ page'.manual = page.manual
          /\ page'.count = 0
      BY <1>1, <3>1 DEF ScannerRow
    <3>4. QED
      BY <3>2, <3>3
  <2>3. QED
    BY <1>2, <2>1, <2>2, ScannerStarts
<1>5. CASE Scanner!ConfirmDeepLink(s)
  <2>1. /\ Scanner!Starts(s, "link", "approve", page.link) /\ page.auth = "loggedIn"
        /\ page' = [page EXCEPT !.link = None] /\ page.link # None
        /\ UNCHANGED <<status, admitted, lastSession, cookie, straddled>>
    BY <1>5 DEF Scanner!ConfirmDeepLink, Scanner!server
  <2>2. /\ page' \in ScannerRow /\ page'.auth = page.auth /\ page'.login = page.login
        /\ page'.manual = page.manual /\ page'.count <= page.count /\ page.link \in Claim
    BY <1>1, <2>1 DEF ScannerRow
  <2>3. QED
    BY <1>2, <2>1, <2>2, ScannerStarts DEF Scanner!Approval
<1>6. CASE Scanner!SubmitManualCode(s)
  <2>1. /\ Scanner!Starts(s, "manual", "approve", page.code) /\ page.auth = "loggedIn"
        /\ page' = [page EXCEPT !.manual = TRUE] /\ page.code # None /\ ~page.manual
        /\ UNCHANGED <<status, admitted, lastSession, cookie, straddled>>
    BY <1>6 DEF Scanner!SubmitManualCode, Scanner!server
  <2>2. /\ page' \in ScannerRow /\ page'.auth = page.auth /\ page'.login = page.login
        /\ page'.manual = TRUE /\ page'.count <= page.count /\ page.code \in Claim
    <3>1. page' = [page EXCEPT !.manual = TRUE]
      BY <2>1
    <3>2. page' \in ScannerRow /\ page.count \in Nat
      BY <1>1, <3>1 DEF ScannerRow
    <3>3. /\ page'.auth = page.auth /\ page'.login = page.login /\ page'.manual = TRUE
          /\ page'.count = page.count
      BY <1>1, <3>1 DEF ScannerRow
    <3>4. QED
      BY <1>1, <2>1, <3>2, <3>3 DEF ScannerRow
  <2>3. QED
    BY <1>2, <2>1, <2>2, ScannerStarts DEF Scanner!Approval
<1>7. ASSUME NEW v \in Claim, Scanner!Scan(s, v)
      PROVE  ScannerInv'
  <2>1. /\ Scanner!Starts(s, "scan", "approve", v) /\ page.auth = "loggedIn" /\ page' = page
        /\ UNCHANGED <<status, admitted, lastSession, cookie, straddled>>
    BY <1>7 DEF Scanner!Scan, Scanner!server
  <2>2. page'.count <= page.count
    BY <1>1, <2>1 DEF ScannerRow
  <2>3. QED
    BY <1>1, <1>2, <2>1, <2>2, ScannerStarts DEF Scanner!Approval
<1>8. QED
  BY <1>3, <1>4, <1>5, <1>6, <1>7

(* What the page shows after an approval.                                   *)
LEMMA ApprovalShown ==
  ASSUME ScannerInv, NEW s \in Slot, Scanner!ApprovalAnswers(s)
  PROVE  /\ page' \in ScannerRow /\ page'.login = page.login
         /\ page'.auth = IF task[s].ans = "auth" THEN "loggedOut" ELSE page.auth
         /\ page'.manual = IF task[s].op = "manual" THEN FALSE ELSE page.manual
         /\ page'.count = IF task[s].ans = "ok" THEN page.count + 1 ELSE page.count
         /\ page.count \in Nat
<1> DEFINE p == Scanner!AfterApproval(page, task[s].ans)
<1>1. page \in ScannerRow
  BY DEF ScannerInv, ScannerTyped
<1>2. /\ p \in ScannerRow /\ p.login = page.login /\ p.manual = page.manual /\ page.count \in Nat
      /\ p.auth = IF task[s].ans = "auth" THEN "loggedOut" ELSE page.auth
      /\ p.count = IF task[s].ans = "ok" THEN page.count + 1 ELSE page.count
  <2>1. CASE task[s].ans = "ok"
    <3>1. p = [page EXCEPT !.count = page.count + 1]
      BY <2>1 DEF Scanner!AfterApproval
    <3>2. QED
      BY <1>1, <2>1, <3>1 DEF ScannerRow
  <2>2. CASE task[s].ans = "auth"
    <3>1. p = [page EXCEPT !.auth = "loggedOut"]
      BY <2>2 DEF Scanner!AfterApproval
    <3>2. QED
      BY <1>1, <2>2, <3>1 DEF ScannerRow
  <2>3. CASE task[s].ans \notin {"ok", "auth"}
    <3>1. p = page
      BY <2>3 DEF Scanner!AfterApproval
    <3>2. QED
      BY <1>1, <2>3, <3>1 DEF ScannerRow
  <2>4. QED
    BY <2>1, <2>2, <2>3
<1>3. page' = IF task[s].op = "manual"
              THEN [p EXCEPT !.manual = FALSE,
                             !.code = IF task[s].ans \in {"ok", "already"} THEN None ELSE p.code]
              ELSE p
  BY <1>2 DEF Scanner!ApprovalAnswers, ScannerRow
<1> HIDE DEF p
<1>4. CASE task[s].op = "manual"
  <2> DEFINE k == IF task[s].ans \in {"ok", "already"} THEN None ELSE p.code
  <2>1. page' = [p EXCEPT !.manual = FALSE, !.code = k]
    BY <1>3, <1>4
  <2>2. k \in Claim \cup {None}
    BY <1>2 DEF ScannerRow
  <2> HIDE DEF k
  <2>3. page' \in ScannerRow /\ page'.login = p.login /\ page'.manual = FALSE
        /\ page'.auth = p.auth /\ page'.count = p.count
    BY <1>2, <2>1, <2>2 DEF ScannerRow
  <2>4. QED
    BY <1>2, <1>4, <2>3
<1>5. CASE task[s].op # "manual"
  <2>1. page' = p
    BY <1>3, <1>5
  <2>2. QED
    BY <1>2, <1>5, <2>1
<1>6. QED
  BY <1>4, <1>5

LEMMA ScannerApprovalAnswers ==
  ASSUME ScannerFit, ScannerInv, NEW s \in Slot, Scanner!ApprovalAnswers(s)
  PROVE  ScannerInv'
<1>1. /\ task[s].op \in Scanner!Approval /\ task[s].alive
      /\ task[s].op \notin {"idle", "load", "login", "logout"}
  BY HandlerAt DEF Scanner!ApprovalAnswers, Scanner!Approval
<1>2. /\ ~Waits(s, "load") /\ ~Waits(s, "login") /\ ~Waits(s, "logout")
      /\ Waits(s, "manual") <=> task[s].op = "manual"
  BY <1>1 DEF Waits
<1>3. /\ page.auth # "checking" /\ (page.login => page.auth = "loggedOut")
      /\ Waits(s, "manual") => page.manual
  BY <1>1, <1>2 DEF ScannerInv, Waiting, SomeWaits
<1>4. UNCHANGED <<status, admitted, lastSession, cookie, straddled>> /\ cookie \in Nat /\ straddled \in BOOLEAN
      /\ page \in ScannerRow
  BY DEF Scanner!ApprovalAnswers, Scanner!server, ScannerInv, ScannerTyped
<1>5. CASE task[s].ans # "auth"
  <2>1. task' = Scanner!Ends(s)
    BY <1>5 DEF Scanner!ApprovalAnswers
  <2>2. ~straddled' => page'.count + Cardinality(Granted(task')) <= Cardinality(admitted)
    <3>1. CASE task[s].ans = "ok"
      <4>1. s \in Granted(task)
        BY <1>1, <3>1 DEF Granted
      <4>2. /\ Cardinality(Granted(task')) + 1 = Cardinality(Granted(task))
            /\ Cardinality(Granted(task')) \in Nat
        BY <2>1, <4>1, FewerGranted
      <4>3. page'.count = page.count + 1 /\ page.count \in Nat
        BY <3>1, ApprovalShown
      <4>4. page'.count + Cardinality(Granted(task')) = page.count + Cardinality(Granted(task))
        BY <4>2, <4>3
      <4>5. ~straddled => page.count + Cardinality(Granted(task)) <= Cardinality(admitted)
        BY DEF ScannerInv, Counted
      <4>6. QED
        BY <1>4, <4>4, <4>5
    <3>2. CASE task[s].ans # "ok"
      <4>1. page'.count = page.count /\ page.count \in Nat
        BY <3>2, ApprovalShown
      <4>2. page'.count <= page.count /\ page'.count \in Nat
        BY <4>1
      <4>3. QED
        BY <1>4, <2>1, <4>2, NoMoreShown
    <3>3. QED
      BY <3>1, <3>2
  <2>3. /\ page' \in ScannerRow /\ page'.login = page.login /\ page'.auth = page.auth
        /\ page'.manual = IF task[s].op = "manual" THEN FALSE ELSE page.manual
    BY <1>5, ApprovalShown
  <2>4. page'.manual <=> page.manual /\ ~Waits(s, "manual")
    BY <1>2, <2>3
  <2>5. QED
    BY <1>1, <1>2, <1>3, <1>4, <2>1, <2>2, <2>3, <2>4, ScannerEnds
<1>6. CASE task[s].ans = "auth"
  <2> DEFINE e == Scanner!Ends(s)
  <2>1. /\ e = [task EXCEPT ![s] = Scanner!Idle] /\ e \in [Slot -> HandlerRow]
        /\ \A x \in Slot : HandlerOK(e[x]) /\ e[x].count \in Nat
        /\ e[s].op = "idle" /\ e[s].count = 0 /\ \A x \in Slot \ {s} : e[x] = task[x]
    <3>1. /\ Scanner!Idle \in HandlerRow /\ HandlerOK(Scanner!Idle) /\ Scanner!Idle.op = "idle"
          /\ Scanner!Idle.count = 0
      BY DEF Scanner!Idle, HandlerRow, HandlerOK, Answer, Scanner!Approval
    <3>2. e = [task EXCEPT ![s] = Scanner!Idle]
      BY DEF Scanner!Ends
    <3> HIDE DEF e
    <3>3. e \in [Slot -> HandlerRow]
      BY <3>1, <3>2 DEF ScannerInv, ScannerTyped
    <3>4. e[s] = Scanner!Idle /\ \A x \in Slot \ {s} : e[x] = task[x]
      BY <3>2 DEF ScannerInv, ScannerTyped
    <3>5. \A x \in Slot : HandlerOK(e[x])
      BY <3>1, <3>4 DEF ScannerInv, ScannerTyped
    <3>6. \A x \in Slot : e[x].count \in Nat
      BY <3>3 DEF HandlerRow
    <3>7. QED
      BY <3>1, <3>2, <3>3, <3>4, <3>5, <3>6
  <2>2. task' = Scanner!Unlogged(e)
    BY <1>6 DEF Scanner!ApprovalAnswers
  <2> HIDE DEF e
  <2>3. task' = [x \in Slot |-> IF e[x].op = "logout" THEN [e[x] EXCEPT !.alive = FALSE] ELSE e[x]]
    BY <2>2 DEF Scanner!Unlogged
  <2>4. ASSUME NEW x \in Slot
        PROVE  /\ task'[x] \in HandlerRow /\ HandlerOK(task'[x])
               /\ task'[x].op = e[x].op /\ task'[x].ans = e[x].ans /\ task'[x].count = e[x].count
               /\ task'[x].alive = IF e[x].op = "logout" THEN FALSE ELSE e[x].alive
    <3>1. e[x] \in HandlerRow /\ HandlerOK(e[x])
      BY <2>1, <2>4
    <3>2. CASE e[x].op = "logout"
      <4>1. task'[x] = [e[x] EXCEPT !.alive = FALSE]
        BY <2>3, <2>4, <3>2
      <4>2. /\ task'[x] \in HandlerRow /\ task'[x].op = e[x].op /\ task'[x].at = e[x].at
            /\ task'[x].ans = e[x].ans /\ task'[x].count = e[x].count /\ task'[x].alive = FALSE
        BY <3>1, <4>1 DEF HandlerRow
      <4>3. HandlerOK(task'[x])
        BY <3>1, <3>2, <4>2 DEF HandlerOK, Scanner!Approval
      <4>4. QED
        BY <3>2, <4>2, <4>3
    <3>3. CASE e[x].op # "logout"
      BY <2>3, <2>4, <3>1, <3>3
    <3>4. QED
      BY <3>2, <3>3
  <2>5. ScannerTyped'
    <3>1. task' \in [Slot -> HandlerRow]
      BY <2>3, <2>4
    <3>2. page' \in ScannerRow
      BY ApprovalShown
    <3>3. QED
      BY <1>4, <2>4, <3>1, <3>2 DEF ScannerInv, ScannerTyped
  <2>6. ClaimsOK'
    BY <1>4 DEF ScannerInv, ClaimsOK
  <2>7. \A x \in Slot, op \in {"load", "login", "logout", "manual"} :
            Waits(x, op)' <=> Waits(x, op) /\ x # s /\ op # "logout"
    BY <2>1, <2>4 DEF Waits
  <2>8. \A op \in {"load", "login", "logout", "manual"} :
            /\ AtMostOne(op)'
            /\ SomeWaits(op)' <=> SomeWaits(op) /\ ~Waits(s, op) /\ op # "logout"
    BY <2>7 DEF ScannerInv, Waiting, AtMostOne, SomeWaits
  <2>9. /\ page'.auth = "loggedOut" /\ page'.login = page.login
        /\ page'.manual = IF task[s].op = "manual" THEN FALSE ELSE page.manual
        /\ page'.count = page.count /\ page.count \in Nat
    BY <1>6, ApprovalShown
  <2>10. Waiting'
    BY <1>2, <1>3, <2>8, <2>9 DEF ScannerInv, Waiting
  <2>11. Granted(task') \subseteq Granted(task)
    BY <2>1, <2>4 DEF Granted, Scanner!Approval
  <2>12. ASSUME NEW x \in Slot
         PROVE  /\ task'[x].count \in Nat /\ task[x].count \in Nat
                /\ task'[x].count <= task[x].count \/ task'[x].count <= Cardinality(admitted)
    <3>1. task[x].count \in Nat
      BY DEF ScannerInv, ScannerTyped, HandlerRow
    <3>2. task'[x].count = e[x].count /\ e[x].count \in Nat
      BY <2>1, <2>4, <2>12
    <3>3. CASE x = s
      BY <2>1, <3>1, <3>2, <3>3
    <3>4. CASE x # s
      BY <2>1, <3>1, <3>2, <3>4
    <3>5. QED
      BY <3>3, <3>4
  <2>13. page'.count \in Nat /\ page'.count <= page.count
    BY <2>9
  <2>14. Counted'
    BY <1>4, <2>6, <2>11, <2>12, <2>13, CountedStays DEF ScannerInv
  <2>15. QED
    BY <2>5, <2>6, <2>10, <2>14 DEF ScannerInv
<1>7. QED
  BY <1>5, <1>6

LEMMA ScannerInit == ScannerFit /\ Scanner!Init => ScannerInv
<1> SUFFICES ASSUME ScannerFit, Scanner!Init
             PROVE  ScannerInv
  OBVIOUS
<1>1. PICK l \in Claim \cup {None}, s \in Slot :
          /\ page = [Scanner!Opened EXCEPT !.link = l]
          /\ task = [x \in Slot |-> IF x = s THEN Scanner!Handler("load", "program", None) ELSE Scanner!Idle]
  BY DEF Scanner!Init
<1>2. /\ status \in [Claim -> {"pending", "revoked"}] /\ admitted = {} /\ straddled = FALSE
      /\ lastSession \in Nat /\ cookie \in Nat
  BY DEF Scanner!Init
<1>3. /\ page \in ScannerRow /\ page.auth = "checking" /\ page.login = FALSE /\ page.manual = FALSE
      /\ page.count = 0
  BY <1>1 DEF Scanner!Opened, ScannerRow
<1> DEFINE h == Scanner!Handler("load", "program", None)
<1>4. /\ h \in HandlerRow /\ HandlerOK(h) /\ h.op = "load" /\ h.alive = TRUE /\ h.ans = None /\ h.count = 0
  BY <1>2 DEF Scanner!Handler, HandlerRow, HandlerOK, Answer, Scanner!Approval
<1>5. /\ Scanner!Idle \in HandlerRow /\ HandlerOK(Scanner!Idle) /\ Scanner!Idle.op = "idle"
      /\ Scanner!Idle.count = 0
  BY DEF Scanner!Idle, HandlerRow, HandlerOK, Answer, Scanner!Approval
<1>6. task[s] = h /\ \A x \in Slot \ {s} : task[x] = Scanner!Idle
  BY <1>1
<1>7. task \in [Slot -> HandlerRow]
  BY <1>1, <1>4, <1>5
<1> HIDE DEF h
<1>8. ScannerTyped
  <2>1. \A x \in Slot : HandlerOK(task[x])
    BY <1>4, <1>5, <1>6
  <2>2. QED
    BY <1>2, <1>3, <1>7, <2>1 DEF ScannerTyped
<1>9. ClaimsOK
  BY <1>2 DEF ClaimsOK
<1>10. \A x \in Slot, op \in {"load", "login", "logout", "manual"} :
           Waits(x, op) <=> x = s /\ op = "load"
  BY <1>4, <1>5, <1>6 DEF Waits
<1>11. Waiting
  <2>1. \A op \in {"load", "login", "logout", "manual"} :
            AtMostOne(op) /\ (SomeWaits(op) <=> op = "load")
    BY <1>10 DEF AtMostOne, SomeWaits
  <2>2. \A x \in Slot : task[x].op \in {"idle", "load"}
    BY <1>4, <1>5, <1>6
  <2>3. QED
    BY <1>3, <2>1, <2>2 DEF Waiting
<1>12. Cardinality(admitted) = 0
  BY <1>2, FS_EmptySet
<1>13. Cardinality(Granted(task)) = 0
  <2>1. Granted(task) = {}
    BY <1>4, <1>5, <1>6 DEF Granted, Scanner!Approval
  <2>2. QED
    BY <2>1, FS_EmptySet
<1>14. Counted
  <2>1. \A x \in Slot : task[x].count <= Cardinality(admitted)
    BY <1>4, <1>5, <1>6, <1>12
  <2>2. QED
    BY <1>3, <1>12, <1>13, <2>1 DEF Counted
<1>15. QED
  BY <1>8, <1>9, <1>11, <1>14 DEF ScannerInv

LEMMA ScannerStep == ScannerFit /\ ScannerInv /\ [Scanner!Next]_(Scanner!vars) => ScannerInv'
<1> SUFFICES ASSUME ScannerFit, ScannerInv, [Scanner!Next]_(Scanner!vars)
             PROVE  ScannerInv'
  OBVIOUS
<1>1. CASE UNCHANGED Scanner!vars
  <2>1. UNCHANGED <<status, admitted, page, task, lastSession, cookie, straddled>>
    BY <1>1 DEF Scanner!vars, Scanner!server
  <2>2. ClaimsOK' /\ page' \in ScannerRow
    BY <2>1 DEF ScannerInv, ClaimsOK, ScannerTyped
  <2>3. QED
    BY <2>1, <2>2, ScannerQuiet
<1>2. ASSUME NEW s \in Slot, Scanner!Serve(s) \/ Scanner!Fails(s)
      PROVE  ScannerInv'
  BY <1>2, ScannerServes, ScannerFails
<1>3. ASSUME NEW s \in Slot,
             \/ Scanner!ProgramAnswers(s) \/ Scanner!SessionAnswers(s) \/ Scanner!LoginAnswers(s)
             \/ Scanner!LoginDone(s) \/ Scanner!LogoutAnswers(s) \/ Scanner!ApprovalAnswers(s)
      PROVE  ScannerInv'
  BY <1>3, ScannerLoads, ScannerLoginAnswers, ScannerLoginDone, ScannerLogoutAnswers,
     ScannerApprovalAnswers
<1>4. ASSUME NEW s \in Slot,
             \/ Scanner!SubmitLogin(s) \/ Scanner!PressLogout(s) \/ Scanner!ConfirmDeepLink(s)
             \/ Scanner!SubmitManualCode(s) \/ \E v \in Claim : Scanner!Scan(s, v)
      PROVE  ScannerInv'
  BY <1>4, ScannerBegins
<1>5. CASE Scanner!DismissDeepLink \/ Scanner!SessionEnds
  <2>1. UNCHANGED <<status, admitted, task, lastSession, cookie, straddled>>
    BY <1>5 DEF Scanner!DismissDeepLink, Scanner!SessionEnds, Scanner!server
  <2>2. /\ page' \in ScannerRow /\ page'.auth = page.auth /\ page'.login = page.login
        /\ page'.manual = page.manual /\ page'.count = page.count
    BY <1>5 DEF Scanner!DismissDeepLink, Scanner!SessionEnds, ScannerInv, ScannerTyped, ScannerRow
  <2>3. ClaimsOK'
    BY <2>1 DEF ScannerInv, ClaimsOK
  <2>4. QED
    BY <2>1, <2>2, <2>3, ScannerQuiet
<1>6. ASSUME NEW c \in Claim,
             \/ Scanner!HashChange(c) \/ Scanner!ChangeManualCode(c) \/ Scanner!ScanEnds(c)
             \/ Scanner!OtherApproves(c) \/ Scanner!Revokes(c)
      PROVE  ScannerInv'
  BY <1>6, ScannerOthers, ScannerClaims
<1>7. QED
  BY <1>1, <1>2, <1>3, <1>4, <1>5, <1>6 DEF Scanner!Next

LEMMA ScannerSafe == ScannerFit /\ ScannerInv => Scanner!ApproverScreenIsTrue
<1> SUFFICES ASSUME ScannerFit, ScannerInv
             PROVE  Scanner!ApproverScreenIsTrue
  OBVIOUS
<1>1. ASSUME NEW op \in {"load", "login", "logout", "manual"}
      PROVE  SomeWaits(op) <=> Cardinality({s \in Slot : Waits(s, op)}) = 1
  <2> DEFINE W == {s \in Slot : Waits(s, op)}
  <2>1. CASE SomeWaits(op)
    <3>1. PICK s \in Slot : Waits(s, op)
      BY <2>1 DEF SomeWaits
    <3>2. W = {s}
      BY <1>1, <3>1 DEF ScannerInv, Waiting, AtMostOne
    <3>3. QED
      BY <2>1, <3>2, FS_Singleton
  <2>2. CASE ~SomeWaits(op)
    <3>1. W = {}
      BY <2>2 DEF SomeWaits
    <3>2. QED
      BY <2>2, <3>1, FS_EmptySet
  <2>3. QED
    BY <2>1, <2>2
<1>2. ASSUME NEW S
      PROVE  Scanner!Cardinality(S) = Cardinality(S)
  BY DEF Scanner!Cardinality, Cardinality, Scanner!IsFiniteSet, IsFiniteSet
<1>3. Scanner!WaitsForHandler
  <2>1. ASSUME NEW op \in {"load", "login", "logout", "manual"}
        PROVE  SomeWaits(op) <=>
                 Scanner!Cardinality({s \in Slot : task[s].op = op /\ task[s].alive}) = 1
    BY <1>1, <1>2, <2>1 DEF Waits
  <2>2. QED
    BY <2>1 DEF Scanner!WaitsForHandler, ScannerInv, Waiting
<1>4. Scanner!CountIsTrue
  <2>1. Scanner!Cardinality(admitted) = Cardinality(admitted)
    BY <1>2
  <2>2. page.count \in Nat /\ Cardinality(admitted) \in Nat /\ Cardinality(Granted(task)) \in Nat
    BY Sizes DEF ScannerInv, ScannerTyped, ScannerRow
  <2>3. ~straddled => page.count + Cardinality(Granted(task)) <= Cardinality(admitted)
    BY DEF ScannerInv, Counted
  <2>4. ~straddled => page.count <= Cardinality(admitted)
    BY <2>2, <2>3
  <2>5. QED
    BY <2>1, <2>4 DEF Scanner!CountIsTrue
<1>5. QED
  BY <1>3, <1>4 DEF Scanner!ApproverScreenIsTrue

(* Whatever an approver's page says it waits for has exactly one handler that *)
(* will end it, and the number of approvals it shows is never more than the   *)
(* claims that were ever approved unless a sign-in straddled an approval, for *)
(* any number of requests under way and of claims.  None is no answer.        *)
THEOREM ApproverScreen ==
  ASSUME ScannerFit
  PROVE  Scanner!Spec => []Scanner!ApproverScreenIsTrue
BY ScannerSafe, ScannerInit, ScannerStep, PTL DEF Scanner!Spec


-----------------------------------------------------------------------------
(* A stream on the air.  The session whose track is published is the last    *)
(* one issued, and open.  While an answer that says live is built the stream *)
(* has been live within the tick, and from then on the answer ages with it.  *)

StatusOrNone == {"offline", "silent", "live", None}

AirInv ==
    /\ lease \in [issued : Nat, open : BOOLEAN, published : Nat]
    /\ lease.published # 0 => lease.published = lease.issued /\ lease.open
    /\ calm \in Nat
    /\ build \in StatusOrNone
    /\ build = "live" => calm = 0
    /\ entry # None => /\ entry \in [state : StatusOrNone, kept : 0 .. CacheTtl]
                       /\ entry.state = "live" /\ entry.kept < CacheTtl => calm <= entry.kept

LEMMA AirInit == AirFit /\ Air!Init => AirInv
<1> SUFFICES ASSUME AirFit, Air!Init
             PROVE  AirInv
  OBVIOUS
<1>1. lease = [issued |-> 0, open |-> FALSE, published |-> 0] /\ entry = None /\ build = None
      /\ calm = CacheTtl + SoundWindow
  BY DEF Air!Init
<1>2. QED
  BY <1>1 DEF AirInv, AirFit, StatusOrNone

LeaseOK(l) ==
    /\ l \in [issued : Nat, open : BOOLEAN, published : Nat]
    /\ l.published # 0 => l.published = l.issued /\ l.open

LEMMA LeaseStays ==
  ASSUME LeaseOK(lease)
  PROVE  /\ LeaseOK(Air!Closed)
         /\ LeaseOK([issued |-> lease.issued + 1, open |-> TRUE, published |-> 0])
         /\ lease.open => LeaseOK([lease EXCEPT !.published = lease.issued])
<1>1. LeaseOK(Air!Closed)
  BY DEF LeaseOK, Air!Closed
<1>2. LeaseOK([issued |-> lease.issued + 1, open |-> TRUE, published |-> 0])
  BY DEF LeaseOK
<1>3. ASSUME lease.open
      PROVE  LeaseOK([lease EXCEPT !.published = lease.issued])
  <2> DEFINE l == [lease EXCEPT !.published = lease.issued]
  <2>1. l = [issued |-> lease.issued, open |-> lease.open, published |-> lease.issued]
    BY DEF LeaseOK
  <2> HIDE DEF l
  <2>2. QED
    BY <1>3, <2>1 DEF LeaseOK
<1>4. QED
  BY <1>1, <1>2, <1>3

LEMMA LeaseSteps == LeaseOK(lease) /\ Air!Step => LeaseOK(lease')
<1> SUFFICES ASSUME LeaseOK(lease), Air!Step
             PROVE  LeaseOK(lease')
  OBVIOUS
<1>1. CASE Air!GoLive
  BY <1>1, LeaseStays DEF Air!GoLive
<1>2. CASE Air!PageStops
  BY <1>2, LeaseStays DEF Air!PageStops
<1>3. ASSUME NEW h, Air!TranslatorLeft(h) \/ Air!TrackPublished(h)
      PROVE  LeaseOK(lease')
  BY <1>3, LeaseStays DEF Air!TranslatorLeft, Air!TrackPublished
<1>4. CASE UNCHANGED lease
  BY <1>4
<1>5. QED
  BY <1>1, <1>2, <1>3, <1>4
     DEF Air!Step, Air!PageDies, Air!SoundChanges, Air!PressMute, Air!MeterPolls, Air!ReportLost,
         Air!ReportArrives, Air!EntersRoom, Air!LeavesRoom, Air!HookLost, Air!PresenceJoin,
         Air!PresenceLeave, Air!MarkConnected, Air!RecordHeartbeat, Air!Disconnect, Air!Row,
         Air!BuildBegins, Air!BuildEnds, Air!ReadStatus, Air!Restart, Air!memory

(* What a step that takes no time does to the answer that is built and to the cached one. *)
LEMMA AnswerSteps ==
  Air!Step => \/ UNCHANGED <<build, entry>>
              \/ build' = Air!StreamState /\ entry' = entry
              \/ build # None /\ entry' = Air!Stored(build) /\ build' = None
              \/ build' = None /\ entry' = None
BY DEF Air!Step, Air!GoLive, Air!PageStops, Air!TranslatorLeft, Air!TrackPublished,
       Air!PageDies, Air!SoundChanges, Air!PressMute, Air!MeterPolls, Air!ReportLost,
       Air!ReportArrives, Air!EntersRoom, Air!LeavesRoom, Air!HookLost, Air!PresenceJoin,
       Air!PresenceLeave, Air!MarkConnected, Air!RecordHeartbeat, Air!Disconnect, Air!Row,
       Air!BuildBegins, Air!BuildEnds, Air!ReadStatus, Air!Restart, Air!memory

LEMMA AirStep == AirFit /\ AirInv /\ [Air!Next]_(Air!vars) => AirInv'
<1> SUFFICES ASSUME AirFit, AirInv, [Air!Next]_(Air!vars)
             PROVE  AirInv'
  OBVIOUS
<1>1. LeaseOK(lease) /\ calm \in Nat
  BY DEF AirInv, LeaseOK
<1>2. CASE Air!Timeless(Air!Step)
  <2>1. LeaseOK(lease')
    BY <1>1, <1>2, LeaseSteps DEF Air!Timeless
  <2>2. /\ calm' \in Nat /\ calm' <= calm
        /\ Air!StreamState = "live" => calm' = 0
    BY <1>1, <1>2 DEF Air!Timeless, Air!Calm
  <2>3. CASE UNCHANGED <<build, entry>>
    BY <1>1, <2>1, <2>2, <2>3 DEF AirInv, LeaseOK, AirFit
  <2>4. CASE build' = Air!StreamState /\ entry' = entry
    <3>1. build' \in StatusOrNone
      BY <2>4 DEF Air!StreamState, StatusOrNone
    <3>2. QED
      BY <1>1, <2>1, <2>2, <2>4, <3>1 DEF AirInv, LeaseOK, AirFit
  <2>5. CASE build # None /\ entry' = Air!Stored(build) /\ build' = None
    <3>1. entry' = [state |-> build, kept |-> 0]
      BY <2>5 DEF Air!Stored
    <3>2. /\ entry'.kept = 0 /\ entry'.state = build
          /\ entry' \in [state : StatusOrNone, kept : 0 .. CacheTtl]
      <4>1. 0 \in 0 .. CacheTtl /\ build \in StatusOrNone
        BY DEF AirFit, AirInv
      <4>2. QED
        BY <3>1, <4>1
    <3>3. build = "live" => calm' = 0
      BY <1>1, <2>2 DEF AirInv
    <3>4. entry'.state = "live" => calm' <= entry'.kept
      BY <3>2, <3>3
    <3>5. QED
      BY <2>1, <2>2, <2>5, <3>2, <3>4 DEF AirInv, LeaseOK, AirFit, StatusOrNone
  <2>6. CASE build' = None /\ entry' = None
    BY <2>1, <2>2, <2>6 DEF AirInv, LeaseOK, AirFit, StatusOrNone
  <2>7. QED
    BY <1>2, <2>3, <2>4, <2>5, <2>6, AnswerSteps DEF Air!Timeless
<1>3. CASE Air!TimePasses
  <2>1. lease' = lease /\ build' = None /\ build = None
        /\ entry' = IF entry = None THEN None ELSE [entry EXCEPT !.kept = Air!Older(@, CacheTtl)]
    BY <1>3 DEF Air!TimePasses, Air!Tick
  <2>2. calm' \in Nat /\ calm' <= calm + 1
    BY <1>1, <1>3 DEF Air!TimePasses, Air!Calm, Air!Older
  <2>3. ASSUME entry' # None
        PROVE  /\ entry' \in [state : StatusOrNone, kept : 0 .. CacheTtl]
               /\ entry'.state = "live" /\ entry'.kept < CacheTtl => calm' <= entry'.kept
    <3>1. entry # None /\ entry' = [entry EXCEPT !.kept = Air!Older(@, CacheTtl)]
      BY <2>1, <2>3
    <3> DEFINE k == IF entry.kept < CacheTtl THEN entry.kept + 1 ELSE entry.kept
    <3>2. entry \in [state : StatusOrNone, kept : 0 .. CacheTtl]
      BY <3>1 DEF AirInv
    <3>3. entry' = [entry EXCEPT !.kept = k] /\ k \in 0 .. CacheTtl
      BY <3>1, <3>2 DEF Air!Older, AirFit
    <3>4. k = entry.kept + 1 \/ k = CacheTtl
      BY <3>2 DEF AirFit
    <3> HIDE DEF k
    <3>5. entry' \in [state : StatusOrNone, kept : 0 .. CacheTtl] /\ entry'.state = entry.state /\ entry'.kept = k
      BY <3>2, <3>3
    <3>6. entry.state = "live" /\ entry.kept < CacheTtl => calm <= entry.kept
      BY <3>1 DEF AirInv
    <3>7. entry'.state = "live" /\ entry'.kept < CacheTtl => calm' <= entry'.kept
      <4>1. entry.kept \in 0 .. CacheTtl
        BY <3>2
      <4>2. QED
        BY <1>1, <2>2, <3>3, <3>4, <3>5, <3>6, <4>1 DEF AirFit
    <3>8. QED
      BY <3>5, <3>7
  <2>4. QED
    BY <1>1, <2>1, <2>2, <2>3 DEF AirInv, LeaseOK, AirFit, StatusOrNone
<1>4. CASE UNCHANGED Air!vars
  BY <1>4 DEF Air!vars, Air!memory, AirInv
<1>5. QED
  BY <1>2, <1>3, <1>4 DEF Air!Next

LEMMA AirSafe == AirFit /\ AirInv => Air!LiveIsHeard
<1> SUFFICES ASSUME AirFit, AirInv
             PROVE  Air!LiveWasLive /\ Air!LiveIsOfSession
  BY DEF Air!LiveIsHeard
<1>1. Air!LiveWasLive
  BY DEF AirInv, AirFit, Air!LiveWasLive, Air!Expired
<1>2. Air!LiveIsOfSession
  BY DEF AirInv, Air!LiveIsOfSession, Air!StreamState, Air!Sounds
<1>3. QED
  BY <1>1, <1>2

(* A cached answer that says live is of a stream that was live within the     *)
(* time that answers are kept, and a stream is live only through the session  *)
(* that is published and open, for any windows and any number of listeners.   *)
THEOREM OnAirIsHeard == ASSUME AirFit PROVE Air!Spec => []Air!LiveIsHeard
BY AirSafe, AirInit, AirStep, PTL DEF Air!Spec

-----------------------------------------------------------------------------
(* The approver's desk.  The counter of a row is exactly the sign-ins that   *)
(* have failed in its window and those still verifying, less what successes  *)
(* took back; so a sign-in that was not locked when it was counted was among *)
(* at most as many as the limit.                                             *)

DeskRow  == Desk!Row
FailRow  == [age : Nat, count : Nat, lock : Nat]
TallyRow == [failed : Nat, told : Nat, undone : Int]
DeskVerifying ==
    [phase : {"verifying"}, address : Address \cup {None}, password : Password,
     expected : Password \cup {None}, locked : BOOLEAN, breach : BOOLEAN, counted : SUBSET DeskRow]

DeskCallOK(k) ==
    \/ k \in [phase : {"idle", "issuing"}]
    \/ k \in [phase : {"asked"}, address : Address \cup {None}, password : Password]
    \/ k \in DeskVerifying /\ k.counted \subseteq Desk!RowsOf(k.address)

(* The sign-ins that the counter of r holds, and those that will be told.    *)
Guessing(cs, r) == {c \in Call : cs[c].phase = "verifying" /\ r \in cs[c].counted}
Telling(cs, r)  == {c \in Guessing(cs, r) : ~cs[c].locked}

Balanced(n, t, cs, r) ==
    /\ n = t.failed + Cardinality(Guessing(cs, r)) - t.undone
    /\ t.told <= t.failed
    /\ t.told + Cardinality(Telling(cs, r)) <= Desk!Limit(r) + t.undone

DeskInv ==
    /\ deskAttempts \in [DeskRow -> FailRow]
    /\ tally \in [DeskRow -> TallyRow]
    /\ account \in Password \cup {None}
    /\ DOMAIN deskCalls = Call /\ \A c \in Call : DeskCallOK(deskCalls[c])
    /\ \A r \in DeskRow : Balanced(deskAttempts[r].count, tally[r], deskCalls, r)

LEMMA DeskSizes ==
  ASSUME DeskFit
  PROVE  \A cs, r : /\ IsFiniteSet(Guessing(cs, r)) /\ Cardinality(Guessing(cs, r)) \in Nat
                    /\ IsFiniteSet(Telling(cs, r)) /\ Cardinality(Telling(cs, r)) \in Nat
                    /\ Cardinality(Telling(cs, r)) <= Cardinality(Guessing(cs, r))
<1>1. \A cs, r : Guessing(cs, r) \subseteq Call /\ Telling(cs, r) \subseteq Guessing(cs, r)
  BY DEF Guessing, Telling
<1>2. QED
  BY <1>1, FS_Subset, FS_CardinalityType DEF DeskFit

LEMMA DeskMax ==
  ASSUME NEW m \in Int, NEW n \in Int
  PROVE  /\ Desk!Max({m, n}) = IF m >= n THEN m ELSE n
         /\ Desk!Min({m, n}) = IF m <= n THEN m ELSE n
<1> DEFINE S == {m, n}
<1>1. \E x \in S : \A y \in S : x >= y
  OBVIOUS
<1>2. \E x \in S : \A y \in S : x <= y
  OBVIOUS
<1>3. Desk!Max(S) \in S /\ \A y \in S : Desk!Max(S) >= y
  BY <1>1 DEF Desk!Max
<1>4. Desk!Min(S) \in S /\ \A y \in S : Desk!Min(S) <= y
  BY <1>2 DEF Desk!Min
<1>5. QED
  BY <1>3, <1>4

(* A failure above the limit locks.                                         *)
LEMMA LockIsLong ==
  ASSUME DeskFit, NEW n \in Nat \ {0}
  PROVE  Desk!LockFor(n) \in Nat \ {0}
<1>1. Len(DeskLocks) \in Nat \ {0} /\ \A i \in 1 .. Len(DeskLocks) : DeskLocks[i] \in Nat \ {0}
  BY DEF DeskFit
<1>2. Desk!Min({n, Len(DeskLocks)}) = IF n <= Len(DeskLocks) THEN n ELSE Len(DeskLocks)
  <2>1. Len(DeskLocks) \in Int /\ n \in Int
    BY <1>1
  <2>2. QED
    BY <2>1, DeskMax
<1>3. QED
  BY <1>1, <1>2 DEF Desk!LockFor

LEMMA LimitIsThere == DeskFit => \A r \in DeskRow : Desk!Limit(r) \in Nat \ {0}
BY DEF DeskFit, Desk!Limit

LEMMA DeskInit == DeskFit /\ Desk!Init => DeskInv
<1> SUFFICES ASSUME DeskFit, Desk!Init
             PROVE  DeskInv
  OBVIOUS
<1>1. /\ account = None /\ deskAttempts = [r \in DeskRow |-> Desk!NoFailures]
      /\ deskCalls = [c \in Call |-> Desk!Idle] /\ tally = [r \in DeskRow |-> Desk!NothingYet]
  BY DEF Desk!Init, DeskRow
<1>2. Desk!NoFailures \in FailRow /\ Desk!NothingYet \in TallyRow /\ Desk!Idle \in [phase : {"idle", "issuing"}]
  BY DEF Desk!NoFailures, Desk!NothingYet, Desk!Idle, FailRow, TallyRow, DeskFit
<1>3. ASSUME NEW r \in DeskRow
      PROVE  Balanced(deskAttempts[r].count, tally[r], deskCalls, r)
  <2>1. Guessing(deskCalls, r) = {} /\ Telling(deskCalls, r) = {}
    BY <1>1 DEF Guessing, Telling, Desk!Idle
  <2>2. Cardinality(Guessing(deskCalls, r)) = 0 /\ Cardinality(Telling(deskCalls, r)) = 0
    BY <2>1, FS_EmptySet
  <2>3. deskAttempts[r].count = 0 /\ tally[r].failed = 0 /\ tally[r].told = 0 /\ tally[r].undone = 0
    BY <1>1, <1>3 DEF Desk!NoFailures, Desk!NothingYet
  <2>4. Desk!Limit(r) \in Nat
    BY <1>3, LimitIsThere
  <2>5. QED
    BY <2>2, <2>3, <2>4 DEF Balanced
<1>4. QED
  BY <1>1, <1>2, <1>3 DEF DeskInv, DeskCallOK

(* A step after which the same sign-ins verify, with the same counters.      *)
LEMMA DeskStays ==
  ASSUME DeskInv, deskAttempts' \in [DeskRow -> FailRow], \A r \in DeskRow : deskAttempts'[r].count = deskAttempts[r].count,
         tally' = tally, account' \in Password \cup {None},
         DOMAIN deskCalls' = Call, \A c \in Call : DeskCallOK(deskCalls'[c]),
         \A c \in Call : deskCalls'[c] = deskCalls[c]
                          \/ (deskCalls'[c].phase # "verifying" /\ deskCalls[c].phase # "verifying")
  PROVE  DeskInv'
<1>1. \A r : Guessing(deskCalls', r) = Guessing(deskCalls, r)
  BY DEF Guessing
<1>2. \A r : Telling(deskCalls', r) = Telling(deskCalls, r)
  BY <1>1 DEF Telling, Guessing
<1>3. \A r \in DeskRow : Balanced(deskAttempts'[r].count, tally'[r], deskCalls', r)
  BY <1>1, <1>2 DEF Balanced, DeskInv
<1>4. QED
  BY <1>3 DEF DeskInv, Balanced, Guessing, Telling, DeskRow, FailRow, TallyRow, DeskCallOK, DeskVerifying

LEMMA DeskQuiet ==
  ASSUME DeskInv, NEW c \in Call,
         \/ \E a \in Address \cup {None}, q \in Password : Desk!Ask(c, a, q)
         \/ Desk!Refuse(c) \/ Desk!Issue(c)
  PROVE  DeskInv'
<1>1. DOMAIN deskCalls = Call /\ \A d \in Call : DeskCallOK(deskCalls[d])
  BY DEF DeskInv
<1>2. ASSUME NEW u, deskCalls' = [deskCalls EXCEPT ![c] = u], DeskCallOK(u), u.phase # "verifying",
             deskCalls[c].phase # "verifying", UNCHANGED <<deskAttempts, tally, account>>
      PROVE  DeskInv'
  <2>1. deskCalls'[c] = u /\ \A d \in Call \ {c} : deskCalls'[d] = deskCalls[d]
    BY <1>1, <1>2
  <2>2. DOMAIN deskCalls' = Call
    BY <1>1, <1>2
  <2>3. /\ \A d \in Call : DeskCallOK(deskCalls'[d])
        /\ \A d \in Call : deskCalls'[d] = deskCalls[d]
                           \/ (deskCalls'[d].phase # "verifying" /\ deskCalls[d].phase # "verifying")
    BY <1>1, <1>2, <2>1
  <2>4. QED
    BY <1>2, <2>2, <2>3, DeskStays DEF DeskInv
<1>3. DeskCallOK(Desk!Idle) /\ Desk!Idle.phase = "idle"
  BY DEF DeskCallOK, Desk!Idle
<1>4. CASE Desk!Refuse(c) \/ Desk!Issue(c)
  BY <1>2, <1>3, <1>4 DEF Desk!Refuse, Desk!Issue
<1>5. ASSUME NEW a \in Address \cup {None}, NEW q \in Password, Desk!Ask(c, a, q)
      PROVE  DeskInv'
  <2> DEFINE u == [phase |-> "asked", address |-> a, password |-> q]
  <2>1. DeskCallOK(u) /\ u.phase = "asked"
    BY DEF DeskCallOK
  <2> HIDE DEF u
  <2>2. deskCalls' = [deskCalls EXCEPT ![c] = u] /\ deskCalls[c] = Desk!Idle /\ UNCHANGED <<deskAttempts, tally, account>>
    BY <1>5 DEF Desk!Ask, u
  <2>3. QED
    BY <1>2, <1>3, <2>1, <2>2
<1>6. QED
  BY <1>4, <1>5

LEMMA DeskWaits ==
  ASSUME DeskFit, DeskInv,
         \/ Desk!Tick \/ \E n \in 1 .. MaxSessions : Desk!Use(n) \/ Desk!SignOut(n)
         \/ \E q \in Password : Desk!RotateCredential(q)
  PROVE  DeskInv'
<1>1. deskCalls' = deskCalls /\ tally' = tally /\ account' \in Password \cup {None}
  BY DEF Desk!Tick, Desk!Use, Desk!SignOut, Desk!RotateCredential, DeskInv
<1>2. /\ deskAttempts' \in [DeskRow -> FailRow]
      /\ \A r \in DeskRow : deskAttempts'[r].count = deskAttempts[r].count
  <2>1. CASE deskAttempts' = deskAttempts
    BY <2>1 DEF DeskInv
  <2>2. CASE Desk!Tick
    <3>1. deskAttempts' = [r \in DeskRow |-> [deskAttempts[r] EXCEPT !.age = Desk!Min({@ + 1, DeskWindow}),
                                                           !.lock = Desk!Less(@)]]
      BY <2>2 DEF Desk!Tick, DeskRow
    <3>2. ASSUME NEW r \in DeskRow
          PROVE  deskAttempts'[r] \in FailRow /\ deskAttempts'[r].count = deskAttempts[r].count
      <4> DEFINE g == Desk!Min({deskAttempts[r].age + 1, DeskWindow})
                 l == Desk!Less(deskAttempts[r].lock)
      <4>1. deskAttempts[r] \in FailRow
        BY <3>2 DEF DeskInv
      <4>2. deskAttempts[r].age + 1 \in Nat /\ deskAttempts[r].lock \in Nat /\ DeskWindow \in Nat
        BY <4>1 DEF FailRow, DeskFit
      <4>3. g \in Nat
        <5>1. g = IF deskAttempts[r].age + 1 <= DeskWindow THEN deskAttempts[r].age + 1 ELSE DeskWindow
          <6>1. deskAttempts[r].age + 1 \in Int /\ DeskWindow \in Int
            BY <4>2
          <6>2. QED
            BY <6>1, DeskMax
        <5>2. QED
          BY <4>2, <5>1
      <4>4. l \in Nat
        BY <4>2, DeskMax DEF Desk!Less
      <4>5. deskAttempts'[r] = [deskAttempts[r] EXCEPT !.age = g, !.lock = l]
        BY <3>1, <3>2
      <4> HIDE DEF g, l
      <4>6. QED
        BY <4>1, <4>3, <4>4, <4>5 DEF FailRow
    <3>3. QED
      BY <3>1, <3>2
  <2>3. QED
    BY <2>1, <2>2 DEF Desk!Use, Desk!SignOut, Desk!RotateCredential
<1>3. QED
  BY <1>1, <1>2, DeskStays DEF DeskInv

(* What a row's balance is when one sign-in leaves those that guess.         *)
LEMMA OneLess ==
  ASSUME DeskFit, NEW cs, NEW ds, NEW c \in Call, NEW r, cs[c].phase = "verifying",
         ds[c].phase # "verifying", \A d \in Call \ {c} : ds[d] = cs[d]
  PROVE  /\ Cardinality(Guessing(ds, r)) = Cardinality(Guessing(cs, r)) - (IF r \in cs[c].counted THEN 1 ELSE 0)
         /\ Cardinality(Telling(ds, r)) =
               Cardinality(Telling(cs, r)) - (IF r \in cs[c].counted /\ ~cs[c].locked THEN 1 ELSE 0)
<1>1. Guessing(ds, r) = Guessing(cs, r) \ {c}
  BY DEF Guessing
<1>2. Telling(ds, r) = Telling(cs, r) \ {c}
  BY <1>1 DEF Telling, Guessing
<1>3. c \in Guessing(cs, r) <=> r \in cs[c].counted
  BY DEF Guessing
<1>4. c \in Telling(cs, r) <=> r \in cs[c].counted /\ ~cs[c].locked
  BY <1>3 DEF Telling
<1>5. ASSUME NEW S, IsFiniteSet(S)
      PROVE  Cardinality(S \ {c}) = Cardinality(S) - (IF c \in S THEN 1 ELSE 0)
  <2>1. CASE c \in S
    <3>1. Cardinality(S \ {c}) = Cardinality(S) - 1
      BY <1>5, <2>1, FS_RemoveElement
    <3>2. QED
      BY <2>1, <3>1
  <2>2. CASE c \notin S
    <3> DEFINE D == S \ {c}
    <3>1. D = S
      BY <2>2
    <3> HIDE DEF D
    <3>2. Cardinality(D) = Cardinality(S)
      BY <3>1
    <3>3. Cardinality(S) \in Nat
      BY <1>5, FS_CardinalityType
    <3>4. Cardinality(D) = Cardinality(S) - (IF c \in S THEN 1 ELSE 0)
      BY <2>2, <3>2, <3>3
    <3>5. QED
      BY <3>4 DEF D
  <2>3. QED
    BY <2>1, <2>2
<1>6. IsFiniteSet(Guessing(cs, r)) /\ IsFiniteSet(Telling(cs, r))
  BY DeskSizes
<1>7. QED
  BY <1>1, <1>2, <1>3, <1>4, <1>5, <1>6

LEMMA DeskFails ==
  ASSUME DeskFit, DeskInv, NEW c \in Call, Desk!Fail(c)
  PROVE  DeskInv'
<1> DEFINE k == deskCalls[c]
           lost(r) == [tally[r] EXCEPT !.failed = @ + 1, !.told = IF k.locked THEN @ ELSE @ + 1]
<1>1. DOMAIN deskCalls = Call /\ \A d \in Call : DeskCallOK(deskCalls[d])
  BY DEF DeskInv
<1>2. k \in DeskVerifying /\ k.phase = "verifying"
  BY <1>1 DEF Desk!Fail, DeskCallOK
<1>3. /\ deskCalls' = [deskCalls EXCEPT ![c] = Desk!Idle] /\ UNCHANGED <<account, deskAttempts>>
      /\ tally' = [r \in DeskRow |-> IF r \notin k.counted THEN tally[r] ELSE lost(r)]
  BY DEF Desk!Fail, DeskRow
<1>4. DeskCallOK(Desk!Idle) /\ Desk!Idle.phase # "verifying"
  BY DEF DeskCallOK, Desk!Idle
<1>5. DOMAIN deskCalls' = Call /\ deskCalls'[c] = Desk!Idle /\ \A d \in Call \ {c} : deskCalls'[d] = deskCalls[d]
  BY <1>1, <1>3
<1>6. ASSUME NEW r \in DeskRow
      PROVE  tally'[r] \in TallyRow /\ Balanced(deskAttempts'[r].count, tally'[r], deskCalls', r)
  <2> DEFINE own == IF r \in k.counted THEN 1 ELSE 0
             tld == IF r \in k.counted /\ ~k.locked THEN 1 ELSE 0
  <2>1. tally[r] \in TallyRow /\ Balanced(deskAttempts[r].count, tally[r], deskCalls, r)
    BY <1>6 DEF DeskInv
  <2>2. /\ tally'[r] \in TallyRow /\ tally'[r].undone = tally[r].undone
        /\ tally'[r].failed = tally[r].failed + own /\ tally'[r].told = tally[r].told + tld
    <3>1. CASE r \notin k.counted
      <4>1. tally'[r] = tally[r] /\ own = 0 /\ tld = 0
        BY <1>3, <1>6, <3>1
      <4>2. QED
        BY <2>1, <4>1 DEF TallyRow
    <3>2. CASE r \in k.counted
      <4>1. tally[r].failed \in Nat /\ tally[r].told \in Nat
        BY <2>1 DEF TallyRow
      <4>2. tally'[r] = [tally[r] EXCEPT !.failed = tally[r].failed + own, !.told = tally[r].told + tld]
        <5>1. tally'[r] = lost(r)
          BY <1>3, <1>6, <3>2
        <5>2. lost(r) = [tally[r] EXCEPT !.failed = tally[r].failed + 1,
                                         !.told = IF k.locked THEN tally[r].told ELSE tally[r].told + 1]
          BY <2>1 DEF TallyRow
        <5>3. own = 1 /\ (IF k.locked THEN tally[r].told ELSE tally[r].told + 1) = tally[r].told + tld
          <6>1. CASE k.locked
            BY <3>2, <4>1, <6>1
          <6>2. CASE ~k.locked
            BY <3>2, <4>1, <6>2
          <6>3. QED
            BY <6>1, <6>2
        <5> HIDE DEF own, tld, k
        <5>4. QED
          BY <5>1, <5>2, <5>3
      <4>3. tally[r].failed + own \in Nat /\ tally[r].told + tld \in Nat
        BY <4>1
      <4> HIDE DEF own, tld
      <4>4. QED
        BY <2>1, <4>2, <4>3 DEF TallyRow
    <3>3. QED
      BY <3>1, <3>2
  <2>3. /\ Cardinality(Guessing(deskCalls', r)) = Cardinality(Guessing(deskCalls, r)) - own
        /\ Cardinality(Telling(deskCalls', r)) = Cardinality(Telling(deskCalls, r)) - tld
    BY <1>2, <1>4, <1>5, OneLess
  <2>4. own \in Int /\ tld \in Int /\ tld <= own
    OBVIOUS
  <2>5. /\ tally[r].failed \in Nat /\ tally[r].told \in Nat /\ tally[r].undone \in Int
        /\ Desk!Limit(r) \in Nat /\ Cardinality(Guessing(deskCalls, r)) \in Nat
        /\ Cardinality(Telling(deskCalls, r)) \in Nat
    BY <1>6, <2>1, DeskSizes, LimitIsThere DEF TallyRow
  <2> HIDE DEF own, tld
  <2>6. deskAttempts'[r].count = deskAttempts[r].count
    BY <1>3
  <2>7. Balanced(deskAttempts'[r].count, tally'[r], deskCalls', r)
    BY <2>1, <2>2, <2>3, <2>4, <2>5, <2>6 DEF Balanced
  <2>8. QED
    BY <2>2, <2>7
<1>7. tally' \in [DeskRow -> TallyRow]
  BY <1>3, <1>6
<1>8. \A d \in Call : DeskCallOK(deskCalls'[d])
  BY <1>1, <1>4, <1>5
<1>9. deskAttempts' \in [DeskRow -> FailRow] /\ account' \in Password \cup {None}
  BY <1>3 DEF DeskInv
<1>10. QED
  BY <1>5, <1>6, <1>7, <1>8, <1>9
     DEF DeskInv, Balanced, Guessing, Telling, DeskRow, FailRow, TallyRow, DeskCallOK, DeskVerifying

LEMMA DeskPasses ==
  ASSUME DeskFit, DeskInv, NEW c \in Call, Desk!Pass(c)
  PROVE  DeskInv'
<1> DEFINE k == deskCalls[c]
           asked == Desk!RowsOf(k.address)
           taken(r) == IF deskAttempts[r].count > 0 THEN 1 ELSE 0
           own(r)   == IF r \in k.counted THEN 1 ELSE 0
           back(r)  == [tally[r] EXCEPT !.undone = @ + taken(r) - own(r)]
<1>1. DOMAIN deskCalls = Call /\ \A d \in Call : DeskCallOK(deskCalls[d])
  BY DEF DeskInv
<1>2. k \in DeskVerifying /\ k.phase = "verifying" /\ k.counted \subseteq asked
  BY <1>1 DEF Desk!Pass, DeskCallOK
<1>3. /\ deskAttempts' = [r \in DeskRow |-> IF r \in asked THEN Desk!Relieved(r, deskAttempts[r]) ELSE deskAttempts[r]]
      /\ tally' = [r \in DeskRow |-> IF r \notin asked THEN tally[r] ELSE back(r)]
      /\ account' = account
  BY DEF Desk!Pass, Desk!ClearOnSuccess, DeskRow
<1>4. PICK u \in [phase : {"idle", "issuing"}] : deskCalls' = [deskCalls EXCEPT ![c] = u]
  <2> DEFINE i == IF k.breach \/ Desk!Locked(deskAttempts', asked) THEN Desk!Idle ELSE [phase |-> "issuing"]
  <2>1. deskCalls' = [deskCalls EXCEPT ![c] = i]
    BY DEF Desk!Pass
  <2>2. i \in [phase : {"idle", "issuing"}]
    BY DEF Desk!Idle
  <2> HIDE DEF i
  <2>3. QED
    BY <2>1, <2>2
<1>5. /\ DOMAIN deskCalls' = Call /\ deskCalls'[c] = u /\ \A d \in Call \ {c} : deskCalls'[d] = deskCalls[d]
      /\ DeskCallOK(u) /\ u.phase # "verifying"
  BY <1>1, <1>4 DEF DeskCallOK
<1>6. ASSUME NEW r \in DeskRow
      PROVE  /\ deskAttempts'[r] \in FailRow /\ tally'[r] \in TallyRow
             /\ Balanced(deskAttempts'[r].count, tally'[r], deskCalls', r)
  <2> DEFINE tk == IF r \in asked THEN taken(r) ELSE 0
             ow == own(r)
             tl == IF r \in k.counted /\ ~k.locked THEN 1 ELSE 0
  <2>1. /\ deskAttempts[r] \in FailRow /\ tally[r] \in TallyRow
        /\ Balanced(deskAttempts[r].count, tally[r], deskCalls, r)
    BY <1>6 DEF DeskInv
  <2>2. /\ tally[r].failed \in Nat /\ tally[r].told \in Nat /\ tally[r].undone \in Int
        /\ deskAttempts[r].count \in Nat /\ Desk!Limit(r) \in Nat
        /\ Cardinality(Guessing(deskCalls, r)) \in Nat /\ Cardinality(Telling(deskCalls, r)) \in Nat
        /\ Cardinality(Telling(deskCalls', r)) <= Cardinality(Guessing(deskCalls', r))
    BY <1>6, <2>1, DeskSizes, LimitIsThere DEF TallyRow, FailRow
  <2>3. /\ Cardinality(Guessing(deskCalls', r)) = Cardinality(Guessing(deskCalls, r)) - ow
        /\ Cardinality(Telling(deskCalls', r)) = Cardinality(Telling(deskCalls, r)) - tl
    <3>1. deskCalls[c].phase = "verifying" /\ deskCalls'[c].phase # "verifying"
      BY <1>2, <1>5
    <3>2. /\ ow = IF r \in deskCalls[c].counted THEN 1 ELSE 0
          /\ tl = IF r \in deskCalls[c].counted /\ ~deskCalls[c].locked THEN 1 ELSE 0
      OBVIOUS
    <3>3. \A d \in Call \ {c} : deskCalls'[d] = deskCalls[d]
      BY <1>5
    <3> HIDE DEF k, asked, taken, own, back, tk, ow, tl
    <3>4. /\ Cardinality(Guessing(deskCalls', r)) =
                Cardinality(Guessing(deskCalls, r)) - (IF r \in deskCalls[c].counted THEN 1 ELSE 0)
          /\ Cardinality(Telling(deskCalls', r)) =
                Cardinality(Telling(deskCalls, r)) -
                    (IF r \in deskCalls[c].counted /\ ~deskCalls[c].locked THEN 1 ELSE 0)
      BY ONLY DeskFit, c \in Call, <3>1, <3>3, OneLess
    <3>5. QED
      BY <3>2, <3>4
  <2>4. deskAttempts'[r] \in FailRow /\ deskAttempts'[r].count = deskAttempts[r].count - tk
    <3>1. CASE r \in asked
      <4> DEFINE n == Desk!Max({deskAttempts[r].count - 1, 0})
                 l == IF deskAttempts[r].count - 1 < Desk!Limit(r) THEN 0 ELSE deskAttempts[r].lock
      <4>1. deskAttempts'[r] = [deskAttempts[r] EXCEPT !.count = n, !.lock = l]
        BY <1>3, <1>6, <3>1 DEF Desk!Relieved
      <4>2. n = IF deskAttempts[r].count - 1 >= 0 THEN deskAttempts[r].count - 1 ELSE 0
        <5>1. deskAttempts[r].count - 1 \in Int /\ 0 \in Int
          BY <2>2
        <5>2. QED
          BY <5>1, DeskMax
      <4>3. n \in Nat /\ n = deskAttempts[r].count - tk
        BY <2>2, <3>1, <4>2
      <4>4. l \in Nat
        BY <2>1 DEF FailRow
      <4> HIDE DEF n, l
      <4>5. deskAttempts'[r] \in FailRow /\ deskAttempts'[r].count = n
        BY <2>1, <4>1, <4>3, <4>4 DEF FailRow
      <4>6. QED
        BY <4>3, <4>5
    <3>2. CASE r \notin asked
      <4>1. deskAttempts'[r] = deskAttempts[r] /\ tk = 0
        BY <1>3, <1>6, <3>2
      <4>2. QED
        BY <2>1, <2>2, <4>1
    <3>3. QED
      BY <3>1, <3>2
  <2>5. /\ tally'[r] \in TallyRow /\ tally'[r].failed = tally[r].failed
        /\ tally'[r].told = tally[r].told /\ tally'[r].undone = tally[r].undone + tk - ow
    <3>1. CASE r \in asked
      <4>1. tally'[r] = back(r)
        BY <1>3, <1>6, <3>1
      <4>2. back(r) = [tally[r] EXCEPT !.undone = tally[r].undone + tk - ow]
        BY <2>1, <3>1 DEF TallyRow
      <4>3. tally[r].undone + tk - ow \in Int
        BY <2>2
      <4> HIDE DEF tk, ow, back
      <4>4. QED
        BY <2>1, <4>1, <4>2, <4>3 DEF TallyRow
    <3>2. CASE r \notin asked
      <4>1. tally'[r] = tally[r] /\ tk = 0 /\ ow = 0
        BY <1>2, <1>3, <1>6, <3>2
      <4>2. QED
        BY <2>1, <2>2, <4>1
    <3>3. QED
      BY <3>1, <3>2
  <2>6. /\ tk \in {0, 1} /\ ow \in {0, 1} /\ tl \in {0, 1} /\ tl <= ow
        /\ tk = 0 /\ ow = 1 => deskAttempts[r].count = 0
    BY <1>2, <2>2
  <2> HIDE DEF tk, ow, tl
  <2>7. Balanced(deskAttempts[r].count, tally[r], deskCalls, r)
    BY <2>1
  <2>8. deskAttempts'[r].count = tally'[r].failed + Cardinality(Guessing(deskCalls', r)) - tally'[r].undone
    BY <2>2, <2>3, <2>4, <2>5, <2>6, <2>7 DEF Balanced
  <2>9. tally'[r].told + Cardinality(Telling(deskCalls', r)) <= Desk!Limit(r) + tally'[r].undone
    <3>1. CASE tk = 0 /\ ow = 1
      BY <2>2, <2>3, <2>5, <2>6, <2>7, <3>1 DEF Balanced
    <3>2. CASE ~(tk = 0 /\ ow = 1)
      BY <2>2, <2>3, <2>5, <2>6, <2>7, <3>2 DEF Balanced
    <3>3. QED
      BY <3>1, <3>2
  <2>10. QED
    BY <2>4, <2>5, <2>7, <2>8, <2>9 DEF Balanced
<1>7. deskAttempts' \in [DeskRow -> FailRow] /\ tally' \in [DeskRow -> TallyRow]
  BY <1>3, <1>6
<1>8. \A d \in Call : DeskCallOK(deskCalls'[d])
  BY <1>1, <1>5
<1>9. account' \in Password \cup {None}
  BY <1>3 DEF DeskInv
<1>10. QED
  BY <1>5, <1>6, <1>7, <1>8, <1>9
     DEF DeskInv, Balanced, Guessing, Telling, DeskRow, FailRow, TallyRow, DeskCallOK, DeskVerifying

(* A sign-in counts itself, in a new window if the last one has ended.       *)
LEMMA DeskReserves ==
  ASSUME DeskFit, DeskInv, NEW c \in Call, Desk!Reserve(c)
  PROVE  DeskInv'
<1> DEFINE asked == Desk!RowsOf(deskCalls[c].address)
           fresh == {r \in asked : deskAttempts[r].age = DeskWindow}
           kept == [r \in DeskRow |-> IF r \in asked THEN Desk!Bumped(r) ELSE deskAttempts[r]]
           Aged(k) == IF k.phase = "verifying" THEN [k EXCEPT !.counted = @ \ fresh] ELSE k
           lk == Desk!Locked(kept, asked)
           br == kept["all"].count = ProgramLimit + 1
           u == [phase |-> "verifying", address |-> deskCalls[c].address, password |-> deskCalls[c].password,
                 expected |-> account, locked |-> lk, breach |-> br, counted |-> asked]
<1>1. DOMAIN deskCalls = Call /\ \A d \in Call : DeskCallOK(deskCalls[d])
  BY DEF DeskInv
<1>2. /\ deskCalls[c].phase = "asked" /\ deskAttempts' = kept /\ account' = account
      /\ deskCalls' = [d \in Call |-> IF d # c THEN Aged(deskCalls[d]) ELSE u]
      /\ tally' = [r \in DeskRow |-> IF r \in fresh THEN Desk!NothingYet ELSE tally[r]]
  BY DEF Desk!Reserve, DeskRow
<1>3. deskCalls[c].address \in Address \cup {None} /\ deskCalls[c].password \in Password
  BY <1>1, <1>2 DEF DeskCallOK, DeskVerifying
<1>4. asked \subseteq DeskRow
  BY <1>3 DEF Desk!RowsOf, DeskRow, Desk!Row
<1>5. lk \in BOOLEAN /\ br \in BOOLEAN
  BY DEF Desk!Locked
<1>6. account \in Password \cup {None}
  BY DEF DeskInv
<1> HIDE DEF lk, br
<1>7. /\ u \in DeskVerifying /\ u.phase = "verifying" /\ u.counted = asked /\ u.address = deskCalls[c].address
      /\ u.locked = lk
  BY <1>3, <1>4, <1>5, <1>6 DEF DeskVerifying
<1> HIDE DEF u, kept
<1>8. DeskCallOK(u)
  BY <1>7 DEF DeskCallOK
<1>9. ASSUME NEW d \in Call, d # c
      PROVE  /\ DeskCallOK(deskCalls'[d]) /\ deskCalls'[d].phase = deskCalls[d].phase
             /\ deskCalls[d].phase = "verifying" =>
                   /\ deskCalls'[d].counted = deskCalls[d].counted \ fresh
                   /\ deskCalls'[d].locked = deskCalls[d].locked
  <2>1. deskCalls'[d] = Aged(deskCalls[d]) /\ DeskCallOK(deskCalls[d])
    BY <1>1, <1>2, <1>9
  <2>2. CASE deskCalls[d].phase # "verifying"
    BY <2>1, <2>2
  <2>3. CASE deskCalls[d].phase = "verifying"
    <3>1. deskCalls[d] \in DeskVerifying /\ deskCalls[d].counted \subseteq Desk!RowsOf(deskCalls[d].address)
      BY <2>1, <2>3 DEF DeskCallOK
    <3>2. deskCalls'[d] = [deskCalls[d] EXCEPT !.counted = deskCalls[d].counted \ fresh]
      BY <2>1, <2>3, <3>1 DEF DeskVerifying
    <3>3. deskCalls[d].counted \ fresh \in SUBSET DeskRow
      BY <3>1 DEF DeskVerifying
    <3> HIDE DEF fresh
    <3>4. /\ deskCalls'[d] \in DeskVerifying /\ deskCalls'[d].phase = "verifying"
          /\ deskCalls'[d].counted = deskCalls[d].counted \ fresh /\ deskCalls'[d].locked = deskCalls[d].locked
          /\ deskCalls'[d].address = deskCalls[d].address
      BY <2>3, <3>1, <3>2, <3>3 DEF DeskVerifying
    <3>5. QED
      BY <2>3, <3>1, <3>4 DEF DeskCallOK
  <2>4. QED
    BY <2>2, <2>3
<1>10. DOMAIN deskCalls' = Call /\ deskCalls'[c] = u
  BY <1>2
<1>11. \A d \in Call : DeskCallOK(deskCalls'[d])
  BY <1>8, <1>9, <1>10
<1>12. ASSUME NEW r \in DeskRow
       PROVE  /\ deskAttempts'[r] \in FailRow /\ tally'[r] \in TallyRow
              /\ Balanced(deskAttempts'[r].count, tally'[r], deskCalls', r)
  <2>1. /\ deskAttempts[r] \in FailRow /\ tally[r] \in TallyRow
        /\ Balanced(deskAttempts[r].count, tally[r], deskCalls, r)
    BY <1>12 DEF DeskInv
  <2>2. /\ tally[r].failed \in Nat /\ tally[r].told \in Nat /\ tally[r].undone \in Int
        /\ deskAttempts[r].count \in Nat /\ Desk!Limit(r) \in Nat \ {0}
        /\ Cardinality(Guessing(deskCalls, r)) \in Nat /\ Cardinality(Telling(deskCalls, r)) \in Nat
        /\ Cardinality(Guessing(deskCalls', r)) \in Nat /\ Cardinality(Telling(deskCalls', r)) \in Nat
        /\ Cardinality(Telling(deskCalls', r)) <= Cardinality(Guessing(deskCalls', r))
    BY <1>12, <2>1, DeskSizes, LimitIsThere DEF TallyRow, FailRow
  <2>3. \A d \in Call : d \in Guessing(deskCalls', r) <=>
            IF d = c THEN r \in asked ELSE d \in Guessing(deskCalls, r) /\ r \notin fresh
    BY <1>7, <1>9, <1>10 DEF Guessing
  <2>4. \A d \in Call : d \in Telling(deskCalls', r) <=>
            IF d = c THEN r \in asked /\ ~lk ELSE d \in Telling(deskCalls, r) /\ r \notin fresh
    BY <1>7, <1>9, <1>10, <2>3 DEF Telling, Guessing
  <2>5. c \notin Guessing(deskCalls, r) /\ c \notin Telling(deskCalls, r)
    BY <1>2 DEF Guessing, Telling
  <2>6. /\ Guessing(deskCalls', r) \subseteq Call /\ Telling(deskCalls', r) \subseteq Call
        /\ Guessing(deskCalls, r) \subseteq Call /\ Telling(deskCalls, r) \subseteq Call
    BY DEF Guessing, Telling
  <2>7. deskAttempts'[r] = IF r \in asked THEN Desk!Bumped(r) ELSE deskAttempts[r]
    BY <1>2, <1>12 DEF kept
  <2>8. tally'[r] = IF r \in fresh THEN Desk!NothingYet ELSE tally[r]
    BY <1>2, <1>12
  <2>9. CASE r \notin asked
    <3>1. r \notin fresh
      BY <2>9
    <3> HIDE DEF fresh, asked
    <3>2. Guessing(deskCalls', r) = Guessing(deskCalls, r) /\ Telling(deskCalls', r) = Telling(deskCalls, r)
      BY <2>3, <2>4, <2>5, <2>6, <2>9, <3>1
    <3>3. deskAttempts'[r] = deskAttempts[r] /\ tally'[r] = tally[r]
      BY <2>7, <2>8, <2>9, <3>1
    <3>4. QED
      BY <2>1, <3>2, <3>3 DEF Balanced
  <2>10. CASE r \in fresh
    <3>1. deskAttempts'[r] = [age |-> 0, count |-> 1, lock |-> 0]
      BY <2>7, <2>10 DEF Desk!Bumped
    <3>2. tally'[r] = [failed |-> 0, told |-> 0, undone |-> 0]
      BY <2>8, <2>10 DEF Desk!NothingYet
    <3>3. r \in asked
      BY <2>10
    <3> HIDE DEF fresh, asked
    <3>4. Guessing(deskCalls', r) = {c}
      BY <2>3, <2>6, <2>10, <3>3
    <3>5. Cardinality(Guessing(deskCalls', r)) = 1
      BY <3>4, FS_Singleton
    <3>6. Balanced(1, tally'[r], deskCalls', r)
      BY <2>2, <3>2, <3>5 DEF Balanced
    <3>7. QED
      BY <3>1, <3>2, <3>6 DEF FailRow, TallyRow
  <2>11. CASE r \in asked /\ r \notin fresh
    <3> DEFINE n == deskAttempts[r].count + 1
               l == IF n <= Desk!Limit(r) THEN 0 ELSE Desk!LockFor(n - Desk!Limit(r))
    <3>1. deskAttempts'[r] = [deskAttempts[r] EXCEPT !.count = n, !.lock = l]
      BY <2>7, <2>11 DEF Desk!Bumped
    <3>2. tally'[r] = tally[r]
      BY <2>8, <2>11
    <3>3. n > Desk!Limit(r) => n - Desk!Limit(r) \in Nat \ {0}
      BY <2>2
    <3>4. l \in Nat /\ (n > Desk!Limit(r) => l > 0)
      <4>1. CASE n <= Desk!Limit(r)
        BY <2>2, <4>1
      <4>2. CASE n > Desk!Limit(r)
        <5>1. l = Desk!LockFor(n - Desk!Limit(r))
          BY <2>2, <4>2
        <5>2. Desk!LockFor(n - Desk!Limit(r)) \in Nat \ {0}
          BY <3>3, <4>2, LockIsLong
        <5>3. QED
          BY <5>1, <5>2
      <4>3. QED
        BY <2>2, <4>1, <4>2
    <3>5. n \in Nat
      BY <2>2
    <3> HIDE DEF n, l
    <3>6. deskAttempts'[r] \in FailRow /\ deskAttempts'[r].count = n /\ deskAttempts'[r].lock = l
      BY <2>1, <3>1, <3>4, <3>5 DEF FailRow
    <3>7. ~lk => n <= Desk!Limit(r)
      <4>1. ~lk => ~(kept[r].lock > 0)
        BY <2>11 DEF lk, Desk!Locked
      <4>2. kept[r] = deskAttempts'[r]
        BY <1>2
      <4>3. QED
        BY <2>2, <3>4, <3>5, <3>6, <4>1, <4>2
    <3> HIDE DEF fresh, asked
    <3>8. Guessing(deskCalls', r) = Guessing(deskCalls, r) \cup {c}
      BY <2>3, <2>5, <2>6, <2>11
    <3>9. Cardinality(Guessing(deskCalls', r)) = Cardinality(Guessing(deskCalls, r)) + 1
      BY <2>5, <3>8, DeskSizes, FS_AddElement
    <3>10. n = tally[r].failed + Cardinality(Guessing(deskCalls', r)) - tally[r].undone
      BY <2>1, <2>2, <3>9 DEF Balanced, n
    <3>11. tally[r].told + Cardinality(Telling(deskCalls', r)) <= Desk!Limit(r) + tally[r].undone
      <4>1. CASE lk
        <5>1. Telling(deskCalls', r) = Telling(deskCalls, r)
          BY <2>4, <2>5, <2>6, <2>11, <4>1
        <5>2. QED
          BY <2>1, <5>1 DEF Balanced
      <4>2. CASE ~lk
        <5>1. n <= Desk!Limit(r) /\ tally[r].told <= tally[r].failed
          BY <2>1, <3>7, <4>2 DEF Balanced
        <5>2. QED
          BY <2>2, <3>5, <3>10, <5>1
      <4>3. QED
        BY <4>1, <4>2
    <3>12. QED
      BY <2>1, <3>2, <3>6, <3>10, <3>11 DEF Balanced
  <2>12. QED
    BY <2>9, <2>10, <2>11
<1>13. deskAttempts' \in [DeskRow -> FailRow] /\ tally' \in [DeskRow -> TallyRow]
  BY <1>2, <1>12 DEF kept
<1>14. account' \in Password \cup {None}
  BY <1>2, <1>6
<1>15. QED
  BY <1>10, <1>11, <1>12, <1>13, <1>14
     DEF DeskInv, Balanced, Guessing, Telling, DeskRow, FailRow, TallyRow, DeskCallOK, DeskVerifying

LEMMA DeskStep == DeskFit /\ DeskInv /\ [Desk!Next]_(Desk!vars) => DeskInv'
<1> SUFFICES ASSUME DeskFit, DeskInv, [Desk!Next]_(Desk!vars)
             PROVE  DeskInv'
  OBVIOUS
<1>1. CASE UNCHANGED Desk!vars
  <2>1. UNCHANGED <<deskAttempts, tally, account, deskCalls>>
    BY <1>1 DEF Desk!vars
  <2>2. QED
    BY <2>1, DeskStays DEF DeskInv
<1>2. ASSUME NEW c \in Call,
             \/ \E a \in Address \cup {None}, q \in Password : Desk!Ask(c, a, q)
             \/ Desk!Refuse(c) \/ Desk!Issue(c)
      PROVE  DeskInv'
  BY <1>2, DeskQuiet
<1>3. ASSUME NEW c \in Call, Desk!Reserve(c) \/ Desk!Fail(c) \/ Desk!Pass(c)
      PROVE  DeskInv'
  BY <1>3, DeskReserves, DeskFails, DeskPasses
<1>4. CASE \/ Desk!Tick \/ \E n \in 1 .. MaxSessions : Desk!Use(n) \/ Desk!SignOut(n)
           \/ \E q \in Password : Desk!RotateCredential(q)
  BY <1>4, DeskWaits
<1>5. QED
  BY <1>1, <1>2, <1>3, <1>4 DEF Desk!Next

LEMMA DeskSafe == DeskFit /\ DeskInv => Desk!GuessesBounded
<1> SUFFICES ASSUME DeskFit, DeskInv, NEW r \in DeskRow
             PROVE  tally[r].told <= Desk!Limit(r) + tally[r].undone
  BY DEF Desk!GuessesBounded, DeskRow
<1>1. tally[r] \in TallyRow /\ Balanced(deskAttempts[r].count, tally[r], deskCalls, r)
  BY DEF DeskInv
<1>2. /\ tally[r].told \in Nat /\ tally[r].undone \in Int /\ Desk!Limit(r) \in Nat
      /\ Cardinality(Telling(deskCalls, r)) \in Nat
  BY <1>1, DeskSizes, LimitIsThere DEF TallyRow
<1>3. QED
  BY <1>1, <1>2 DEF Balanced

(* However the sign-ins of an address or of all interleave, and whatever the  *)
(* number of them, the limits and the lengths of windows and locks: no more   *)
(* guesses are told that they are wrong than the limit allows, and one more   *)
(* for each success that took back a failure of another window.               *)
THEOREM FewAreTold == ASSUME DeskFit PROVE Desk!Spec => []Desk!GuessesBounded
BY DeskSafe, DeskInit, DeskStep, PTL DEF Desk!Spec

-----------------------------------------------------------------------------
(* The types of a stream on the air *)

\* What is typed apart from the history of calm.
AirTyped ==
    /\ meter \in [session : 0 .. MaxSession, reported : BOOLEAN \cup {None}, low : 0 .. QuietSamples,
                  muted : BOOLEAN, due : BOOLEAN, fresh : BOOLEAN]
    /\ sounding \in BOOLEAN
    /\ reports \subseteq [session : Air!Session, active : BOOLEAN]
    /\ room \subseteq Listener
    /\ hooks \subseteq [kind : {"joined", "left", "track"}, who : Listener \cup Air!Session]
    /\ lease \in [issued : 0 .. MaxSession, open : BOOLEAN, published : 0 .. MaxSession]
    /\ activity = None \/ activity \in [session : Air!Session, active : BOOLEAN, age : 0 .. SoundWindow + 1]
    /\ \A c \in Listener : records[c] = None \/ records[c] \in 0 .. StaleAfter + 1
    /\ rows \in [Listener -> [status : {"requested", "connected", "disconnected"}, seen : 0 .. SeenWindow]]
    /\ build \in {None, "offline", "silent", "live"}
    /\ entry = None \/ entry \in [state : {"offline", "silent", "live"}, kept : 0 .. CacheTtl]

LEMMA OlderType ==
    ASSUME NEW limit \in Nat, NEW age \in 0 .. limit
    PROVE  Air!Older(age, limit) \in 0 .. limit
  BY DEF Air!Older

LEMMA StateType == Air!StreamState \in {"offline", "silent", "live"}
  BY DEF Air!StreamState

LEMMA AirBounds ==
    /\ MaxSession \in Nat /\ QuietSamples \in Nat /\ SoundWindow \in Nat
    /\ SeenWindow \in Nat /\ StaleAfter \in Nat /\ CacheTtl \in Nat
  BY OfficeAssumption, UserAccountsAssumption DEF AirFit

\* A closed reservation has the type of one.
LEMMA ClosedTyped == AirTyped => Air!Closed \in [issued : 0 .. MaxSession, open : BOOLEAN, published : 0 .. MaxSession]
  <1> SUFFICES ASSUME AirTyped PROVE Air!Closed \in [issued : 0 .. MaxSession, open : BOOLEAN, published : 0 .. MaxSession]
    OBVIOUS
  <1>1. 0 \in 0 .. MaxSession
    BY AirBounds
  <1>2. PICK m \in [issued : 0 .. MaxSession, open : BOOLEAN, published : 0 .. MaxSession] :
            m = [lease EXCEPT !.open = FALSE]
    BY DEF AirTyped
  <1>3. Air!Closed = [m EXCEPT !.published = 0]
    BY <1>2 DEF Air!Closed, AirTyped
  <1> QED BY <1>1, <1>2, <1>3

LEMMA PrunedTyped ==
    ASSUME AirTyped, NEW c \in Listener
    PROVE  Air!Pruned(records)[c] = None \/ Air!Pruned(records)[c] \in 0 .. StaleAfter + 1
  BY DEF AirTyped, Air!Pruned

LEMMA GoLiveTyped == AirTyped /\ Air!GoLive => AirTyped'
  <1> SUFFICES ASSUME AirTyped, Air!GoLive PROVE AirTyped'
    OBVIOUS
  <1>1. PICK s \in Air!Session : s = lease.issued + 1
    BY AirBounds DEF AirTyped, Air!GoLive, Air!Session
  <1>2. meter' \in [session : 0 .. MaxSession, reported : BOOLEAN \cup {None}, low : 0 .. QuietSamples,
                    muted : BOOLEAN, due : BOOLEAN, fresh : BOOLEAN]
    <2>1. meter' = [session |-> s, reported |-> None, low |-> 0, muted |-> meter.muted, due |-> TRUE, fresh |-> FALSE]
      BY <1>1 DEF Air!GoLive, Air!NoMeter
    <2>2. s \in 0 .. MaxSession /\ 0 \in 0 .. QuietSamples /\ meter.muted \in BOOLEAN
      BY <1>1, AirBounds DEF AirTyped, Air!Session
    <2> QED BY <2>1, <2>2
  <1>3. lease' \in [issued : 0 .. MaxSession, open : BOOLEAN, published : 0 .. MaxSession]
    BY <1>1, AirBounds DEF Air!GoLive, Air!Session
  <1>4. hooks' \subseteq [kind : {"joined", "left", "track"}, who : Listener \cup Air!Session]
    BY <1>1 DEF Air!GoLive, AirTyped
  <1> QED BY <1>2, <1>3, <1>4 DEF Air!GoLive, Air!memory, AirTyped, Air!Session

LEMMA PageStopsTyped == AirTyped /\ Air!PageStops => AirTyped'
  <1> SUFFICES ASSUME AirTyped, Air!PageStops PROVE AirTyped'
    OBVIOUS
  <1>1. meter.session \in Air!Session
    BY AirBounds DEF AirTyped, Air!PageStops, Air!Session
  <1>2. meter' \in [session : 0 .. MaxSession, reported : BOOLEAN \cup {None}, low : 0 .. QuietSamples,
                    muted : BOOLEAN, due : BOOLEAN, fresh : BOOLEAN]
    <2>1. meter' = [session |-> 0, reported |-> None, low |-> 0, muted |-> meter.muted, due |-> FALSE, fresh |-> FALSE]
      BY DEF Air!PageStops, Air!NoMeter
    <2>2. 0 \in 0 .. MaxSession /\ 0 \in 0 .. QuietSamples /\ meter.muted \in BOOLEAN
      BY AirBounds DEF AirTyped
    <2> QED BY <2>1, <2>2
  <1>3. lease' \in [issued : 0 .. MaxSession, open : BOOLEAN, published : 0 .. MaxSession]
    BY ClosedTyped DEF Air!PageStops, AirTyped
  <1>4. hooks' \subseteq [kind : {"joined", "left", "track"}, who : Listener \cup Air!Session]
    BY <1>1 DEF Air!PageStops, AirTyped
  <1>5. reports' \subseteq [session : Air!Session, active : BOOLEAN]
    <2>1. [session |-> meter.session, active |-> FALSE] \in [session : Air!Session, active : BOOLEAN]
      BY <1>1
    <2>2. reports' \subseteq reports \cup {[session |-> meter.session, active |-> FALSE]}
      BY DEF Air!PageStops, Air!MeterCloses
    <2> QED BY <2>1, <2>2 DEF AirTyped
  <1> QED BY <1>2, <1>3, <1>4, <1>5 DEF Air!PageStops, Air!memory, AirTyped, Air!Session

LEMMA PageDiesTyped == AirTyped /\ Air!PageDies => AirTyped'
  <1> SUFFICES ASSUME AirTyped, Air!PageDies PROVE AirTyped'
    OBVIOUS
  <1>1. meter.session \in Air!Session
    BY AirBounds DEF AirTyped, Air!PageDies, Air!Session
  <1>2. meter' \in [session : 0 .. MaxSession, reported : BOOLEAN \cup {None}, low : 0 .. QuietSamples,
                    muted : BOOLEAN, due : BOOLEAN, fresh : BOOLEAN]
    BY AirBounds DEF Air!PageDies, Air!NoMeter
  <1>3. hooks' \subseteq [kind : {"joined", "left", "track"}, who : Listener \cup Air!Session]
    BY <1>1 DEF Air!PageDies, AirTyped
  <1> QED BY <1>2, <1>3 DEF Air!PageDies, Air!memory, AirTyped, Air!Session

LEMMA MicrophoneTyped == AirTyped /\ (Air!SoundChanges \/ Air!PressMute) => AirTyped'
  <1>1. AirTyped /\ Air!SoundChanges => AirTyped'
    BY DEF Air!SoundChanges, Air!memory, AirTyped, Air!Session
  <1>2. AirTyped /\ Air!PressMute => AirTyped'
    BY DEF Air!PressMute, Air!memory, AirTyped, Air!Session
  <1> QED BY <1>1, <1>2

LEMMA MeterPollsTyped == AirTyped /\ Air!MeterPolls => AirTyped'
  <1> SUFFICES ASSUME AirTyped, Air!MeterPolls PROVE AirTyped'
    OBVIOUS
  <1>1. meter.session \in Air!Session
    BY AirBounds DEF AirTyped, Air!MeterPolls, Air!Session
  <1>2. PICK low \in Nat : low = IF sounding \/ meter.reported # TRUE THEN 0 ELSE meter.low + 1
    <2>1. meter.low + 1 \in Nat
      BY AirBounds DEF AirTyped
    <2> QED BY <2>1
  <1>3. PICK active \in BOOLEAN : active = Air!Active(low)
    BY DEF Air!Active
  <1>4. PICK sent \in BOOLEAN : sent = Air!Reports(active)
    BY DEF Air!Reports
  <1>5. /\ meter' = [meter EXCEPT !.low = IF active THEN low ELSE 0, !.due = FALSE,
                        !.reported = IF sent THEN active ELSE @, !.fresh = @ \/ sent]
        /\ reports' = reports \cup (IF sent THEN {[session |-> meter.session, active |-> active]} ELSE {})
    BY <1>2, <1>3, <1>4 DEF Air!MeterPolls
  <1>6. active => low \in 0 .. QuietSamples
    <2> SUFFICES ASSUME active PROVE low \in 0 .. QuietSamples
      OBVIOUS
    <2>1. CASE sounding
      <3>1. low = 0
        BY <1>2, <2>1
      <3> QED BY <3>1, AirBounds
    <2>2. CASE ~sounding
      <3>1. low < QuietSamples
        BY <1>3, <2>2 DEF Air!Active
      <3> QED BY <3>1, AirBounds
    <2> QED BY <2>1, <2>2
  <1>7. meter' \in [session : 0 .. MaxSession, reported : BOOLEAN \cup {None}, low : 0 .. QuietSamples,
                    muted : BOOLEAN, due : BOOLEAN, fresh : BOOLEAN]
    <2>1. PICK l \in 0 .. QuietSamples : l = IF active THEN low ELSE 0
      BY <1>6, AirBounds
    <2>2. PICK f \in BOOLEAN : f = (meter.fresh \/ sent)
      OBVIOUS
    <2>3. PICK r \in BOOLEAN \cup {None} : r = IF sent THEN active ELSE meter.reported
      BY DEF AirTyped
    <2>4. meter' = [meter EXCEPT !.low = l, !.due = FALSE, !.reported = r, !.fresh = f]
      BY <1>5, <2>1, <2>2, <2>3 DEF AirTyped
    <2> QED BY <2>4 DEF AirTyped
  <1>8. reports' \subseteq [session : Air!Session, active : BOOLEAN]
    BY <1>1, <1>5 DEF AirTyped
  <1> QED BY <1>7, <1>8 DEF Air!MeterPolls, Air!memory, AirTyped, Air!Session

LEMMA ReportTyped ==
    ASSUME AirTyped, NEW r \in reports, Air!ReportLost(r) \/ Air!ReportArrives(r)
    PROVE  AirTyped'
  <1>1. CASE Air!ReportLost(r)
    BY <1>1 DEF Air!ReportLost, Air!memory, AirTyped, Air!Session
  <1>2. CASE Air!ReportArrives(r)
    <2>1. r \in [session : Air!Session, active : BOOLEAN]
      BY DEF AirTyped
    <2>2. activity' = None \/ activity' \in [session : Air!Session, active : BOOLEAN, age : 0 .. SoundWindow + 1]
      <3>1. 0 \in 0 .. SoundWindow + 1
        BY AirBounds
      <3> QED BY <1>2, <2>1, <3>1 DEF Air!ReportArrives, AirTyped
    <2> QED BY <1>2, <2>2 DEF Air!ReportArrives, AirTyped, Air!Session
  <1> QED BY <1>1, <1>2

LEMMA RoomTyped ==
    ASSUME AirTyped, NEW c \in Listener, Air!EntersRoom(c) \/ Air!LeavesRoom(c)
    PROVE  AirTyped'
  <1>1. /\ room' \subseteq Listener
        /\ hooks' \subseteq [kind : {"joined", "left", "track"}, who : Listener \cup Air!Session]
    BY DEF Air!EntersRoom, Air!LeavesRoom, AirTyped
  <1> QED BY <1>1 DEF Air!EntersRoom, Air!LeavesRoom, Air!page, Air!memory, AirTyped, Air!Session

LEMMA HookTyped ==
    ASSUME AirTyped, NEW h \in hooks,
           \/ Air!HookLost(h) \/ Air!PresenceJoin(h) \/ Air!PresenceLeave(h)
           \/ Air!TranslatorLeft(h) \/ Air!TrackPublished(h)
    PROVE  AirTyped'
  <1>1. hooks' = hooks \ {h}
    BY DEF Air!HookLost, Air!PresenceJoin, Air!PresenceLeave, Air!TranslatorLeft, Air!TrackPublished
  <1>2. CASE Air!HookLost(h)
    BY <1>1, <1>2 DEF Air!HookLost, Air!page, Air!memory, AirTyped, Air!Session
  <1>3. CASE Air!PresenceJoin(h) \/ Air!PresenceLeave(h)
    <2>1. \A c \in Listener : records'[c] = None \/ records'[c] \in 0 .. StaleAfter + 1
      <3>1. ASSUME NEW c \in Listener PROVE records'[c] = None \/ records'[c] \in 0 .. StaleAfter + 1
        <4>1. \/ records' = [Air!Pruned(records) EXCEPT ![h.who] = 0]
              \/ records' = [Air!Pruned(records) EXCEPT ![h.who] = None]
          BY <1>3 DEF Air!PresenceJoin, Air!PresenceLeave
        <4>2. records'[c] \in {0, None, Air!Pruned(records)[c]}
          BY <4>1 DEF Air!Pruned
        <4> QED BY <4>2, PrunedTyped, AirBounds
      <3> QED BY <3>1
    <2> QED BY <1>1, <1>3, <2>1 DEF Air!PresenceJoin, Air!PresenceLeave, Air!page, AirTyped, Air!Session
  <1>4. CASE Air!TranslatorLeft(h) \/ Air!TrackPublished(h)
    <2>1. lease' \in [issued : 0 .. MaxSession, open : BOOLEAN, published : 0 .. MaxSession]
      <3>1. CASE Air!TranslatorLeft(h)
        BY <3>1, ClosedTyped DEF Air!TranslatorLeft, AirTyped
      <3>2. CASE Air!TrackPublished(h)
        BY <3>2 DEF Air!TrackPublished, AirTyped
      <3> QED BY <1>4, <3>1, <3>2
    <2> QED BY <1>1, <1>4, <2>1 DEF Air!TranslatorLeft, Air!TrackPublished, Air!page, Air!memory, AirTyped, Air!Session
  <1> QED BY <1>2, <1>3, <1>4

LEMMA ConnectionTyped ==
    ASSUME AirTyped, NEW c \in Listener,
           Air!MarkConnected(c) \/ Air!RecordHeartbeat(c) \/ Air!Disconnect(c)
    PROVE  AirTyped'
  <1>1. PICK to \in {"requested", "connected", "disconnected"} :
            rows' = [rows EXCEPT ![c] = [status |-> to, seen |-> 0]]
    BY DEF Air!MarkConnected, Air!RecordHeartbeat, Air!Disconnect, Air!Row
  <1>2. 0 \in 0 .. SeenWindow
    BY AirBounds
  <1>3. rows' \in [Listener -> [status : {"requested", "connected", "disconnected"}, seen : 0 .. SeenWindow]]
    BY <1>1, <1>2 DEF AirTyped
  <1> QED BY <1>3 DEF Air!MarkConnected, Air!RecordHeartbeat, Air!Disconnect, Air!Row,
                      Air!page, Air!memory, AirTyped, Air!Session

LEMMA StatusTyped ==
    AirTyped /\ (Air!BuildBegins \/ Air!BuildEnds \/ Air!ReadStatus \/ Air!Restart) => AirTyped'
  <1> SUFFICES ASSUME AirTyped, Air!BuildBegins \/ Air!BuildEnds \/ Air!ReadStatus \/ Air!Restart
               PROVE  AirTyped'
    OBVIOUS
  <1>1. CASE Air!BuildBegins
    BY <1>1, PrunedTyped, StateType DEF Air!BuildBegins, Air!page, AirTyped, Air!Session
  <1>2. CASE Air!BuildEnds
    <2>1. entry' \in [state : {"offline", "silent", "live"}, kept : 0 .. CacheTtl]
      BY <1>2, AirBounds DEF Air!BuildEnds, Air!Stored, AirTyped
    <2> QED BY <1>2, <2>1 DEF Air!BuildEnds, Air!page, AirTyped, Air!Session
  <1>3. CASE Air!ReadStatus
    BY <1>3, PrunedTyped DEF Air!ReadStatus, Air!page, AirTyped, Air!Session
  <1>4. CASE Air!Restart
    BY <1>4 DEF Air!Restart, Air!page, AirTyped, Air!Session
  <1> QED BY <1>1, <1>2, <1>3, <1>4

LEMMA TickTyped == AirTyped /\ Air!Tick => AirTyped'
  <1> SUFFICES ASSUME AirTyped, Air!Tick PROVE AirTyped'
    OBVIOUS
  <1>1. meter' \in [session : 0 .. MaxSession, reported : BOOLEAN \cup {None}, low : 0 .. QuietSamples,
                    muted : BOOLEAN, due : BOOLEAN, fresh : BOOLEAN]
    <2>1. PICK d \in BOOLEAN : d = (meter.session # 0)
      OBVIOUS
    <2>2. meter' = [meter EXCEPT !.due = d, !.fresh = FALSE]
      BY <2>1 DEF Air!Tick
    <2> QED BY <2>2 DEF AirTyped
  <1>2. activity' = None \/ activity' \in [session : Air!Session, active : BOOLEAN, age : 0 .. SoundWindow + 1]
    <2>1. CASE activity = None
      BY <2>1 DEF Air!Tick
    <2>2. CASE activity # None
      <3>1. activity \in [session : Air!Session, active : BOOLEAN, age : 0 .. SoundWindow + 1]
        BY <2>2 DEF AirTyped
      <3>2. PICK a \in 0 .. SoundWindow + 1 : a = Air!Older(activity.age, SoundWindow + 1)
        BY <3>1, OlderType, AirBounds
      <3>3. activity' = [activity EXCEPT !.age = a]
        BY <2>2, <3>2 DEF Air!Tick
      <3> QED BY <3>1, <3>2, <3>3
    <2> QED BY <2>1, <2>2
  <1>3. \A c \in Listener : records'[c] = None \/ records'[c] \in 0 .. StaleAfter + 1
    <2>1. ASSUME NEW c \in Listener PROVE records'[c] = None \/ records'[c] \in 0 .. StaleAfter + 1
      <3>1. records'[c] = IF records[c] = None THEN None ELSE Air!Older(records[c], StaleAfter + 1)
        BY DEF Air!Tick
      <3>2. StaleAfter + 1 \in Nat
        BY AirBounds
      <3> QED BY <3>1, <3>2, OlderType DEF AirTyped
    <2> QED BY <2>1
  <1>4. rows' \in [Listener -> [status : {"requested", "connected", "disconnected"}, seen : 0 .. SeenWindow]]
    <2>1. ASSUME NEW c \in Listener
          PROVE  [rows[c] EXCEPT !.seen = IF rows[c].status = "connected"
                                                  THEN Air!Older(@, SeenWindow) ELSE @]
                     \in [status : {"requested", "connected", "disconnected"}, seen : 0 .. SeenWindow]
      <3>1. rows[c] \in [status : {"requested", "connected", "disconnected"}, seen : 0 .. SeenWindow]
        BY DEF AirTyped
      <3>2. PICK n \in 0 .. SeenWindow : n = IF rows[c].status = "connected"
                                             THEN Air!Older(rows[c].seen, SeenWindow) ELSE rows[c].seen
        BY <3>1, OlderType, AirBounds
      <3> QED BY <3>1, <3>2
    <2> QED BY <2>1 DEF Air!Tick
  <1>5. entry' = None \/ entry' \in [state : {"offline", "silent", "live"}, kept : 0 .. CacheTtl]
    <2>1. CASE entry = None
      BY <2>1 DEF Air!Tick
    <2>2. CASE entry # None
      <3>1. entry \in [state : {"offline", "silent", "live"}, kept : 0 .. CacheTtl]
        BY <2>2 DEF AirTyped
      <3>2. PICK n \in 0 .. CacheTtl : n = Air!Older(entry.kept, CacheTtl)
        BY <3>1, OlderType, AirBounds
      <3>3. entry' = [entry EXCEPT !.kept = n]
        BY <2>2, <3>2 DEF Air!Tick
      <3> QED BY <3>1, <3>2, <3>3
    <2> QED BY <2>1, <2>2
  <1>6. UNCHANGED <<sounding, reports, room, hooks, lease, build>>
    BY DEF Air!Tick
  <1> QED BY <1>1, <1>2, <1>3, <1>4, <1>5, <1>6 DEF AirTyped, Air!Session

LEMMA AirInitTyped == Air!Init => Air!TypeOK
  <1> SUFFICES ASSUME Air!Init PROVE Air!TypeOK
    OBVIOUS
  <1>1. meter \in [session : 0 .. MaxSession, reported : BOOLEAN \cup {None}, low : 0 .. QuietSamples,
                   muted : BOOLEAN, due : BOOLEAN, fresh : BOOLEAN]
    BY AirBounds DEF Air!Init, Air!NoMeter
  <1>2. lease \in [issued : 0 .. MaxSession, open : BOOLEAN, published : 0 .. MaxSession]
    BY AirBounds DEF Air!Init
  <1>3. rows \in [Listener -> [status : {"requested", "connected", "disconnected"}, seen : 0 .. SeenWindow]]
    BY AirBounds DEF Air!Init
  <1>4. calm \in 0 .. CacheTtl + SoundWindow
    BY AirBounds DEF Air!Init
  <1> QED BY <1>1, <1>2, <1>3, <1>4 DEF Air!Init, Air!TypeOK

LEMMA AirStepTyped == Air!TypeOK /\ [Air!Next]_ofAir => Air!TypeOK'
  <1> SUFFICES ASSUME Air!TypeOK, [Air!Next]_ofAir PROVE Air!TypeOK'
    OBVIOUS
  <1>1. AirTyped /\ calm \in 0 .. CacheTtl + SoundWindow
    BY DEF Air!TypeOK, AirTyped
  <1>2. CASE Air!Timeless(Air!Step)
    <2>1. calm' \in 0 .. CacheTtl + SoundWindow
      BY <1>1, <1>2, AirBounds DEF Air!Timeless, Air!Calm
    <2>2. AirTyped'
      <3>1. Air!Step
        BY <1>2 DEF Air!Timeless
      <3> QED
        BY <1>1, <3>1, GoLiveTyped, PageStopsTyped, PageDiesTyped, MicrophoneTyped, MeterPollsTyped, ReportTyped,
           RoomTyped, HookTyped, ConnectionTyped, StatusTyped DEF Air!Step
    <2> QED BY <2>1, <2>2 DEF Air!TypeOK, AirTyped
  <1>3. CASE Air!TimePasses
    <2>1. calm' \in 0 .. CacheTtl + SoundWindow
      BY <1>1, <1>3, OlderType, AirBounds DEF Air!TimePasses, Air!Calm
    <2>2. AirTyped'
      BY <1>1, <1>3, TickTyped DEF Air!TimePasses
    <2> QED BY <2>1, <2>2 DEF Air!TypeOK, AirTyped
  <1>4. CASE UNCHANGED ofAir
    BY <1>4 DEF ofAir, Air!TypeOK, Air!Session
  <1> QED BY <1>2, <1>3, <1>4 DEF Air!Next

-----------------------------------------------------------------------------
(* The types of the approver's desk.  A session is renewed for what is left  *)
(* of its shift at most, and a lock is one of the lengths in the table.      *)

Shift == {x \in [idle : 1 .. ShiftTicks, left : 1 .. ShiftTicks] : x.idle <= x.left}

DeskBounds ==
    /\ deskSessions \in [1 .. MaxSessions -> Shift \cup {Desk!NoSession}]
    /\ \A r \in DeskRow : /\ deskAttempts[r].age <= DeskWindow
                          /\ \E i \in DOMAIN DeskLocks : deskAttempts[r].lock <= DeskLocks[i]

LEMMA SomeLock ==
  ASSUME DeskFit
  PROVE  /\ \A i \in DOMAIN DeskLocks : DeskLocks[i] \in Nat
         /\ \E i \in DOMAIN DeskLocks : 0 <= DeskLocks[i]
         /\ \A n \in Nat \ {0} : \E i \in DOMAIN DeskLocks : Desk!LockFor(n) <= DeskLocks[i]
<1>1. /\ Len(DeskLocks) \in Nat \ {0} /\ DOMAIN DeskLocks = 1 .. Len(DeskLocks)
      /\ \A i \in 1 .. Len(DeskLocks) : DeskLocks[i] \in Nat
  BY DEF DeskFit
<1>2. 1 \in DOMAIN DeskLocks /\ 0 <= DeskLocks[1]
  BY <1>1
<1>3. ASSUME NEW n \in Nat \ {0}
      PROVE  \E i \in DOMAIN DeskLocks : Desk!LockFor(n) <= DeskLocks[i]
  <2>1. PICK i : i = Desk!Min({n, Len(DeskLocks)})
    OBVIOUS
  <2>2. i = IF n <= Len(DeskLocks) THEN n ELSE Len(DeskLocks)
    <3>1. Len(DeskLocks) \in Int /\ n \in Int
      BY <1>1
    <3>2. QED
      BY <2>1, <3>1, DeskMax
  <2>3. i \in 1 .. Len(DeskLocks)
    <3>1. Len(DeskLocks) \in Nat /\ Len(DeskLocks) # 0 /\ n \in Nat /\ n # 0
      BY <1>1, <1>3
    <3>2. QED
      BY ONLY <2>2, <3>1
  <2>4. Desk!LockFor(n) = DeskLocks[i] /\ DeskLocks[i] \in Nat
    BY <1>1, <2>1, <2>3 DEF Desk!LockFor
  <2>5. QED
    BY <1>1, <2>3, <2>4
<1>4. QED
  BY <1>1, <1>2, <1>3

LEMMA DeskBoundsInit == DeskFit /\ Desk!Init => DeskBounds
<1> SUFFICES ASSUME DeskFit, Desk!Init
             PROVE  DeskBounds
  OBVIOUS
<1>1. deskSessions = [n \in 1 .. MaxSessions |-> Desk!NoSession]
  BY DEF Desk!Init, Desk!NoSessions
<1>2. \A r \in DeskRow : deskAttempts[r].age = DeskWindow /\ deskAttempts[r].lock = 0
  BY DEF Desk!Init, Desk!NoFailures, DeskRow
<1>3. DeskWindow <= DeskWindow
  BY DEF DeskFit
<1>4. QED
  BY <1>1, <1>2, <1>3, SomeLock DEF DeskBounds

(* What the sessions become keeps their bounds.                              *)
LEMMA SessionsKeep ==
  ASSUME DeskFit, DeskBounds, [Desk!Next]_(Desk!vars)
  PROVE  deskSessions' \in [1 .. MaxSessions -> Shift \cup {Desk!NoSession}]
<1>1. deskSessions \in [1 .. MaxSessions -> Shift \cup {Desk!NoSession}]
  BY DEF DeskBounds
<1>2. ShiftTicks \in Nat /\ IdleTicks \in 1 .. ShiftTicks
  BY DEF DeskFit
<1>3. Desk!NewSession \in Shift
  BY <1>2 DEF Desk!NewSession, Shift
<1>4. ASSUME NEW x \in Shift
      PROVE  Desk!Touched(x) \in Shift
  <2>1. x.idle \in 1 .. ShiftTicks /\ x.left \in 1 .. ShiftTicks /\ x \in [idle : 1 .. ShiftTicks, left : 1 .. ShiftTicks]
    BY <1>4 DEF Shift
  <2>2. PICK m : m = Desk!Min({IdleTicks, x.left})
    OBVIOUS
  <2>3. m = IF IdleTicks <= x.left THEN IdleTicks ELSE x.left
    <3>1. IdleTicks \in Int /\ x.left \in Int
      BY <1>2, <2>1
    <3>2. QED
      BY <2>2, <3>1, DeskMax
  <2>4. m \in 1 .. ShiftTicks /\ m <= x.left
    BY <1>2, <2>1, <2>3
  <2>5. Desk!Touched(x) = [x EXCEPT !.idle = m]
    BY <2>2 DEF Desk!Touched
  <2>6. QED
    BY <2>1, <2>4, <2>5 DEF Shift
<1>5. ASSUME NEW x \in Shift \cup {Desk!NoSession}
      PROVE  Desk!Shorter(x) \in Shift \cup {Desk!NoSession}
  <2>1. CASE x.idle <= 1 \/ x.left <= 1
    BY <2>1 DEF Desk!Shorter
  <2>2. CASE ~(x.idle <= 1 \/ x.left <= 1)
    <3>1. x # Desk!NoSession
      BY <2>2 DEF Desk!NoSession
    <3>2. /\ x.idle \in 1 .. ShiftTicks /\ x.left \in 1 .. ShiftTicks /\ x.idle <= x.left
      BY <1>5, <3>1 DEF Shift
    <3>3. x.idle - 1 \in 1 .. ShiftTicks /\ x.left - 1 \in 1 .. ShiftTicks /\ x.idle - 1 <= x.left - 1
      BY <1>2, <2>2, <3>2
    <3>4. Desk!Shorter(x) = [idle |-> x.idle - 1, left |-> x.left - 1]
      BY <2>2 DEF Desk!Shorter
    <3>5. QED
      BY <3>3, <3>4 DEF Shift
  <2>3. QED
    BY <2>1, <2>2
<1>6. ASSUME NEW c \in Call, Desk!Issue(c)
      PROVE  deskSessions' \in [1 .. MaxSessions -> Shift \cup {Desk!NoSession}]
  BY <1>1, <1>3, <1>6 DEF Desk!Issue
<1>7. ASSUME NEW n \in 1 .. MaxSessions, Desk!Use(n) \/ Desk!SignOut(n)
      PROVE  deskSessions' \in [1 .. MaxSessions -> Shift \cup {Desk!NoSession}]
  <2>1. CASE Desk!Use(n)
    <3>1. deskSessions[n] \in Shift /\ deskSessions' = [deskSessions EXCEPT ![n] = Desk!Touched(deskSessions[n])]
      BY <1>1, <2>1 DEF Desk!Use
    <3>2. QED
      BY <1>1, <1>4, <3>1
  <2>2. CASE Desk!SignOut(n)
    BY <1>1, <2>2 DEF Desk!SignOut
  <2>3. QED
    BY <1>7, <2>1, <2>2
<1>8. ASSUME NEW q \in Password, Desk!RotateCredential(q)
      PROVE  deskSessions' \in [1 .. MaxSessions -> Shift \cup {Desk!NoSession}]
  BY <1>8 DEF Desk!RotateCredential, Desk!NoSessions
<1>9. ASSUME Desk!Tick
      PROVE  deskSessions' \in [1 .. MaxSessions -> Shift \cup {Desk!NoSession}]
  BY <1>1, <1>5, <1>9 DEF Desk!Tick
<1>10. ASSUME NEW c \in Call, Desk!Refuse(c) \/ Desk!Reserve(c) \/ Desk!Fail(c) \/ Desk!Pass(c)
       PROVE  deskSessions' = deskSessions
  BY <1>10 DEF Desk!Refuse, Desk!Reserve, Desk!Fail, Desk!Pass
<1>11. ASSUME NEW c \in Call, NEW a \in Address \cup {None}, NEW q \in Password, Desk!Ask(c, a, q)
       PROVE  deskSessions' = deskSessions
  BY <1>11 DEF Desk!Ask
<1>12. ASSUME UNCHANGED Desk!vars
       PROVE  deskSessions' = deskSessions
  BY <1>12 DEF Desk!vars
<1>13. QED
  BY <1>1, <1>6, <1>7, <1>8, <1>9, <1>10, <1>11, <1>12 DEF Desk!Next

(* A row of failures in its bounds.                                          *)
RowBounded(g) == g.age <= DeskWindow /\ \E i \in DOMAIN DeskLocks : g.lock <= DeskLocks[i]

LEMMA BumpedBounded ==
  ASSUME DeskFit, NEW r \in DeskRow, deskAttempts[r] \in FailRow, RowBounded(deskAttempts[r])
  PROVE  RowBounded(Desk!Bumped(r))
<1>1. CASE deskAttempts[r].age = DeskWindow
  <2>1. Desk!Bumped(r) = [age |-> 0, count |-> 1, lock |-> 0] /\ 0 <= DeskWindow
    BY <1>1 DEF Desk!Bumped, DeskFit
  <2>2. QED
    BY <2>1, SomeLock DEF RowBounded
<1>2. CASE deskAttempts[r].age # DeskWindow
  <2>1. PICK n : n = deskAttempts[r].count + 1
    OBVIOUS
  <2>2. PICK l : l = IF n <= Desk!Limit(r) THEN 0 ELSE Desk!LockFor(n - Desk!Limit(r))
    OBVIOUS
  <2>3. Desk!Bumped(r) = [deskAttempts[r] EXCEPT !.count = n, !.lock = l]
    BY <1>2, <2>1, <2>2 DEF Desk!Bumped
  <2>4. \E i \in DOMAIN DeskLocks : l <= DeskLocks[i]
    <3>1. n \in Nat /\ Desk!Limit(r) \in Nat
      BY <2>1, LimitIsThere DEF FailRow
    <3>2. CASE n <= Desk!Limit(r)
      BY <2>2, <3>2, SomeLock
    <3>3. CASE ~(n <= Desk!Limit(r))
      <4>1. n - Desk!Limit(r) \in Nat \ {0}
        BY <3>1, <3>3
      <4>2. QED
        BY <2>2, <3>3, <4>1, SomeLock
    <3>4. QED
      BY <3>2, <3>3
  <2>5. QED
    BY <2>3, <2>4 DEF FailRow, RowBounded
<1>3. QED
  BY <1>1, <1>2

LEMMA RelievedBounded ==
  ASSUME DeskFit, NEW r \in DeskRow, deskAttempts[r] \in FailRow, RowBounded(deskAttempts[r])
  PROVE  RowBounded(Desk!Relieved(r, deskAttempts[r]))
<1>1. PICK n : n = Desk!Max({deskAttempts[r].count - 1, 0})
  OBVIOUS
<1>2. PICK l : l = IF deskAttempts[r].count - 1 < Desk!Limit(r) THEN 0 ELSE deskAttempts[r].lock
  OBVIOUS
<1>3. Desk!Relieved(r, deskAttempts[r]) = [deskAttempts[r] EXCEPT !.count = n, !.lock = l]
  BY <1>1, <1>2 DEF Desk!Relieved
<1>4. \E i \in DOMAIN DeskLocks : l <= DeskLocks[i]
  BY <1>2, SomeLock DEF RowBounded
<1>5. QED
  BY <1>3, <1>4 DEF FailRow, RowBounded

LEMMA AgedBounded ==
  ASSUME DeskFit, NEW r \in DeskRow, deskAttempts[r] \in FailRow, RowBounded(deskAttempts[r]),
         NEW g, g = [deskAttempts[r] EXCEPT !.age = Desk!Min({deskAttempts[r].age + 1, DeskWindow}),
                                            !.lock = Desk!Less(deskAttempts[r].lock)]
  PROVE  RowBounded(g)
<1>1. deskAttempts[r].age \in Nat /\ deskAttempts[r].lock \in Nat /\ DeskWindow \in Nat
  BY DEF FailRow, DeskFit
<1>2. Desk!Min({deskAttempts[r].age + 1, DeskWindow}) <= DeskWindow
  <2>1. PICK a : a = deskAttempts[r].age + 1
    OBVIOUS
  <2>2. a \in Int /\ DeskWindow \in Int
    BY <1>1, <2>1
  <2>3. Desk!Min({a, DeskWindow}) = IF a <= DeskWindow THEN a ELSE DeskWindow
    BY <2>2, DeskMax
  <2>4. Desk!Min({a, DeskWindow}) <= DeskWindow
    BY <2>2, <2>3
  <2>5. QED
    BY <2>1, <2>4
<1>3. Desk!Less(deskAttempts[r].lock) =
         IF deskAttempts[r].lock - 1 >= 0 THEN deskAttempts[r].lock - 1 ELSE 0
  <2>1. deskAttempts[r].lock - 1 \in Int /\ 0 \in Int
    BY <1>1
  <2>2. QED
    BY <2>1, DeskMax DEF Desk!Less
<1>4. PICK i \in DOMAIN DeskLocks : deskAttempts[r].lock <= DeskLocks[i]
  BY DEF RowBounded
<1>5. Desk!Less(deskAttempts[r].lock) <= DeskLocks[i]
  BY <1>1, <1>3, <1>4, SomeLock
<1>6. QED
  BY <1>2, <1>4, <1>5 DEF FailRow, RowBounded

LEMMA DeskBoundsStep == DeskFit /\ DeskInv /\ DeskBounds /\ [Desk!Next]_(Desk!vars) => DeskBounds'
<1> SUFFICES ASSUME DeskFit, DeskInv, DeskBounds, [Desk!Next]_(Desk!vars)
             PROVE  DeskBounds'
  OBVIOUS
<1>1. \A r \in DeskRow : deskAttempts[r] \in FailRow /\ RowBounded(deskAttempts[r])
  BY DEF DeskInv, DeskBounds, RowBounded
<1>2. ASSUME NEW c \in Call, Desk!Reserve(c)
      PROVE  \A r \in DeskRow : RowBounded(deskAttempts'[r])
  <2>1. \A r \in DeskRow : deskAttempts'[r] \in {Desk!Bumped(r), deskAttempts[r]}
    BY <1>2 DEF Desk!Reserve, DeskRow
  <2>2. QED
    BY <1>1, <2>1, BumpedBounded
<1>3. ASSUME NEW c \in Call, Desk!Pass(c)
      PROVE  \A r \in DeskRow : RowBounded(deskAttempts'[r])
  <2>1. \A r \in DeskRow : deskAttempts'[r] \in {Desk!Relieved(r, deskAttempts[r]), deskAttempts[r]}
    BY <1>3 DEF Desk!Pass, Desk!ClearOnSuccess, DeskRow
  <2>2. QED
    BY <1>1, <2>1, RelievedBounded
<1>4. ASSUME Desk!Tick
      PROVE  \A r \in DeskRow : RowBounded(deskAttempts'[r])
  <2>1. \A r \in DeskRow : deskAttempts'[r] =
            [deskAttempts[r] EXCEPT !.age = Desk!Min({deskAttempts[r].age + 1, DeskWindow}),
                                    !.lock = Desk!Less(deskAttempts[r].lock)]
    BY <1>1, <1>4 DEF Desk!Tick, DeskRow, FailRow
  <2>2. QED
    BY <1>1, <2>1, AgedBounded
<1>5. ASSUME deskAttempts' = deskAttempts
      PROVE  \A r \in DeskRow : RowBounded(deskAttempts'[r])
  BY <1>1, <1>5
<1>6. ASSUME NEW c \in Call, Desk!Refuse(c) \/ Desk!Fail(c) \/ Desk!Issue(c)
      PROVE  deskAttempts' = deskAttempts
  BY <1>6 DEF Desk!Refuse, Desk!Fail, Desk!Issue
<1>7. ASSUME NEW c \in Call, NEW a \in Address \cup {None}, NEW q \in Password, Desk!Ask(c, a, q)
      PROVE  deskAttempts' = deskAttempts
  BY <1>7 DEF Desk!Ask
<1>8. ASSUME NEW n \in 1 .. MaxSessions, Desk!Use(n) \/ Desk!SignOut(n)
      PROVE  deskAttempts' = deskAttempts
  BY <1>8 DEF Desk!Use, Desk!SignOut
<1>9. ASSUME NEW q \in Password, Desk!RotateCredential(q)
      PROVE  deskAttempts' = deskAttempts
  BY <1>9 DEF Desk!RotateCredential
<1>10. ASSUME UNCHANGED Desk!vars
       PROVE  deskAttempts' = deskAttempts
  BY <1>10 DEF Desk!vars
<1>11. \A r \in DeskRow : RowBounded(deskAttempts'[r])
  BY <1>2, <1>3, <1>4, <1>5, <1>6, <1>7, <1>8, <1>9, <1>10 DEF Desk!Next
<1>12. QED
  BY <1>11, SessionsKeep DEF DeskBounds, RowBounded

LEMMA DeskTyped == DeskFit /\ DeskInv /\ DeskBounds => Desk!TypeOK
<1> SUFFICES ASSUME DeskFit, DeskInv, DeskBounds
             PROVE  Desk!TypeOK
  OBVIOUS
<1>1. ASSUME NEW n \in 1 .. MaxSessions
      PROVE  \/ deskSessions[n] = Desk!NoSession
             \/ deskSessions[n].left \in 1 .. ShiftTicks /\ deskSessions[n].idle \in 1 .. deskSessions[n].left
  <2>1. CASE deskSessions[n] \in Shift
    <3>1. /\ deskSessions[n].idle \in 1 .. ShiftTicks /\ deskSessions[n].left \in 1 .. ShiftTicks
          /\ deskSessions[n].idle <= deskSessions[n].left
      BY <2>1 DEF Shift
    <3>2. QED
      BY <3>1
  <2>2. QED
    BY <2>1 DEF DeskBounds
<1>2. ASSUME NEW r \in DeskRow
      PROVE  /\ deskAttempts[r].age \in 0 .. DeskWindow /\ deskAttempts[r].count \in Nat
             /\ \E i \in DOMAIN DeskLocks : deskAttempts[r].lock \in 0 .. DeskLocks[i]
  <2>1. deskAttempts[r].age \in Nat /\ deskAttempts[r].count \in Nat /\ deskAttempts[r].lock \in Nat
    BY DEF DeskInv, FailRow
  <2>2. PICK i \in DOMAIN DeskLocks : deskAttempts[r].lock <= DeskLocks[i]
    BY DEF DeskBounds
  <2>3. DeskLocks[i] \in Nat /\ DeskWindow \in Nat
    BY SomeLock DEF DeskFit
  <2>4. deskAttempts[r].lock \in 0 .. DeskLocks[i] /\ deskAttempts[r].age \in 0 .. DeskWindow
    BY <2>1, <2>2, <2>3 DEF DeskBounds
  <2>5. QED
    BY <2>1, <2>4
<1>3. ASSUME NEW c \in Call
      PROVE  deskCalls[c].phase \in {"idle", "asked", "verifying", "issuing"}
  BY DEF DeskInv, DeskCallOK, DeskVerifying
<1>4. account \in Password \cup {None} /\ DOMAIN deskSessions = 1 .. MaxSessions
  BY DEF DeskInv, DeskBounds
<1>5. QED
  BY <1>1, <1>2, <1>3, <1>4 DEF Desk!TypeOK, DeskRow

-----------------------------------------------------------------------------
(* The types of the approver's page.  No request carries a session that was  *)
(* never made; and a claim is granted to one handler only, so a page that    *)
(* starts to count again while approvals are under way, as a sign-in makes   *)
(* it do, counts no claim more than twice.                                   *)

SessionsOK ==
    /\ lastSession \in 0 .. MaxSession /\ live \subseteq 1 .. lastSession
    /\ cookie \in 0 .. lastSession
    /\ \A s \in Slot : task[s].sent \in 0 .. lastSession
    /\ scanned \subseteq Claim

GrantsOK ==
    /\ \A s \in Granted(task) : task[s].claim \in admitted
    /\ \A s1, s2 \in Granted(task) : task[s1].claim = task[s2].claim => s1 = s2
    /\ page.count + Cardinality(Granted(task)) <= 2 * Cardinality(admitted)

(* A step of the handler in slot s: what it leaves alone, and what it sends. *)
OnlySlot(s) ==
    \A x \in Slot \ {s} : /\ task'[x].op = task[x].op /\ task'[x].ans = task[x].ans
                          /\ task'[x].claim = task[x].claim /\ task'[x].sent = task[x].sent

SessionsMove ==
    \/ lastSession' = lastSession /\ live' \subseteq live
    \/ lastSession' = lastSession + 1 /\ lastSession < MaxSession /\ live' = live \cup {lastSession + 1}

Moves(s) ==
    /\ OnlySlot(s) /\ SessionsMove
    /\ task'[s].sent \in {0, cookie, task[s].sent, lastSession'}
    /\ cookie' \in {0, cookie, task[s].sent}
    /\ scanned' \subseteq Claim

Ungranted(s) == task'[s].op \in Scanner!Approval => task'[s].ans # "ok"

CountMoves(s) ==
    \/ page'.count <= page.count
    \/ page'.count <= Cardinality(admitted)
    \/ s \in Granted(task) /\ page'.count = page.count + 1

LEMMA SessionsOf ==
  ASSUME ScannerFit, SessionsOK, NEW s \in Slot, Moves(s)
  PROVE  SessionsOK'
<1>1. /\ lastSession \in Nat /\ lastSession <= MaxSession /\ MaxSession \in Nat
      /\ live \subseteq 1 .. lastSession /\ cookie \in 0 .. lastSession
      /\ \A x \in Slot : task[x].sent \in 0 .. lastSession
  BY DEF SessionsOK, ScannerFit
<1>2. lastSession' \in 0 .. MaxSession /\ lastSession <= lastSession' /\ live' \subseteq 1 .. lastSession'
  <2>1. CASE lastSession' = lastSession /\ live' \subseteq live
    BY <1>1, <2>1
  <2>2. CASE lastSession' = lastSession + 1 /\ lastSession < MaxSession /\ live' = live \cup {lastSession + 1}
    <3>1. lastSession + 1 \in 0 .. MaxSession /\ lastSession <= lastSession + 1
      BY <1>1, <2>2
    <3>2. live \subseteq 1 .. lastSession + 1 /\ lastSession + 1 \in 1 .. lastSession + 1
      BY <1>1
    <3>3. QED
      BY <2>2, <3>1, <3>2
  <2>3. QED
    BY <2>1, <2>2 DEF Moves, SessionsMove
<1>3. \A n \in 0 .. lastSession : n \in 0 .. lastSession'
  BY <1>1, <1>2
<1>4. 0 \in 0 .. lastSession' /\ lastSession' \in 0 .. lastSession'
  BY <1>2
<1>5. cookie' \in 0 .. lastSession'
  BY <1>1, <1>3, <1>4 DEF Moves
<1>6. \A x \in Slot : task'[x].sent \in 0 .. lastSession'
  BY <1>1, <1>3, <1>4 DEF Moves, OnlySlot
<1>7. QED
  BY <1>2, <1>5, <1>6 DEF SessionsOK, Moves

(* The granted claims are as many as their handlers.                         *)
LEMMA FewGranted ==
  ASSUME ScannerFit, ClaimsOK, GrantsOK
  PROVE  Cardinality(Granted(task)) <= Cardinality(admitted)
<1> DEFINE f == [s \in Granted(task) |-> task[s].claim]
<1>1. f \in Injection(Granted(task), admitted)
  BY DEF GrantsOK, Injection, IsInjective
<1>2. IsFiniteSet(admitted)
  BY Sizes
<1> HIDE DEF f
<1>3. QED
  BY <1>1, <1>2, FS_Injection

LEMMA GrantsOf ==
  ASSUME ScannerFit, ScannerInv, GrantsOK, NEW s \in Slot, OnlySlot(s), Ungranted(s), CountMoves(s),
         admitted' = admitted, page'.count \in Nat
  PROVE  GrantsOK'
<1>1. Granted(task') \subseteq Granted(task) \ {s}
  BY DEF OnlySlot, Ungranted, Granted
<1>2. \A x \in Granted(task') : task'[x].claim = task[x].claim /\ x \in Granted(task)
  BY <1>1 DEF OnlySlot, Granted
<1>3. /\ IsFiniteSet(Granted(task)) /\ Cardinality(Granted(task)) \in Nat
      /\ Cardinality(Granted(task')) \in Nat /\ Cardinality(admitted) \in Nat /\ page.count \in Nat
  BY Sizes DEF ScannerInv, ScannerTyped, ScannerRow
<1>4. Cardinality(Granted(task')) <= Cardinality(Granted(task))
  BY <1>1, <1>3, Smaller
<1>5. page.count + Cardinality(Granted(task)) <= 2 * Cardinality(admitted)
  BY DEF GrantsOK
<1>6. page'.count + Cardinality(Granted(task')) <= 2 * Cardinality(admitted)
  <2>1. CASE page'.count <= page.count
    BY <1>3, <1>4, <1>5, <2>1
  <2>2. CASE page'.count <= Cardinality(admitted)
    <3>1. Cardinality(Granted(task)) <= Cardinality(admitted)
      BY FewGranted DEF ScannerInv
    <3>2. QED
      BY <1>3, <1>4, <2>2, <3>1
  <2>3. CASE s \in Granted(task) /\ page'.count = page.count + 1
    <3>1. Cardinality(Granted(task) \ {s}) = Cardinality(Granted(task)) - 1 /\ IsFiniteSet(Granted(task) \ {s})
      BY <1>3, <2>3, FS_RemoveElement
    <3>2. Cardinality(Granted(task')) <= Cardinality(Granted(task)) - 1
      BY <1>1, <3>1, Smaller
    <3>3. QED
      BY <1>3, <1>5, <2>3, <3>2
  <2>4. QED
    BY <2>1, <2>2, <2>3 DEF CountMoves
<1>7. /\ \A x \in Granted(task') : task'[x].claim \in admitted'
      /\ \A x, y \in Granted(task') : task'[x].claim = task'[y].claim => x = y
  BY <1>2 DEF GrantsOK
<1>8. page'.count + Cardinality(Granted(task')) <= 2 * Cardinality(admitted')
  BY <1>6
<1>9. QED
  BY <1>7, <1>8 DEF GrantsOK, Granted

(* The steps of a handler, but for the approval that is granted.             *)
LEMMA ServesMove ==
  ASSUME ScannerInv, NEW s \in Slot, Scanner!Fails(s) \/ (task[s].ans = None /\ scanned' = scanned /\ cookie' = cookie
         /\ page' = page /\
         (\/ Scanner!ServeProgram(s) \/ Scanner!ServeSession(s) \/ Scanner!ServeLogin(s)
          \/ Scanner!ServeLogout(s))), SessionsOK
  PROVE  Moves(s) /\ Ungranted(s) /\ CountMoves(s) /\ admitted' = admitted
<1>1. /\ task[s] \in HandlerRow /\ HandlerOK(task[s]) /\ task \in [Slot -> HandlerRow]
      /\ page.count \in Nat /\ lastSession \in Nat
  BY HandlerOf DEF ScannerInv, ScannerTyped, ScannerRow
<1>2. \/ \E ans \in Answer : task' = [task EXCEPT ![s].ans = ans]
      \/ \E ans \in Answer, n \in {0, Scanner!ApprovedCount} : task' = [task EXCEPT ![s].ans = ans, ![s].count = n]
      \/ /\ Scanner!ServeLogin(s) /\ lastSession' = lastSession + 1
         /\ task' = [task EXCEPT ![s].ans = "ok", ![s].sent = lastSession + 1]
  BY DEF Scanner!Fails, Scanner!ServeProgram, Scanner!ServeSession, Scanner!ServeLogin, Scanner!ServeLogout,
         Scanner!Answered, Answer, Said
<1>3. /\ OnlySlot(s) /\ task'[s].op = task[s].op
      /\ task'[s].sent \in {task[s].sent, lastSession'}
  <2>1. PICK u : /\ task' = [task EXCEPT ![s] = u] /\ u.op = task[s].op
                 /\ u.sent \in {task[s].sent, lastSession'}
    <3>1. ASSUME NEW ans \in Answer, task' = [task EXCEPT ![s].ans = ans]
          PROVE  \E u : /\ task' = [task EXCEPT ![s] = u] /\ u.op = task[s].op
                        /\ u.sent \in {task[s].sent, lastSession'}
      <4>1. PICK u : u = [task[s] EXCEPT !.ans = ans]
        OBVIOUS
      <4>2. task' = [task EXCEPT ![s] = u] /\ u.op = task[s].op /\ u.sent = task[s].sent
        BY <1>1, <3>1, <4>1 DEF HandlerRow
      <4>3. QED
        BY <4>2
    <3>2. ASSUME NEW ans \in Answer, NEW n, task' = [task EXCEPT ![s].ans = ans, ![s].count = n]
          PROVE  \E u : /\ task' = [task EXCEPT ![s] = u] /\ u.op = task[s].op
                        /\ u.sent \in {task[s].sent, lastSession'}
      <4>1. PICK u : u = [task[s] EXCEPT !.ans = ans, !.count = n]
        OBVIOUS
      <4>2. task' = [task EXCEPT ![s] = u] /\ u.op = task[s].op /\ u.sent = task[s].sent
        BY <1>1, <3>2, <4>1 DEF HandlerRow
      <4>3. QED
        BY <4>2
    <3>3. ASSUME task' = [task EXCEPT ![s].ans = "ok", ![s].sent = lastSession + 1], lastSession' = lastSession + 1
          PROVE  \E u : /\ task' = [task EXCEPT ![s] = u] /\ u.op = task[s].op
                        /\ u.sent \in {task[s].sent, lastSession'}
      <4>1. PICK u : u = [task[s] EXCEPT !.ans = "ok", !.sent = lastSession + 1]
        OBVIOUS
      <4>2. task' = [task EXCEPT ![s] = u] /\ u.op = task[s].op /\ u.sent = lastSession'
        BY <1>1, <3>3, <4>1 DEF HandlerRow
      <4>3. QED
        BY <4>2
    <3>4. QED
      BY <1>2, <3>1, <3>2, <3>3
  <2>2. task'[s] = u /\ \A x \in Slot \ {s} : task'[x] = task[x]
    BY <1>1, <2>1
  <2>3. QED
    BY <2>1, <2>2 DEF OnlySlot
<1>4. /\ SessionsMove /\ cookie' = cookie /\ scanned' \subseteq Claim /\ page' = page /\ admitted' = admitted
  BY <1>1 DEF Scanner!Fails, Scanner!ServeProgram, Scanner!ServeSession, Scanner!ServeLogin, Scanner!ServeLogout,
         Scanner!server, SessionsMove, SessionsOK
<1>5. Ungranted(s)
  <2>1. CASE Scanner!Fails(s)
    <3>1. task'[s].ans = "error"
      BY <1>1, <2>1 DEF Scanner!Fails, HandlerRow
    <3>2. QED
      BY <3>1 DEF Ungranted
  <2>2. CASE task[s].at \in {"program", "session", "login", "logout"}
    <3>1. task[s].op \notin Scanner!Approval
      BY <2>2, HandlerOf DEF HandlerOK, Scanner!Approval
    <3>2. QED
      BY <1>3, <3>1 DEF Ungranted
  <2>3. QED
    BY <2>1, <2>2 DEF Scanner!ServeProgram, Scanner!ServeSession, Scanner!ServeLogin, Scanner!ServeLogout
<1>6. CountMoves(s)
  BY <1>1, <1>4 DEF CountMoves
<1>7. QED
  BY <1>3, <1>4, <1>5, <1>6 DEF Moves

(* A handler that ends, and one that goes on to ask about its session.       *)
LEMMA EndsMove ==
  ASSUME ScannerInv, NEW s \in Slot, task' = Scanner!Ends(s) \/ task' = Scanner!Unlogged(Scanner!Ends(s))
  PROVE  OnlySlot(s) /\ task'[s].sent = 0 /\ Ungranted(s)
<1>1. task \in [Slot -> HandlerRow]
  BY DEF ScannerInv, ScannerTyped
<1>2. PICK e : e = Scanner!Ends(s)
  OBVIOUS
<1>3. e \in [Slot -> HandlerRow] /\ e[s] = Scanner!Idle /\ \A x \in Slot \ {s} : e[x] = task[x]
  <2>1. e = [task EXCEPT ![s] = Scanner!Idle]
    BY <1>2 DEF Scanner!Ends
  <2>2. Scanner!Idle \in HandlerRow
    BY DEF Scanner!Idle, HandlerRow, Answer
  <2>3. QED
    BY <1>1, <2>1, <2>2
<1>4. /\ Scanner!Idle.op = "idle" /\ Scanner!Idle.sent = 0 /\ "idle" \notin Scanner!Approval
  BY DEF Scanner!Idle, Scanner!Approval
<1>5. \A x \in Slot : /\ task'[x].op = e[x].op /\ task'[x].ans = e[x].ans
                      /\ task'[x].claim = e[x].claim /\ task'[x].sent = e[x].sent
  <2>1. CASE task' = e
    BY <2>1
  <2>2. CASE task' = Scanner!Unlogged(e)
    <3>1. ASSUME NEW x \in Slot
          PROVE  task'[x] = IF e[x].op = "logout" THEN [e[x] EXCEPT !.alive = FALSE] ELSE e[x]
      BY <2>2, <3>1 DEF Scanner!Unlogged
    <3>2. QED
      BY <1>3, <3>1 DEF HandlerRow
  <2>3. QED
    BY <1>2, <2>1, <2>2
<1>6. QED
  BY <1>3, <1>4, <1>5 DEF OnlySlot, Ungranted

LEMMA GoesOnMove ==
  ASSUME ScannerFit, ScannerInv, NEW s \in Slot, NEW at, NEW c, Scanner!GoesOn(s, at, c)
  PROVE  OnlySlot(s) /\ task'[s].sent = c /\ Ungranted(s)
<1>1. task \in [Slot -> HandlerRow]
  BY DEF ScannerInv, ScannerTyped
<1>2. task' = [task EXCEPT ![s] = [task[s] EXCEPT !.at = at, !.ans = None, !.sent = c]]
  BY <1>1 DEF Scanner!GoesOn
<1>3. task'[s].ans = None /\ task'[s].sent = c /\ \A x \in Slot \ {s} : task'[x] = task[x]
  BY <1>1, <1>2 DEF HandlerRow
<1>4. None # "ok"
  BY DEF ScannerFit, Said
<1>5. QED
  BY <1>3, <1>4 DEF OnlySlot, Ungranted

LEMMA StartsMove ==
  ASSUME ScannerFit, ScannerInv, NEW s \in Slot, NEW op, NEW at, NEW c, Scanner!Starts(s, op, at, c)
  PROVE  OnlySlot(s) /\ task'[s].sent = cookie /\ Ungranted(s)
<1>1. task \in [Slot -> HandlerRow]
  BY DEF ScannerInv, ScannerTyped
<1>2. task' = [task EXCEPT ![s] = Scanner!Handler(op, at, c)]
  BY DEF Scanner!Starts
<1>3. task'[s] = Scanner!Handler(op, at, c) /\ \A x \in Slot \ {s} : task'[x] = task[x]
  BY <1>1, <1>2
<1>4. task'[s].ans = None /\ task'[s].sent = cookie
  BY <1>3 DEF Scanner!Handler
<1>5. None # "ok"
  BY DEF ScannerFit, Said
<1>6. QED
  BY <1>3, <1>4, <1>5 DEF OnlySlot, Ungranted

(* The answers that a page is given.                                         *)
LEMMA AnswersMove ==
  ASSUME ScannerFit, ScannerInv, SessionsOK, NEW s \in Slot,
         \/ Scanner!ProgramAnswers(s) \/ Scanner!SessionAnswers(s) \/ Scanner!LoginAnswers(s)
         \/ Scanner!LoginDone(s) \/ Scanner!LogoutAnswers(s)
  PROVE  Moves(s) /\ Ungranted(s) /\ CountMoves(s) /\ admitted' = admitted
<1>1. page \in ScannerRow /\ page.count \in Nat /\ task[s].count <= Cardinality(admitted)
  BY DEF ScannerInv, ScannerTyped, ScannerRow, Counted
<1>2. /\ lastSession' = lastSession /\ live' = live /\ admitted' = admitted /\ scanned' = scanned
  BY DEF Scanner!ProgramAnswers, Scanner!SessionAnswers, Scanner!LoginAnswers, Scanner!LoginDone,
         Scanner!LogoutAnswers, Scanner!server
<1>3. \/ task' = Scanner!Ends(s)
      \/ \E c \in {cookie, task[s].sent} : Scanner!GoesOn(s, "session", c)
  <2>1. CASE Scanner!ProgramAnswers(s)
    BY <2>1 DEF Scanner!ProgramAnswers
  <2>2. CASE Scanner!LoginAnswers(s)
    BY <2>2 DEF Scanner!LoginAnswers
  <2>3. QED
    BY <2>1, <2>2 DEF Scanner!SessionAnswers, Scanner!LoginDone, Scanner!LogoutAnswers
<1>4. OnlySlot(s) /\ Ungranted(s) /\ task'[s].sent \in {0, cookie, task[s].sent}
  BY <1>3, EndsMove, GoesOnMove
<1>5. cookie' \in {0, cookie, task[s].sent}
  BY DEF Scanner!ProgramAnswers, Scanner!SessionAnswers, Scanner!LoginAnswers, Scanner!LoginDone,
         Scanner!LogoutAnswers
<1>6. page'.count \in {page.count, task[s].count}
  <2>1. CASE Scanner!ProgramAnswers(s)
    BY <1>1, <2>1 DEF Scanner!ProgramAnswers, ScannerRow
  <2>2. CASE Scanner!SessionAnswers(s) \/ Scanner!LoginDone(s)
    BY <1>1, <2>2 DEF Scanner!SessionAnswers, Scanner!LoginDone, ScannerRow
  <2>3. CASE Scanner!LoginAnswers(s) \/ Scanner!LogoutAnswers(s)
    BY <1>1, <2>3 DEF Scanner!LoginAnswers, Scanner!LogoutAnswers, ScannerRow
  <2>4. QED
    BY <2>1, <2>2, <2>3
<1>7. CountMoves(s)
  BY <1>1, <1>6 DEF CountMoves
<1>8. QED
  BY <1>2, <1>4, <1>5, <1>7 DEF Moves, SessionsMove, SessionsOK

LEMMA ApprovalMoves ==
  ASSUME ScannerFit, ScannerInv, SessionsOK, NEW s \in Slot, Scanner!ApprovalAnswers(s)
  PROVE  Moves(s) /\ Ungranted(s) /\ CountMoves(s) /\ admitted' = admitted
<1>1. page \in ScannerRow /\ page.count \in Nat /\ task[s].op \in Scanner!Approval
  <2>1. task[s].at = "approve"
    BY DEF Scanner!ApprovalAnswers
  <2>2. QED
    BY <2>1, HandlerAt DEF ScannerInv, ScannerTyped, ScannerRow
<1>2. /\ lastSession' = lastSession /\ live' = live /\ admitted' = admitted /\ scanned' = scanned
      /\ cookie' = cookie
  BY DEF Scanner!ApprovalAnswers, Scanner!server
<1>3. OnlySlot(s) /\ Ungranted(s) /\ task'[s].sent = 0
  <2>1. task' = Scanner!Ends(s) \/ task' = Scanner!Unlogged(Scanner!Ends(s))
    BY DEF Scanner!ApprovalAnswers
  <2>2. QED
    BY <2>1, EndsMove
<1>4. CountMoves(s)
  <2>1. PICK p : p = Scanner!AfterApproval(page, task[s].ans)
    OBVIOUS
  <2>2. CASE task[s].ans = "ok"
    <3>1. p = [page EXCEPT !.count = page.count + 1]
      BY <1>1, <2>1, <2>2 DEF Scanner!AfterApproval, ScannerRow
    <3>2. p.count = page.count + 1 /\ p \in ScannerRow
      BY <1>1, <3>1 DEF ScannerRow
    <3>3. page'.count = p.count
      BY <2>1, <3>2 DEF Scanner!ApprovalAnswers, ScannerRow
    <3>4. s \in Granted(task)
      BY <1>1, <2>2 DEF Granted
    <3>5. QED
      BY <3>2, <3>3, <3>4 DEF CountMoves
  <2>3. CASE task[s].ans # "ok"
    <3>1. p = page \/ p = [page EXCEPT !.auth = "loggedOut"]
      BY <2>1, <2>3 DEF Scanner!AfterApproval
    <3>2. p.count = page.count /\ p \in ScannerRow
      BY <1>1, <3>1 DEF ScannerRow
    <3>3. page'.count = p.count
      BY <2>1, <3>2 DEF Scanner!ApprovalAnswers, ScannerRow
    <3>4. QED
      BY <1>1, <3>2, <3>3 DEF CountMoves
  <2>4. QED
    BY <2>2, <2>3
<1>5. QED
  BY <1>2, <1>3, <1>4 DEF Moves, SessionsMove, SessionsOK

LEMMA BeginsMove ==
  ASSUME ScannerFit, ScannerInv, SessionsOK, NEW s \in Slot,
         \/ Scanner!SubmitLogin(s) \/ Scanner!PressLogout(s) \/ Scanner!ConfirmDeepLink(s)
         \/ Scanner!SubmitManualCode(s) \/ \E v \in Claim : Scanner!Scan(s, v)
  PROVE  Moves(s) /\ Ungranted(s) /\ CountMoves(s) /\ admitted' = admitted
<1>1. page \in ScannerRow /\ page.count \in Nat
  BY DEF ScannerInv, ScannerTyped, ScannerRow
<1>2. /\ lastSession' = lastSession /\ live' = live /\ admitted' = admitted /\ cookie' = cookie
      /\ scanned' \subseteq Claim
  BY DEF Scanner!SubmitLogin, Scanner!PressLogout, Scanner!ConfirmDeepLink, Scanner!SubmitManualCode,
         Scanner!Scan, Scanner!server, SessionsOK
<1>3. \E op, at, c : Scanner!Starts(s, op, at, c)
  BY DEF Scanner!SubmitLogin, Scanner!PressLogout, Scanner!ConfirmDeepLink, Scanner!SubmitManualCode,
         Scanner!Scan
<1>4. OnlySlot(s) /\ Ungranted(s) /\ task'[s].sent = cookie
  BY <1>3, StartsMove
<1>5. page'.count \in {page.count, 0}
  <2>1. CASE Scanner!SubmitLogin(s) \/ Scanner!PressLogout(s)
    BY <1>1, <2>1 DEF Scanner!SubmitLogin, Scanner!PressLogout, ScannerRow
  <2>2. CASE Scanner!ConfirmDeepLink(s) \/ Scanner!SubmitManualCode(s)
    BY <1>1, <2>2 DEF Scanner!ConfirmDeepLink, Scanner!SubmitManualCode, ScannerRow
  <2>3. CASE \E v \in Claim : Scanner!Scan(s, v)
    BY <2>3 DEF Scanner!Scan
  <2>4. QED
    BY <2>1, <2>2, <2>3
<1>6. CountMoves(s)
  BY <1>1, <1>5 DEF CountMoves
<1>7. QED
  BY <1>2, <1>4, <1>6 DEF Moves, SessionsMove

(* An approval: the claim was pending, so that it was granted to no other.   *)
LEMMA ApprovesTyped ==
  ASSUME ScannerFit, ScannerInv, ScannerInv', SessionsOK, GrantsOK, NEW s \in Slot, Scanner!Serve(s), Scanner!ServeApproval(s)
  PROVE  SessionsOK' /\ GrantsOK'
<1>1. /\ task \in [Slot -> HandlerRow] /\ task[s] \in HandlerRow /\ page' = page /\ page.count \in Nat
      /\ task[s].ans = None /\ scanned' = scanned /\ cookie' = cookie
      /\ lastSession' = lastSession /\ live' = live
  BY DEF ScannerInv, ScannerTyped, ScannerRow, Scanner!Serve, Scanner!ServeApproval
<1>2. task[s].op \in Scanner!Approval /\ task[s].claim \in Claim /\ HandlerOK(task[s])
  BY HandlerOf, HandlerAt DEF HandlerOK, Scanner!ServeApproval
<1>3. PICK a : task' = [task EXCEPT ![s].ans = a] /\ Scanner!Answered(s, a)
               /\ (a = "ok" => Scanner!Known(task[s]) /\ status[task[s].claim] = "pending")
  <2> DEFINE c == task[s].claim
             b == IF ~Scanner!Known(task[s]) THEN "auth"
                  ELSE CASE status[c] = "pending"  -> "ok"
                         [] status[c] = "approved" -> "already"
                         [] status[c] = "revoked"  -> "revoked"
  <2>1. Scanner!Answered(s, b)
    BY DEF Scanner!ServeApproval
  <2>2. status[c] \in {"pending", "approved", "revoked"}
    BY <1>2 DEF ScannerInv, ClaimsOK
  <2>3. b = "ok" => Scanner!Known(task[s]) /\ status[c] = "pending"
    <3>1. CASE ~Scanner!Known(task[s])
      BY <3>1
    <3>2. CASE status[c] = "approved"
      BY <3>2
    <3>3. CASE status[c] = "revoked"
      BY <3>3
    <3>4. CASE Scanner!Known(task[s]) /\ status[c] = "pending"
      BY <3>4
    <3>5. QED
      BY <2>2, <3>1, <3>2, <3>3, <3>4
  <2> HIDE DEF b
  <2>4. task' = [task EXCEPT ![s].ans = b]
    BY <2>1 DEF Scanner!Answered
  <2>5. QED
    BY <2>1, <2>3, <2>4
<1>4. PICK u : u = [task[s] EXCEPT !.ans = a]
  OBVIOUS
<1>5. /\ task'[s] = u /\ u.op = task[s].op /\ u.ans = a /\ u.claim = task[s].claim /\ u.sent = task[s].sent
      /\ \A x \in Slot \ {s} : task'[x] = task[x]
  BY <1>1, <1>3, <1>4 DEF HandlerRow
<1>6. OnlySlot(s) /\ Moves(s) /\ CountMoves(s)
  <2>1. OnlySlot(s)
    BY <1>5 DEF OnlySlot
  <2>2. scanned' \subseteq Claim
    BY <1>1 DEF SessionsOK
  <2>3. page'.count <= page.count
    BY <1>1
  <2>4. QED
    BY <1>1, <1>5, <2>1, <2>2, <2>3 DEF Moves, SessionsMove, CountMoves
<1>7. SessionsOK'
  BY <1>6, SessionsOf
<1>8. CASE a # "ok"
  <2>1. admitted' = admitted
    <3>1. ~(Scanner!Known(task[s]) /\ status[task[s].claim] = "pending")
      BY <1>1, <1>3, <1>4, <1>5, <1>8 DEF Scanner!ServeApproval, Scanner!Answered, HandlerRow
    <3>2. QED
      BY <3>1 DEF Scanner!ServeApproval
  <2>2. Ungranted(s)
    BY <1>5, <1>8 DEF Ungranted
  <2>3. QED
    BY <1>1, <1>6, <1>7, <2>1, <2>2, GrantsOf
<1>9. CASE a = "ok"
  <2>1. PICK c \in Claim : c = task[s].claim
    BY <1>2
  <2>2. c \notin admitted /\ admitted' = admitted \cup {c}
    BY <1>3, <1>9, <2>1 DEF Scanner!ServeApproval, ScannerInv, ClaimsOK
  <2>3. s \notin Granted(task) /\ Granted(task') = Granted(task) \cup {s}
    <3>1. task[s].ans # "ok" /\ task'[s].op \in Scanner!Approval /\ task'[s].ans = "ok"
      BY <1>1, <1>2, <1>5, <1>9 DEF ScannerFit, Said
    <3>2. QED
      BY <1>5, <3>1 DEF Granted
  <2>4. /\ Cardinality(admitted') = Cardinality(admitted) + 1
        /\ Cardinality(Granted(task')) = Cardinality(Granted(task)) + 1
        /\ Cardinality(admitted) \in Nat /\ Cardinality(Granted(task)) \in Nat
    BY <2>2, <2>3, Sizes, FS_AddElement DEF ScannerInv
  <2>5. page'.count + Cardinality(Granted(task')) <= 2 * Cardinality(admitted')
    <3>1. page.count + Cardinality(Granted(task)) <= 2 * Cardinality(admitted)
      BY DEF GrantsOK
    <3>2. QED
      BY <1>1, <2>4, <3>1
  <2>6. \A x \in Granted(task') : task'[x].claim = (IF x = s THEN c ELSE task[x].claim) /\ (x # s => x \in Granted(task))
    BY <1>5, <2>1, <2>3 DEF Granted
  <2>7. \A x \in Granted(task) : task[x].claim \in admitted /\ task[x].claim # c
    BY <2>2 DEF GrantsOK
  <2>8. \A x \in Granted(task') : task'[x].claim \in admitted'
    BY <2>2, <2>6, <2>7
  <2>9. \A x, y \in Granted(task') : task'[x].claim = task'[y].claim => x = y
    BY <2>6, <2>7 DEF GrantsOK
  <2>10. QED
    BY <1>7, <2>5, <2>8, <2>9 DEF GrantsOK, Granted
<1>10. QED
  BY <1>8, <1>9

(* What no handler does.                                                     *)
LEMMA OthersTyped ==
  ASSUME ScannerFit, ScannerInv, ScannerInv', SessionsOK, GrantsOK, UNCHANGED <<task, lastSession, cookie>>,
         live' \subseteq live, scanned' \subseteq Claim, page'.count = page.count, admitted \subseteq admitted'
  PROVE  SessionsOK' /\ GrantsOK'
<1>1. SessionsOK'
  BY DEF SessionsOK
<1>2. Granted(task') = Granted(task)
  OBVIOUS
<1>3. /\ Cardinality(admitted) \in Nat /\ Cardinality(admitted') \in Nat
      /\ Cardinality(admitted) <= Cardinality(admitted')
  <2>1. IsFiniteSet(admitted')
    BY FS_Subset DEF ScannerFit, ScannerInv, ClaimsOK
  <2>2. QED
    BY <2>1, Smaller
<1>4. page.count \in Nat /\ Cardinality(Granted(task)) \in Nat
  BY Sizes DEF ScannerInv, ScannerTyped, ScannerRow
<1>5. page'.count + Cardinality(Granted(task')) <= 2 * Cardinality(admitted')
  <2>1. page.count + Cardinality(Granted(task)) <= 2 * Cardinality(admitted)
    BY DEF GrantsOK
  <2>2. page'.count + Cardinality(Granted(task)) <= 2 * Cardinality(admitted')
    BY <1>3, <1>4, <2>1
  <2>3. QED
    BY <1>2, <2>2
<1>6. \A x \in Granted(task') : task'[x].claim \in admitted'
  BY <1>2 DEF GrantsOK
<1>7. \A x, y \in Granted(task') : task'[x].claim = task'[y].claim => x = y
  BY <1>2 DEF GrantsOK
<1>8. QED
  BY <1>1, <1>5, <1>6, <1>7 DEF GrantsOK, Granted

LEMMA ScannerTypesStep ==
  ScannerFit /\ ScannerInv /\ SessionsOK /\ GrantsOK /\ [Scanner!Next]_(Scanner!vars) => SessionsOK' /\ GrantsOK'
<1> SUFFICES ASSUME ScannerFit, ScannerInv, SessionsOK, GrantsOK, [Scanner!Next]_(Scanner!vars)
             PROVE  SessionsOK' /\ GrantsOK'
  OBVIOUS
<1>1. ScannerInv'
  BY ScannerStep
<1>2. page'.count \in Nat
  BY <1>1 DEF ScannerInv, ScannerTyped, ScannerRow
<1>3. ASSUME NEW s \in Slot, Moves(s), Ungranted(s), CountMoves(s), admitted' = admitted
      PROVE  SessionsOK' /\ GrantsOK'
  BY <1>2, <1>3, SessionsOf, GrantsOf DEF Moves
<1>4. ASSUME NEW s \in Slot, Scanner!Serve(s)
      PROVE  SessionsOK' /\ GrantsOK'
  <2>1. task[s].ans = None /\ UNCHANGED <<cookie, page, scanned, straddled>>
    BY <1>4 DEF Scanner!Serve
  <2>2. CASE Scanner!ServeApproval(s)
    BY <1>1, <1>4, <2>2, ApprovesTyped
  <2>3. CASE ~Scanner!ServeApproval(s)
    BY <1>3, <1>4, <2>1, <2>3, ServesMove DEF Scanner!Serve
  <2>4. QED
    BY <2>2, <2>3
<1>5. ASSUME NEW s \in Slot, Scanner!Fails(s)
      PROVE  SessionsOK' /\ GrantsOK'
  BY <1>3, <1>5, ServesMove
<1>6. ASSUME NEW s \in Slot,
             \/ Scanner!ProgramAnswers(s) \/ Scanner!SessionAnswers(s) \/ Scanner!LoginAnswers(s)
             \/ Scanner!LoginDone(s) \/ Scanner!LogoutAnswers(s) \/ Scanner!ApprovalAnswers(s)
      PROVE  SessionsOK' /\ GrantsOK'
  BY <1>3, <1>6, AnswersMove, ApprovalMoves
<1>7. ASSUME NEW s \in Slot,
             \/ Scanner!SubmitLogin(s) \/ Scanner!PressLogout(s) \/ Scanner!ConfirmDeepLink(s)
             \/ Scanner!SubmitManualCode(s) \/ \E v \in Claim : Scanner!Scan(s, v)
      PROVE  SessionsOK' /\ GrantsOK'
  BY <1>3, <1>7, BeginsMove
<1>8. CASE \/ Scanner!DismissDeepLink \/ Scanner!SessionEnds \/ UNCHANGED Scanner!vars
           \/ \E c \in Claim : \/ Scanner!HashChange(c) \/ Scanner!ChangeManualCode(c) \/ Scanner!ScanEnds(c)
                               \/ Scanner!OtherApproves(c) \/ Scanner!Revokes(c)
  <2>1. UNCHANGED <<task, lastSession, cookie>> /\ live' \subseteq live /\ scanned' \subseteq scanned
    BY <1>8 DEF Scanner!DismissDeepLink, Scanner!SessionEnds, Scanner!vars, Scanner!server, Scanner!HashChange,
                Scanner!ChangeManualCode, Scanner!ScanEnds, Scanner!OtherApproves, Scanner!Revokes
  <2>2. page'.count = page.count
    BY <1>8 DEF Scanner!DismissDeepLink, Scanner!SessionEnds, Scanner!vars, Scanner!HashChange,
                Scanner!ChangeManualCode, Scanner!ScanEnds, Scanner!OtherApproves, Scanner!Revokes,
                ScannerInv, ScannerTyped, ScannerRow
  <2>3. admitted \subseteq admitted'
    BY <1>8 DEF Scanner!DismissDeepLink, Scanner!SessionEnds, Scanner!vars, Scanner!server, Scanner!HashChange,
                Scanner!ChangeManualCode, Scanner!ScanEnds, Scanner!OtherApproves, Scanner!Revokes
  <2>4. scanned' \subseteq Claim
    BY <2>1 DEF SessionsOK
  <2>5. QED
    BY <1>1, <2>1, <2>2, <2>3, <2>4, OthersTyped
<1>9. QED
  BY <1>4, <1>5, <1>6, <1>7, <1>8 DEF Scanner!Next

LEMMA ScannerTypesInit == ScannerFit /\ Scanner!Init => SessionsOK /\ GrantsOK
<1> SUFFICES ASSUME ScannerFit, Scanner!Init
             PROVE  SessionsOK /\ GrantsOK
  OBVIOUS
<1>1. PICK l \in Claim \cup {None}, s \in Slot :
          /\ page = [Scanner!Opened EXCEPT !.link = l]
          /\ task = [x \in Slot |-> IF x = s THEN Scanner!Handler("load", "program", None) ELSE Scanner!Idle]
  BY DEF Scanner!Init
<1>2. /\ lastSession \in 0 .. 1 /\ live = 1 .. lastSession /\ cookie = lastSession /\ scanned = {} /\ admitted = {}
  BY DEF Scanner!Init
<1>3. page.count = 0
  BY <1>1 DEF Scanner!Opened
<1>4. \A x \in Slot : task[x].op \in {"load", "idle"} /\ task[x].sent \in {0, cookie}
  BY <1>1 DEF Scanner!Handler, Scanner!Idle
<1>5. SessionsOK
  <2>1. 0 .. 1 \subseteq 0 .. MaxSession
    BY DEF ScannerFit
  <2>2. QED
    BY <1>2, <1>4, <2>1 DEF SessionsOK
<1>6. Granted(task) = {}
  BY <1>4 DEF Granted, Scanner!Approval
<1>7. Cardinality(Granted(task)) = 0 /\ Cardinality(admitted) = 0
  BY <1>2, <1>6, FS_EmptySet
<1>8. GrantsOK
  BY <1>3, <1>6, <1>7 DEF GrantsOK
<1>9. QED
  BY <1>5, <1>8

LEMMA ScannerTypes == ScannerFit /\ ScannerInv /\ SessionsOK /\ GrantsOK => Scanner!TypeOK
<1> SUFFICES ASSUME ScannerFit, ScannerInv, SessionsOK, GrantsOK
             PROVE  Scanner!TypeOK
  OBVIOUS
<1>1. page \in ScannerRow /\ page.count \in Nat /\ Cardinality(admitted) \in Nat /\ Cardinality(Granted(task)) \in Nat
  BY Sizes DEF ScannerInv, ScannerTyped, ScannerRow
<1>2. Cardinality(Claim) \in Nat /\ Cardinality(admitted) <= Cardinality(Claim)
  <2>1. admitted \subseteq Claim /\ IsFiniteSet(Claim)
    BY DEF ScannerInv, ClaimsOK, ScannerFit
  <2>2. QED
    BY <2>1, Smaller
<1>3. page.count \in 0 .. 2 * Cardinality(Claim)
  <2>1. page.count + Cardinality(Granted(task)) <= 2 * Cardinality(admitted)
    BY DEF GrantsOK
  <2>2. QED
    BY <1>1, <1>2, <2>1
<1>4. Scanner!Cardinality(Claim) = Cardinality(Claim)
  BY DEF Scanner!Cardinality, Cardinality, Scanner!IsFiniteSet, IsFiniteSet
<1>5. ASSUME NEW s \in Slot
      PROVE  task[s] = Scanner!Idle \/ task[s].at \in {"program", "session", "login", "logout", "approve"}
  BY HandlerOf DEF HandlerOK, HandlerRow, Scanner!Approval
<1>6. /\ page.auth \in {"checking", "loggedOut", "loggedIn", "loggingOut", "programMissing", "programExpired"}
      /\ page.login \in BOOLEAN /\ page.manual \in BOOLEAN
      /\ page.code \in Claim \cup {None} /\ page.link \in Claim \cup {None}
  BY <1>1 DEF ScannerRow
<1>7. straddled \in BOOLEAN /\ status \in [Claim -> {"pending", "approved", "revoked"}] /\ admitted \subseteq Claim
  BY DEF ScannerInv, ScannerTyped, ClaimsOK
<1>8. page.count \in 0 .. 2 * Scanner!Cardinality(Claim)
  BY <1>3, <1>4
<1>9. QED
  BY <1>5, <1>6, <1>7, <1>8 DEF Scanner!TypeOK, SessionsOK

-----------------------------------------------------------------------------
(* The office.  The part that runs keeps its own invariant, since a step of  *)
(* the office is one of its steps, and the others are not looked at.         *)

(* In the office too, the screen is not kept on by a lock that nothing gives *)
(* back (requestWakeLock), for any requests and locks.                       *)
THEOREM OfficeLetsScreenGo == OfficeSpec => []NoLockIsLost
<1> DEFINE Inv == part = "phone" => PhoneInv
<1>1. OfficeInit => Inv
  BY PhoneInit DEF OfficeInit
<1>2. Inv /\ [OfficeNext]_officeVars => Inv'
  <2> SUFFICES ASSUME Inv, [OfficeNext]_officeVars, part' = "phone"
               PROVE  PhoneInv'
    OBVIOUS
  <2>1. part = "phone" /\ PhoneInv
    BY DEF OfficeNext, officeVars
  <2>2. ASSUME OfficeNext
        PROVE  Phone!Next
    BY <2>1, <2>2 DEF OfficeNext
  <2>3. ASSUME UNCHANGED officeVars
        PROVE  UNCHANGED Phone!vars
    BY <2>3 DEF officeVars, ofPhone, Phone!vars
  <2>4. [Phone!Next]_(Phone!vars)
    BY <2>2, <2>3
  <2>5. QED
    BY <2>1, <2>4, PhoneStep
<1>3. Inv => NoLockIsLost
  BY PhoneSafe DEF NoLockIsLost
<1>4. QED
  BY <1>1, <1>2, <1>3, PTL DEF OfficeSpec

(* In the office whoever is signed in has shown the secret that the language *)
(* has now, unless it was replaced while the sign-in was under way           *)
(* (translatorLogin, TranslatorAccessDialog), for any languages.             *)
THEOREM OfficeCredentials == OfficeSpec => []AccessIsCurrent
<1> DEFINE Inv == part = "links" => LinksInv
<1>1. OfficeInit => Inv
  BY OfficeAssumption, LinksInit DEF OfficeInit
<1>2. Inv /\ [OfficeNext]_officeVars => Inv'
  <2> SUFFICES ASSUME Inv, [OfficeNext]_officeVars, part' = "links"
               PROVE  LinksInv'
    OBVIOUS
  <2>1. part = "links" /\ LinksInv
    BY DEF OfficeNext, officeVars
  <2>2. ASSUME OfficeNext
        PROVE  Links!Next
    BY <2>1, <2>2 DEF OfficeNext
  <2>3. ASSUME UNCHANGED officeVars
        PROVE  UNCHANGED Links!vars
    BY <2>3 DEF officeVars, ofLinks, Links!vars, Links!server, Links!console
  <2>4. [Links!Next]_(Links!vars)
    BY <2>2, <2>3
  <2>5. QED
    BY <2>1, <2>4, OfficeAssumption, LinksStep
<1>3. Inv => AccessIsCurrent
  BY OfficeAssumption, LinksSafe DEF AccessIsCurrent
<1>4. QED
  BY <1>1, <1>2, <1>3, PTL DEF OfficeSpec

(* In the office what the approver's page waits for has exactly one handler, *)
(* and it counts no claim that was not approved (ApproverRoute).             *)
THEOREM OfficeApproverScreen == OfficeSpec => []ApproverScreenIsTrue
<1> DEFINE Inv == part = "scanner" => ScannerInv
<1>1. OfficeInit => Inv
  BY OfficeAssumption, ScannerInit DEF OfficeInit
<1>2. Inv /\ [OfficeNext]_officeVars => Inv'
  <2> SUFFICES ASSUME Inv, [OfficeNext]_officeVars, part' = "scanner"
               PROVE  ScannerInv'
    OBVIOUS
  <2>1. part = "scanner" /\ ScannerInv
    BY DEF OfficeNext, officeVars
  <2>2. ASSUME OfficeNext
        PROVE  Scanner!Next
    BY <2>1, <2>2 DEF OfficeNext
  <2>3. ASSUME UNCHANGED officeVars
        PROVE  UNCHANGED Scanner!vars
    BY <2>3 DEF officeVars, ofScanner, Scanner!vars, Scanner!server
  <2>4. [Scanner!Next]_(Scanner!vars)
    BY <2>2, <2>3
  <2>5. QED
    BY <2>1, <2>4, OfficeAssumption, ScannerStep
<1>3. Inv => ApproverScreenIsTrue
  BY OfficeAssumption, ScannerSafe DEF ApproverScreenIsTrue
<1>4. QED
  BY <1>1, <1>2, <1>3, PTL DEF OfficeSpec

(* In the office a cached answer says live only of a stream that was live    *)
(* within the time answers are kept (deriveStreamState, the status cache).   *)
THEOREM OfficeOnAir == OfficeSpec => []LiveIsHeard
<1> DEFINE Inv == part = "air" => AirInv
<1>1. OfficeInit => Inv
  BY OfficeAssumption, AirInit DEF OfficeInit
<1>2. Inv /\ [OfficeNext]_officeVars => Inv'
  <2> SUFFICES ASSUME Inv, [OfficeNext]_officeVars, part' = "air"
               PROVE  AirInv'
    OBVIOUS
  <2>1. part = "air" /\ AirInv
    BY DEF OfficeNext, officeVars
  <2>2. ASSUME OfficeNext
        PROVE  Air!Next
    BY <2>1, <2>2 DEF OfficeNext
  <2>3. ASSUME UNCHANGED officeVars
        PROVE  UNCHANGED Air!vars
    BY <2>3 DEF officeVars, ofAir, Air!vars, Air!memory
  <2>4. [Air!Next]_(Air!vars)
    BY <2>2, <2>3
  <2>5. QED
    BY <2>1, <2>4, OfficeAssumption, AirStep
<1>3. Inv => LiveIsHeard
  BY OfficeAssumption, AirSafe DEF LiveIsHeard
<1>4. QED
  BY <1>1, <1>2, <1>3, PTL DEF OfficeSpec

(* In the office no more guesses of the approver's password are told that    *)
(* they are wrong than the limits allow (reserveLoginAttempt).               *)
THEOREM OfficeTellsFew == OfficeSpec => []GuessesBounded
<1> DEFINE Inv == part = "desk" => DeskInv
<1>1. OfficeInit => Inv
  BY OfficeAssumption, DeskInit DEF OfficeInit
<1>2. Inv /\ [OfficeNext]_officeVars => Inv'
  <2> SUFFICES ASSUME Inv, [OfficeNext]_officeVars, part' = "desk"
               PROVE  DeskInv'
    OBVIOUS
  <2>1. part = "desk" /\ DeskInv
    BY DEF OfficeNext, officeVars
  <2>2. ASSUME OfficeNext
        PROVE  Desk!Next
    BY <2>1, <2>2 DEF OfficeNext
  <2>3. ASSUME UNCHANGED officeVars
        PROVE  UNCHANGED Desk!vars
    BY <2>3 DEF officeVars, ofDesk, Desk!vars
  <2>4. [Desk!Next]_(Desk!vars)
    BY <2>2, <2>3
  <2>5. QED
    BY <2>1, <2>4, OfficeAssumption, DeskStep
<1>3. Inv => GuessesBounded
  BY OfficeAssumption, DeskSafe DEF GuessesBounded
<1>4. QED
  BY <1>1, <1>2, <1>3, PTL DEF OfficeSpec

(* In the office the console of a manager tells the truth: its flags of what *)
(* it waits for, its panel of passwords and, for every account but an        *)
(* admin's, the list of programs, unless an answer about it was lost.        *)
THEOREM OfficeConsoleIsHonest == OfficeSpec => []ConsoleIsHonest
<1> DEFINE Inv == part = "console" => ConsoleInv
<1>1. OfficeInit => Inv
  BY ConsoleInit DEF OfficeInit
<1>2. Inv /\ [OfficeNext]_officeVars => Inv'
  <2> SUFFICES ASSUME Inv, [OfficeNext]_officeVars, part' = "console"
               PROVE  ConsoleInv'
    OBVIOUS
  <2>1. part = "console" /\ ConsoleInv
    BY DEF OfficeNext, officeVars
  <2>2. ASSUME OfficeNext
        PROVE  Pages!Next
    BY <2>1, <2>2 DEF OfficeNext
  <2>3. ASSUME UNCHANGED officeVars
        PROVE  UNCHANGED Pages!vars
    BY <2>3 DEF officeVars, ofConsole, Pages!vars
  <2>4. [Pages!Next]_(Pages!vars)
    BY <2>2, <2>3
  <2>5. QED
    BY <2>1, <2>4, ConsoleStep
<1>3. Inv => ConsoleIsHonest
  BY ConsoleSafe DEF ConsoleIsHonest
<1>4. QED
  BY <1>1, <1>2, <1>3, PTL DEF OfficeSpec

(* In the office the chart of the reports is the one of the rows, whichever  *)
(* answers it was given late and however often it was refreshed or opened    *)
(* again, unless parts of two charts were mixed.                             *)
THEOREM OfficeChartIsTrue == OfficeSpec => []ChartIsTrue
<1> DEFINE Inv == part = "chart" => ChartInv
<1>1. OfficeInit => Inv
  BY OfficeAssumption, ChartInit DEF OfficeInit
<1>2. Inv /\ [OfficeNext]_officeVars => Inv'
  <2> SUFFICES ASSUME Inv, [OfficeNext]_officeVars, part' = "chart"
               PROVE  ChartInv'
    OBVIOUS
  <2>1. part = "chart" /\ ChartInv
    BY DEF OfficeNext, officeVars
  <2>2. ASSUME OfficeNext
        PROVE  Chart!Next
    BY <2>1, <2>2 DEF OfficeNext
  <2>3. ASSUME UNCHANGED officeVars
        PROVE  UNCHANGED Chart!vars
    BY <2>3 DEF officeVars, ofChart, Chart!vars
  <2>4. [Chart!Next]_(Chart!vars)
    BY <2>2, <2>3
  <2>5. QED
    BY <2>1, <2>4, OfficeAssumption, ChartStep
<1>3. Inv => ChartIsTrue
  BY ChartSafe DEF ChartIsTrue
<1>4. QED
  BY <1>1, <1>2, <1>3, PTL DEF OfficeSpec
LEMMA AccountTypes == Typed => TypeOK
BY DEF Typed, TypeOK, Row, CallOK

LEMMA LinksTypes == LinksInv => Links!TypeOK
BY DEF LinksInv, LinksServer, LinksConsole, Links!TypeOK, SignIn, Credential, MaybeExpiry, DialogRow, RequestRow

LEMMA PhoneTypes == PhoneInv => Phone!TypeOK
BY DEF PhoneInv

OfficeTypes ==
    /\ Typed
    /\ IF part = "chart" THEN ChartInv ELSE NoChartYet
    /\ IF part = "console" THEN ConsoleInv ELSE NoConsole
    /\ IF part = "links" THEN LinksInv ELSE NoLinks
    /\ IF part = "scanner" THEN ScannerInv /\ SessionsOK /\ GrantsOK ELSE NoScanner
    /\ IF part = "phone" THEN PhoneInv ELSE NoPhone
    /\ IF part = "desk" THEN DeskInv /\ DeskBounds ELSE NoDesk
    /\ IF part = "air" THEN Air!TypeOK ELSE NoAir

(* Whatever part the office runs, every variable keeps its type, and those   *)
(* of the parts that do not run stay as they are.                            *)
THEOREM OfficeTyped == OfficeSpec => []OfficeTypeOK
<1>1. OfficeInit => OfficeTypes
  <2> SUFFICES ASSUME OfficeInit
               PROVE  OfficeTypes
    OBVIOUS
  <2>1. Typed
    BY InitTyped DEF OfficeInit
  <2>2. IF part = "chart" THEN ChartInv ELSE NoChartYet
    BY OfficeAssumption, ChartInit DEF OfficeInit
  <2>3. IF part = "console" THEN ConsoleInv ELSE NoConsole
    BY ConsoleInit DEF OfficeInit
  <2>4. IF part = "links" THEN LinksInv ELSE NoLinks
    BY OfficeAssumption, LinksInit DEF OfficeInit
  <2>5. IF part = "scanner" THEN ScannerInv /\ SessionsOK /\ GrantsOK ELSE NoScanner
    BY OfficeAssumption, ScannerInit, ScannerTypesInit DEF OfficeInit
  <2>6. IF part = "phone" THEN PhoneInv ELSE NoPhone
    BY PhoneInit DEF OfficeInit
  <2>7. IF part = "desk" THEN DeskInv /\ DeskBounds ELSE NoDesk
    BY OfficeAssumption, DeskInit, DeskBoundsInit DEF OfficeInit
  <2>8. IF part = "air" THEN Air!TypeOK ELSE NoAir
    BY AirInitTyped DEF OfficeInit
  <2>9. QED
    BY <2>1, <2>2, <2>3, <2>4, <2>5, <2>6, <2>7, <2>8 DEF OfficeTypes
<1>2. OfficeTypes /\ [OfficeNext]_officeVars => OfficeTypes'
  <2> SUFFICES ASSUME OfficeTypes, [OfficeNext]_officeVars
               PROVE  OfficeTypes'
    OBVIOUS
  <2>1. part' = part
    BY DEF OfficeNext, officeVars
  <2>2. Typed'
    <3>1. [Next]_vars
      BY DEF OfficeNext, officeVars
    <3>2. QED
      BY <3>1, NextTyped DEF OfficeTypes
  <2>3. IF part' = "chart" THEN ChartInv' ELSE NoChartYet'
    <3>1. CASE part = "chart"
      <4>1. ChartInv
        BY <3>1 DEF OfficeTypes
      <4>2. [Chart!Next]_(Chart!vars)
        BY <3>1 DEF OfficeNext, officeVars, ofChart, Chart!vars
      <4>3. QED
        BY <2>1, <3>1, <4>1, <4>2, OfficeAssumption, ChartStep
    <3>2. CASE part # "chart"
      <4>1. NoChartYet /\ UNCHANGED ofChart
        BY <3>2 DEF OfficeTypes, OfficeNext, officeVars
      <4>2. QED
        BY <2>1, <3>2, <4>1 DEF NoChartYet, ofChart
    <3>3. QED
      BY <3>1, <3>2
  <2>4. IF part' = "console" THEN ConsoleInv' ELSE NoConsole'
    <3>1. CASE part = "console"
      <4>1. ConsoleInv
        BY <3>1 DEF OfficeTypes
      <4>2. [Pages!Next]_(Pages!vars)
        BY <3>1 DEF OfficeNext, officeVars, ofConsole, Pages!vars
      <4>3. QED
        BY <2>1, <3>1, <4>1, <4>2, ConsoleStep
    <3>2. CASE part # "console"
      <4>1. NoConsole /\ UNCHANGED ofConsole
        BY <3>2 DEF OfficeTypes, OfficeNext, officeVars
      <4>2. QED
        BY <2>1, <3>2, <4>1 DEF NoConsole, ofConsole
    <3>3. QED
      BY <3>1, <3>2
  <2>5. IF part' = "links" THEN LinksInv' ELSE NoLinks'
    <3>1. CASE part = "links"
      <4>1. LinksInv
        BY <3>1 DEF OfficeTypes
      <4>2. [Links!Next]_(Links!vars)
        BY <3>1 DEF OfficeNext, officeVars, ofLinks, Links!vars, Links!server, Links!console
      <4>3. QED
        BY <2>1, <3>1, <4>1, <4>2, OfficeAssumption, LinksStep
    <3>2. CASE part # "links"
      <4>1. NoLinks /\ UNCHANGED ofLinks
        BY <3>2 DEF OfficeTypes, OfficeNext, officeVars
      <4>2. QED
        BY <2>1, <3>2, <4>1 DEF NoLinks, ofLinks
    <3>3. QED
      BY <3>1, <3>2
  <2>6. IF part' = "scanner" THEN ScannerInv' /\ SessionsOK' /\ GrantsOK' ELSE NoScanner'
    <3>1. CASE part = "scanner"
      <4>1. ScannerInv /\ SessionsOK /\ GrantsOK
        BY <3>1 DEF OfficeTypes
      <4>2. [Scanner!Next]_(Scanner!vars)
        BY <3>1 DEF OfficeNext, officeVars, ofScanner, Scanner!vars, Scanner!server
      <4>3. QED
        BY <2>1, <3>1, <4>1, <4>2, OfficeAssumption, ScannerStep, ScannerTypesStep
    <3>2. CASE part # "scanner"
      <4>1. NoScanner /\ UNCHANGED ofScanner
        BY <3>2 DEF OfficeTypes, OfficeNext, officeVars
      <4>2. QED
        BY <2>1, <3>2, <4>1 DEF NoScanner, ofScanner
    <3>3. QED
      BY <3>1, <3>2
  <2>7. IF part' = "phone" THEN PhoneInv' ELSE NoPhone'
    <3>1. CASE part = "phone"
      <4>1. PhoneInv
        BY <3>1 DEF OfficeTypes
      <4>2. [Phone!Next]_(Phone!vars)
        BY <3>1 DEF OfficeNext, officeVars, ofPhone, Phone!vars
      <4>3. QED
        BY <2>1, <3>1, <4>1, <4>2, PhoneStep
    <3>2. CASE part # "phone"
      <4>1. NoPhone /\ UNCHANGED ofPhone
        BY <3>2 DEF OfficeTypes, OfficeNext, officeVars
      <4>2. QED
        BY <2>1, <3>2, <4>1 DEF NoPhone, ofPhone
    <3>3. QED
      BY <3>1, <3>2
  <2>8. IF part' = "desk" THEN DeskInv' /\ DeskBounds' ELSE NoDesk'
    <3>1. CASE part = "desk"
      <4>1. DeskInv /\ DeskBounds
        BY <3>1 DEF OfficeTypes
      <4>2. [Desk!Next]_(Desk!vars)
        BY <3>1 DEF OfficeNext, officeVars, ofDesk, Desk!vars
      <4>3. QED
        BY <2>1, <3>1, <4>1, <4>2, OfficeAssumption, DeskStep, DeskBoundsStep
    <3>2. CASE part # "desk"
      <4>1. NoDesk /\ UNCHANGED ofDesk
        BY <3>2 DEF OfficeTypes, OfficeNext, officeVars
      <4>2. QED
        BY <2>1, <3>2, <4>1 DEF NoDesk, ofDesk
    <3>3. QED
      BY <3>1, <3>2
  <2>9. IF part' = "air" THEN Air!TypeOK' ELSE NoAir'
    <3>1. CASE part = "air"
      <4>1. Air!TypeOK
        BY <3>1 DEF OfficeTypes
      <4>2. [Air!Next]_(ofAir)
        BY <3>1 DEF OfficeNext, officeVars, ofAir
      <4>3. QED
        BY <2>1, <3>1, <4>1, <4>2, AirStepTyped
    <3>2. CASE part # "air"
      <4>1. NoAir /\ UNCHANGED ofAir
        BY <3>2 DEF OfficeTypes, OfficeNext, officeVars
      <4>2. QED
        BY <2>1, <3>2, <4>1 DEF NoAir, ofAir
    <3>3. QED
      BY <3>1, <3>2
  <2>10. QED
    BY <2>2, <2>3, <2>4, <2>5, <2>6, <2>7, <2>8, <2>9 DEF OfficeTypes
<1>3. OfficeTypes => OfficeTypeOK
  <2> SUFFICES ASSUME OfficeTypes
               PROVE  OfficeTypeOK
    OBVIOUS
  <2>1. TypeOK
    BY AccountTypes DEF OfficeTypes
  <2>2. IF part = "chart" THEN Chart!TypeOK ELSE NoChartYet
    BY OfficeAssumption, ChartTyped DEF OfficeTypes
  <2>3. IF part = "console" THEN Pages!TypeOK ELSE NoConsole
    BY ConsoleTyped DEF OfficeTypes
  <2>4. IF part = "links" THEN Links!TypeOK ELSE NoLinks
    BY LinksTypes DEF OfficeTypes
  <2>5. IF part = "scanner" THEN Scanner!TypeOK ELSE NoScanner
    BY OfficeAssumption, ScannerTypes DEF OfficeTypes
  <2>6. IF part = "phone" THEN Phone!TypeOK ELSE NoPhone
    BY PhoneTypes DEF OfficeTypes
  <2>7. IF part = "desk" THEN Desk!TypeOK ELSE NoDesk
    BY OfficeAssumption, DeskTyped DEF OfficeTypes
  <2>8. IF part = "air" THEN Air!TypeOK ELSE NoAir
    BY DEF OfficeTypes
  <2>9. QED
    BY <2>1, <2>2, <2>3, <2>4, <2>5, <2>6, <2>7, <2>8 DEF OfficeTypeOK
<1>4. QED
  BY <1>1, <1>2, <1>3, PTL DEF OfficeSpec
=============================================================================
