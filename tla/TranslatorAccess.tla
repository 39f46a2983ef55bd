--------------------------- MODULE TranslatorAccess ---------------------------
(***************************************************************************)
(* The credential of each language's translator: a password, or the secret *)
(* of a link that works until it expires.  An administrator makes and      *)
(* revokes links in a dialog, of one language at a time, that stays in the *)
(* page while it is closed; another console may do the same; translators   *)
(* sign in with what they were given.                                      *)
(*                                                                         *)
(* A sign-in waits for two digests: it has read the row before the first,  *)
(* and makes its session after the second.  The requests of the dialog are *)
(* served in one step, after their digest, since nothing else waits there. *)
(* Secrets are numbers, given out once.  Time is in hours of a link.       *)
(***************************************************************************)
EXTENDS Integers, FiniteSets

CONSTANTS
    Language,    \* the languages of a program
    Call,        \* sign-ins that may be under way at once
    Hours,       \* LIFETIME_OPTIONS_HOURS
    MaxSecret,   \* bound: secrets given out
    MaxTime,     \* bound: the clock
    None

VARIABLES
    clock,
    issued,      \* the last secret given out
    owner,       \* owner[n]: the language of the secret n
    row,         \* row[l]: the secret and access_expires_at of the translator of l
    sessions,    \* translator_sessions, with the secret each was earned with
    calls,       \* sign-ins under way
    dialog,      \* TranslatorAccessDialog
    request,     \* the dialog's request under way, None for none
    detail       \* detail[l]: the expiry that the console shows

server  == <<clock, issued, owner, row, sessions>>
console == <<dialog, request, detail>>
vars    == <<server, calls, console>>

Secret == 1 .. MaxSecret

Unexpiring(n) == [secret |-> n, expires |-> None]
Idle   == [phase |-> "idle"]
Closed == [lang |-> None, link |-> None, busy |-> FALSE, notice |-> FALSE]

Init ==
    /\ clock = 0
    /\ issued = Cardinality(Language)
    /\ LET f == CHOOSE f \in [Language -> 1 .. issued] : \A l, m \in Language : f[l] = f[m] => l = m
       IN  /\ row = [l \in Language |-> Unexpiring(f[l])]
           /\ owner = [n \in Secret |-> IF n > issued THEN None ELSE CHOOSE l \in Language : f[l] = n]
    /\ sessions = {}
    /\ calls = [c \in Call |-> Idle]
    /\ dialog = Closed
    /\ request = None
    /\ detail = [l \in Language |-> None]

-----------------------------------------------------------------------------
(* Signing in: with the form or with the link of the page's address *)

LoginReads(c) ==
    /\ calls[c] = Idle
    /\ \E l \in Language, n \in 1 .. issued :
          calls' = [calls EXCEPT ![c] = [phase |-> "digest", lang |-> l, secret |-> n, read |-> row[l],
                                         late |-> FALSE]]
    /\ UNCHANGED <<server, console>>

Accepts(read, n) == n = read.secret /\ (read.expires # None => clock < read.expires)

\* verifyPassword: the secret is compared with the row that was read before the digest.
LoginVerifies(c) ==
    LET t == calls[c] IN
    /\ t.phase = "digest"
    /\ calls' = [calls EXCEPT ![c] = IF Accepts(t.read, t.secret) THEN [t EXCEPT !.phase = "session"] ELSE Idle]
    /\ UNCHANGED <<server, console>>

\* createSession, after the digest of its token.
LoginEnds(c) ==
    LET t == calls[c] IN
    /\ t.phase = "session"
    /\ sessions' = sessions \cup {[lang |-> t.lang, secret |-> t.secret, late |-> t.late]}
    /\ calls' = [calls EXCEPT ![c] = Idle]
    /\ UNCHANGED <<clock, issued, owner, row, console>>

\* revokeSession, /logout, or the session expires.
SessionEnds(x) ==
    /\ x \in sessions
    /\ sessions' = sessions \ {x}
    /\ UNCHANGED <<clock, issued, owner, row, calls, console>>

-----------------------------------------------------------------------------
(* The credential of a language is replaced, and its sessions are ended *)

\* History: the sign-ins under way that have read a credential which is no longer the one.
Overtaken(l) ==
    [c \in Call |-> IF calls[c] # Idle /\ calls[c].lang = l THEN [calls[c] EXCEPT !.late = TRUE] ELSE calls[c]]

\* Mutant: whoever is signed in stays.
Remaining_All(l) == sessions

Remaining(l) == {x \in sessions : x.lang # l}

Replaces(l, expires) ==
    /\ issued < MaxSecret
    /\ issued' = issued + 1
    /\ owner' = [owner EXCEPT ![issued + 1] = l]
    /\ row' = [row EXCEPT ![l] = [secret |-> issued + 1, expires |-> expires]]
    /\ sessions' = Remaining(l)
    /\ calls' = Overtaken(l)
    /\ UNCHANGED clock

\* A new secret that is good until it expires; a secret that nobody knows, which has expired;
\* a password, set by an administrator.
IssueAccess(l, hours) == Replaces(l, clock + hours)
RevokeAccess(l)       == Replaces(l, clock)
ResetPassword(l)      == Replaces(l, None)

\* Another console does one of these.
OtherReplaces(l) ==
    /\ (\E h \in Hours : IssueAccess(l, h)) \/ RevokeAccess(l) \/ ResetPassword(l)
    /\ UNCHANGED console

-----------------------------------------------------------------------------
(* The dialog *)

HasActiveLink ==
    dialog.link # None \/ (detail[dialog.lang] # None /\ clock < detail[dialog.lang])

Opens(l) ==
    /\ dialog.lang = None
    /\ dialog' = [Closed EXCEPT !.lang = l, !.busy = dialog.busy]
    /\ UNCHANGED <<server, calls, request, detail>>

\* The effect of the language clears all that belongs to it, and leaves the request alone.
Closes ==
    /\ dialog.lang # None
    /\ dialog' = [Closed EXCEPT !.busy = dialog.busy]
    /\ UNCHANGED <<server, calls, request, detail>>

Sends(op, hours) ==
    /\ dialog.lang # None /\ ~dialog.busy
    /\ request' = [op |-> op, lang |-> dialog.lang, hours |-> hours, ans |-> None, secret |-> None]

PressGenerate ==
    /\ \E h \in Hours : Sends("generate", h)
    /\ dialog' = [dialog EXCEPT !.busy = TRUE, !.notice = FALSE]
    /\ UNCHANGED <<server, calls, detail>>

PressRevoke ==
    /\ Sends("revoke", None) /\ HasActiveLink
    /\ dialog' = [dialog EXCEPT !.busy = TRUE]
    /\ UNCHANGED <<server, calls, detail>>

UnderWay(ans) == request # None /\ request.ans = ans

ServeGenerate ==
    /\ UnderWay(None) /\ request.op = "generate"
    /\ IssueAccess(request.lang, request.hours)
    /\ request' = [request EXCEPT !.ans = "ok", !.secret = issued + 1]
    /\ UNCHANGED <<dialog, detail>>

ServeRevoke ==
    /\ UnderWay(None) /\ request.op = "revoke"
    /\ RevokeAccess(request.lang)
    /\ request' = [request EXCEPT !.ans = "ok"]
    /\ UNCHANGED <<dialog, detail>>

\* The request or its answer is lost, or the server fails.
RequestFails ==
    /\ request # None /\ request.ans \in {None, "ok"}
    /\ request' = [request EXCEPT !.ans = "error", !.secret = None]
    /\ UNCHANGED <<server, calls, dialog, detail>>

\* The answer is shown in the dialog, whatever its language is by now; if all went well the
\* console's detail is loaded again before the buttons work.
Answered ==
    /\ UnderWay("ok")
    /\ dialog' = IF request.op = "generate" THEN [dialog EXCEPT !.link = request.secret]
                 ELSE [dialog EXCEPT !.link = None, !.notice = TRUE]
    /\ request' = [request EXCEPT !.ans = "refresh"]
    /\ UNCHANGED <<server, calls, detail>>

Refreshed ==
    /\ UnderWay("refresh")
    /\ detail' \in {detail, [l \in Language |-> row[l].expires]}
    /\ dialog' = [dialog EXCEPT !.busy = FALSE]
    /\ request' = None
    /\ UNCHANGED <<server, calls>>

AnswerFails ==
    /\ UnderWay("error")
    /\ dialog' = [dialog EXCEPT !.busy = FALSE]
    /\ request' = None
    /\ UNCHANGED <<server, calls, detail>>

\* The console loads the program again.
LoadsDetail ==
    /\ detail' = [l \in Language |-> row[l].expires]
    /\ UNCHANGED <<server, calls, dialog, request>>

Tick == clock < MaxTime /\ clock' = clock + 1 /\ UNCHANGED <<issued, owner, row, sessions, calls, console>>

-----------------------------------------------------------------------------
Next ==
    \/ \E c \in Call : LoginReads(c) \/ LoginVerifies(c) \/ LoginEnds(c)
    \/ \E x \in sessions : SessionEnds(x)
    \/ \E l \in Language : OtherReplaces(l) \/ Opens(l)
    \/ Closes \/ PressGenerate \/ PressRevoke \/ ServeGenerate \/ ServeRevoke \/ RequestFails
    \/ Answered \/ Refreshed \/ AnswerFails \/ LoadsDetail \/ Tick

Spec == Init /\ [][Next]_vars

-----------------------------------------------------------------------------
(* A link works until one of the hours of its lifetime, or had ended when it was made. *)
Expiry == 0 .. MaxTime + 72

(* Every variable has its type. *)
TypeOK ==
    /\ clock \in 0 .. MaxTime /\ issued \in 0 .. MaxSecret
    /\ owner \in [Secret -> Language \cup {None}]
    /\ row \in [Language -> [secret : Secret, expires : Expiry \cup {None}]]
    /\ sessions \subseteq [lang : Language, secret : Secret, late : BOOLEAN]
    /\ \A c \in Call : calls[c] = Idle
                       \/ calls[c] \in [phase : {"digest", "session"}, lang : Language, secret : Secret,
                                        read : [secret : Secret, expires : Expiry \cup {None}], late : BOOLEAN]
    /\ dialog \in [lang : Language \cup {None}, link : Secret \cup {None}, busy : BOOLEAN, notice : BOOLEAN]
    /\ request # None => request \in [op : {"generate", "revoke"}, lang : Language, hours : Hours \cup {None},
                                      ans : {None, "ok", "error", "refresh"}, secret : Secret \cup {None}]
    /\ detail \in [Language -> Expiry \cup {None}]

(* Whoever is signed in was let in with the credential that the language has now: replacing  *)
(* and revoking it ends the sessions (endLiveSessions); unless the sign-in was under way      *)
(* meanwhile, which has read the old credential.                                              *)
ReplacedIsOut == \A x \in sessions : ~x.late => x.secret = row[x.lang].secret

(* A sign-in that is about to make its session has shown a secret that was given out for its *)
(* own language; and the secret is the language's present one, unless it was replaced while   *)
(* the sign-in was under way (late), which the code lets in.                                  *)
LetInWithLink ==
    \A c \in Call : calls[c] # Idle /\ calls[c].phase = "session" =>
        /\ owner[calls[c].secret] = calls[c].lang
        /\ ~calls[c].late => calls[c].secret = row[calls[c].lang].secret

(* A dialog that cannot be used has a request under way, which ends it (busy). *)
BusyIsWaiting == dialog.busy <=> request # None

(* The three together: who is signed in or about to be, and a dialog that ends its waiting.   *)
AccessIsCurrent == ReplacedIsOut /\ LetInWithLink /\ BusyIsWaiting

(* "Never carry a link (a secret) from one language's dialog into another's"               *)
(* (TranslatorAccessDialog.tsx:66).                                                          *)
LinkOfLanguage == dialog.lang # None /\ dialog.link # None => owner[dialog.link] = dialog.lang
=============================================================================
