------------------------------ MODULE MfaSetup ------------------------------
(***************************************************************************)
(* The second factors of an account, on its security page: MFAMethodList,  *)
(* TOTPSetupDialog, WebAuthnRegisterDialog and the recovery codes          *)
(* (components/mfa, lib/hooks/use-mfa.ts).                                 *)
(*                                                                         *)
(* The server makes recovery codes with the first verified method, and     *)
(* shows them once.  The dialogs stay mounted when they are closed, and an *)
(* answer that comes then still moves them on.  Of the codes a generation  *)
(* is kept: a number.                                                      *)
(***************************************************************************)
EXTENDS Naturals, FiniteSets

CONSTANTS Ask,     \* requests under way (a bound on how many at a time)
          MaxGen,  \* bound: generations of recovery codes
          Method,  \* the verified methods an account can have
          MaxMetMfa   \* bound: what a run meets that excuses a mishap

ASSUME MfaBoundsAssumption == MaxGen \in Nat /\ MaxMetMfa \in Nat

VARIABLES
    methods, gen,    \* the server's: verified methods, the codes in force (0: none)
    made,            \* generations so far
    listed,          \* methods in the list of the page
    listLoading,     \* a skeleton is in place of the list and its buttons
    open,            \* the dialog that is open
    totp, webauthn,  \* the dialogs: the step, and the codes to show
    codes,           \* of RegenerateRecoveryCodesDialog (0: none)
    keyLoading,      \* isLoading of useWebAuthnRegister
    ask,             \* requests under way
    removing,        \* those of a row that is shown, whose Remove is disabled meanwhile
    kept,            \* history: the codes the user has confirmed to have saved
    metMfa,          \* history: what the page has met
    stale            \* history: "yes" when codes no longer in force were confirmed

mfa == <<methods, gen, made, listed, listLoading, open, totp, webauthn, codes,
         keyLoading, ask, removing, kept, metMfa, stale>>

\* Of a request for the list, about is the answer; of a delete or a toggle, the method.
NoAsk == [kind |-> "none", phase |-> "none", gen |-> 0, about |-> {}]
AtName == [step |-> "name", codes |-> 0]

Asking(kinds) == \E a \in Ask : ask[a].kind \in kinds
MfaQuiet == \A a \in Ask : ask[a] = NoAsk

MfaInit ==
    /\ methods \in SUBSET Method /\ made = 0 /\ kept = {}
    /\ gen = 0                      \* codes made earlier count as none
    /\ listed = {} /\ listLoading = "yes" /\ open = "none"
    /\ totp = AtName /\ webauthn = AtName /\ codes = 0 /\ keyLoading = "no"
    /\ \E a \in Ask : ask = [x \in Ask |->
          IF x = a THEN [NoAsk EXCEPT !.kind = "list", !.phase = "sent"] ELSE NoAsk]
    /\ removing = {} /\ metMfa = {} /\ stale = "no"

AskAbout(requests, kind, about) ==
    \E a \in Ask :
        /\ requests[a] = NoAsk
        /\ ask' = [requests EXCEPT ![a] = [NoAsk EXCEPT !.kind = kind, !.phase = "sent",
                                                      !.about = about]]

AskServer(requests, kind) == AskAbout(requests, kind, {})

Ended(a) == [ask EXCEPT ![a] = NoAsk]

\* refetch of useMFAMethods, as a request ends: the skeleton takes the rows away.
Refetch(requests) ==
    /\ AskServer(requests, "list")
    /\ listLoading' = "yes" /\ removing' = {}

\* Two fetches of the list at a time may be answered in the other order.
MetLists == IF Asking({"list"}) THEN {"lists"} ELSE {}

-----------------------------------------------------------------------------
(* The user                                                                *)

OpenDialog(d) ==
    /\ open = "none" /\ listLoading = "no"
    /\ d = "regenerate" => listed # {}
    /\ open' = d
    /\ metMfa' = metMfa \cup IF Asking({"delete"}) THEN {"delete"} ELSE {}
    /\ UNCHANGED <<methods, gen, made, listed, listLoading, totp, webauthn, codes,
                   keyLoading, ask, removing, kept, stale>>

handleBeginSetup ==
    /\ open = "totp" /\ totp.step = "name" /\ ~Asking({"begin", "verify"})
    /\ AskServer(ask, "begin")
    /\ UNCHANGED <<methods, gen, made, listed, listLoading, open, totp, webauthn, codes,
                   keyLoading, removing, kept, metMfa, stale>>

\* Mutant: Verify is not disabled while a code is being checked.
handleVerifyAgain ==
    /\ open = "totp" /\ totp.step = "verify"
    /\ AskServer(ask, "verify")
    /\ UNCHANGED <<methods, gen, made, listed, listLoading, open, totp, webauthn, codes,
                   keyLoading, removing, kept, metMfa, stale>>

handleVerify ==
    /\ open = "totp" /\ totp.step = "verify" /\ ~Asking({"begin", "verify"})
    /\ AskServer(ask, "verify")
    /\ UNCHANGED <<methods, gen, made, listed, listLoading, open, totp, webauthn, codes,
                   keyLoading, removing, kept, metMfa, stale>>

\* The buttons Back and Next of the steps between.
TurnStep ==
    /\ open = "totp"
    /\ \E from \in {"scan", "verify"}, to \in {"name", "scan", "verify"} :
         /\ totp.step = from /\ <<from, to>> \in {<<"scan", "name">>, <<"scan", "verify">>,
                                                  <<"verify", "scan">>}
         /\ totp' = [totp EXCEPT !.step = to]
    /\ UNCHANGED <<methods, gen, made, listed, listLoading, open, webauthn, codes,
                   keyLoading, ask, removing, kept, metMfa, stale>>

\* handleRegister: isLoading is off again while the browser prompts, so a dialog
\* closed and opened again can start a second registration.
handleRegister ==
    /\ open = "webauthn" /\ webauthn.step = "name" /\ keyLoading = "no"
    /\ webauthn' = [webauthn EXCEPT !.step = "waiting"]
    /\ AskServer(ask, "register") /\ keyLoading' = "yes"
    /\ metMfa' = metMfa \cup IF Asking({"register", "prompt", "finish"}) THEN {"runs"} ELSE {}
    /\ UNCHANGED <<methods, gen, made, listed, listLoading, open, totp, codes,
                   removing, kept, stale>>

\* The browser has a credential.
Credential(a) ==
    /\ ask[a].kind = "prompt"
    /\ ask' = [ask EXCEPT ![a] = [ask[a] EXCEPT !.kind = "finish", !.phase = "sent"]]
    /\ keyLoading' = "yes"
    /\ UNCHANGED <<methods, gen, made, listed, listLoading, open, totp, webauthn, codes,
                   removing, kept, metMfa, stale>>

handleRegenerate ==
    /\ open = "regenerate" /\ codes = 0 /\ ~Asking({"regenerate"})
    /\ AskServer(ask, "regenerate")
    /\ UNCHANGED <<methods, gen, made, listed, listLoading, open, totp, webauthn, codes,
                   keyLoading, removing, kept, metMfa, stale>>

\* Remove of a row is disabled while its own request is under way.
handleDelete(m) ==
    /\ open = "none" /\ listLoading = "no" /\ m \in listed
    /\ \A a \in removing : ask[a].about # {m}
    /\ AskAbout(ask, "delete", {m})
    /\ removing' = removing \cup {a \in Ask : ask[a] = NoAsk /\ ask'[a] # NoAsk}
    /\ UNCHANGED <<methods, gen, made, listed, listLoading, open, totp, webauthn, codes,
                   keyLoading, kept, metMfa, stale>>

\* The badge of a row is never disabled.
handleTogglePasswordless(m) ==
    /\ open = "none" /\ listLoading = "no" /\ m \in listed
    /\ AskAbout(ask, "toggle", {m})
    /\ UNCHANGED <<methods, gen, made, listed, listLoading, open, totp, webauthn, codes,
                   keyLoading, removing, kept, metMfa, stale>>

\* The codes the open dialog shows.
ShownCodes == IF open = "totp" /\ totp.step = "recovery" THEN totp.codes
              ELSE IF open = "webauthn" /\ webauthn.step = "recovery" THEN webauthn.codes
              ELSE IF open = "regenerate" THEN codes ELSE 0

\* handleClose: what the dialog held is gone.
Reset(d) ==
    /\ totp' = IF d = "totp" THEN AtName ELSE totp
    /\ webauthn' = IF d = "webauthn" THEN AtName ELSE webauthn
    /\ codes' = IF d = "regenerate" THEN 0 ELSE codes

KindsOf(d) == IF d = "totp" THEN {"begin", "verify"}
              ELSE IF d = "webauthn" THEN {"register", "prompt", "finish"}
              ELSE {"regenerate"}

\* Mutant: a dialog keeps what it holds when it is closed.
CloseKeepingCodes ==
    /\ open # "none" /\ open' = "none"
    /\ UNCHANGED <<totp, webauthn, codes>>
    /\ metMfa' = metMfa \cup (IF ShownCodes # 0 THEN {"discarded"} ELSE {})
                        \cup (IF Asking(KindsOf(open)) THEN {"left"} ELSE {})
    /\ UNCHANGED <<methods, gen, made, listed, listLoading, keyLoading, ask, removing,
                   kept, stale>>

\* Cancel, Escape, or a click beside the dialog: at any step.
Close ==
    /\ open # "none" /\ open' = "none"
    /\ Reset(open)
    /\ metMfa' = metMfa \cup (IF ShownCodes # 0 THEN {"discarded"} ELSE {})
                        \cup (IF Asking(KindsOf(open)) THEN {"left"} ELSE {})
    /\ UNCHANGED <<methods, gen, made, listed, listLoading, keyLoading, ask, removing,
                   kept, stale>>

\* onDone, once the box "I have saved these codes" is ticked.  Only the set-up
\* dialogs tell the list.
handleRecoveryDone ==
    /\ ShownCodes # 0
    /\ kept' = kept \cup {ShownCodes}
    /\ stale' = IF ShownCodes # gen THEN "yes" ELSE stale
    /\ open' = "none" /\ Reset(open)
    /\ IF open = "regenerate"
       THEN UNCHANGED <<ask, listLoading, removing, metMfa>>
       ELSE Refetch(ask) /\ metMfa' = metMfa \cup MetLists
    /\ UNCHANGED <<methods, gen, made, listed, keyLoading>>

-----------------------------------------------------------------------------
(* The server: each request is one step of it                              *)

AnswerMfa(a, g) ==
    ask' = [ask EXCEPT ![a] = [ask[a] EXCEPT !.phase = "ok", !.gen = g,
                              !.about = IF ask[a].kind = "list" THEN methods ELSE @]]

\* A method gets an id of its own: none that the page still has from another.
Unknown(m) == m \notin methods \cup listed /\ \A a \in Ask : m \notin ask[a].about

\* A verified method; with the first, codes.
ServeMethod(a) ==
    /\ ask[a].kind \in {"verify", "finish"} /\ ask[a].phase = "sent"
    /\ \E m \in Method : Unknown(m) /\ methods' = methods \cup {m}
    /\ IF methods = {}
       THEN made < MaxGen /\ made' = made + 1 /\ gen' = made + 1 /\ AnswerMfa(a, made + 1)
       ELSE UNCHANGED <<made, gen>> /\ AnswerMfa(a, 0)
    /\ UNCHANGED <<listed, listLoading, open, totp, webauthn, codes, keyLoading, removing,
                   kept, metMfa, stale>>

ServeRegenerate(a) ==
    /\ ask[a].kind = "regenerate" /\ ask[a].phase = "sent"
    /\ made < MaxGen /\ made' = made + 1 /\ gen' = made + 1
    /\ AnswerMfa(a, made + 1)
    /\ UNCHANGED <<methods, listed, listLoading, open, totp, webauthn, codes, keyLoading,
                   removing, kept, metMfa, stale>>

\* The method is there still; without a method there are no codes.
ServeDelete(a) ==
    /\ ask[a].kind = "delete" /\ ask[a].phase = "sent"
    /\ ask[a].about \subseteq methods /\ methods' = methods \ ask[a].about
    /\ gen' = IF methods' = {} THEN 0 ELSE gen
    /\ AnswerMfa(a, 0)
    /\ UNCHANGED <<made, listed, listLoading, open, totp, webauthn, codes, keyLoading,
                   removing, kept, metMfa, stale>>

ServeOther(a) ==
    /\ ask[a].kind \in {"list", "begin", "register", "toggle"} /\ ask[a].phase = "sent"
    /\ ask[a].about \subseteq methods
    /\ AnswerMfa(a, 0)
    /\ UNCHANGED <<methods, gen, made, listed, listLoading, open, totp, webauthn, codes,
                   keyLoading, removing, kept, metMfa, stale>>

-----------------------------------------------------------------------------
(* The answers                                                             *)

\* Mutant: the list is not fetched again after a removal.
DeletedQuietly(a) ==
    /\ ask[a].kind \in {"delete", "toggle"} /\ ask[a].phase = "ok"
    /\ ask' = Ended(a) /\ removing' = removing \ {a}
    /\ UNCHANGED <<methods, gen, made, listed, listLoading, open, totp, webauthn, codes,
                   keyLoading, kept, metMfa, stale>>

Deleted(a) ==
    /\ ask[a].kind \in {"delete", "toggle"} /\ ask[a].phase = "ok"
    /\ Refetch(Ended(a)) /\ metMfa' = metMfa \cup MetLists
    /\ UNCHANGED <<methods, gen, made, listed, open, totp, webauthn, codes, keyLoading,
                   kept, stale>>

\* A row that is in the list before and after stays what it is.
MethodsListed(a) ==
    /\ ask[a].kind = "list" /\ ask[a].phase = "ok"
    /\ ask' = Ended(a) /\ listed' = ask[a].about /\ listLoading' = "no"
    /\ removing' = {x \in removing : ask[x].about \subseteq ask[a].about}
    /\ UNCHANGED <<methods, gen, made, open, totp, webauthn, codes, keyLoading, kept,
                   metMfa, stale>>

Begun(a) ==
    /\ ask[a].kind = "begin" /\ ask[a].phase = "ok"
    /\ ask' = Ended(a) /\ totp' = [totp EXCEPT !.step = "scan"]
    /\ UNCHANGED <<methods, gen, made, listed, listLoading, open, webauthn, codes,
                   keyLoading, removing, kept, metMfa, stale>>

\* The options have come: the browser prompts.
Prompting(a) ==
    /\ ask[a].kind = "register" /\ ask[a].phase = "ok"
    /\ ask' = [ask EXCEPT ![a] = [NoAsk EXCEPT !.kind = "prompt", !.phase = "shown"]]
    /\ keyLoading' = "no"
    /\ UNCHANGED <<methods, gen, made, listed, listLoading, open, totp, webauthn, codes,
                   removing, kept, metMfa, stale>>

\* Mutant: the codes of an answer are not shown when the dialog has been closed.
VerifiedIfOpen(a) ==
    LET d == IF ask[a].kind = "verify" THEN "totp" ELSE "webauthn" IN
    /\ ask[a].kind \in {"verify", "finish"} /\ ask[a].phase = "ok"
    /\ keyLoading' = IF d = "webauthn" THEN "no" ELSE keyLoading
    /\ IF ask[a].gen # 0 /\ open = d
       THEN /\ ask' = Ended(a)
            /\ totp' = IF d = "totp" THEN [step |-> "recovery", codes |-> ask[a].gen] ELSE totp
            /\ webauthn' = IF d = "webauthn"
                           THEN [step |-> "recovery", codes |-> ask[a].gen] ELSE webauthn
            /\ UNCHANGED <<open, codes, listLoading, removing, metMfa>>
       ELSE /\ Reset(d) /\ open' = IF open = d THEN "none" ELSE open
            /\ Refetch(Ended(a)) /\ metMfa' = metMfa \cup MetLists
    /\ UNCHANGED <<methods, gen, made, listed, kept, stale>>

\* With codes the dialog shows them, open or not; without, it is closed and the
\* list fetched again.
Verified(a) ==
    LET d == IF ask[a].kind = "verify" THEN "totp" ELSE "webauthn" IN
    /\ ask[a].kind \in {"verify", "finish"} /\ ask[a].phase = "ok"
    /\ keyLoading' = IF d = "webauthn" THEN "no" ELSE keyLoading
    /\ IF ask[a].gen # 0
       THEN /\ ask' = Ended(a)
            /\ totp' = IF d = "totp" THEN [step |-> "recovery", codes |-> ask[a].gen] ELSE totp
            /\ webauthn' = IF d = "webauthn"
                           THEN [step |-> "recovery", codes |-> ask[a].gen] ELSE webauthn
            /\ UNCHANGED <<open, codes, listLoading, removing, metMfa>>
       ELSE /\ Reset(d) /\ open' = IF open = d THEN "none" ELSE open
            /\ Refetch(Ended(a)) /\ metMfa' = metMfa \cup MetLists
    /\ UNCHANGED <<methods, gen, made, listed, kept, stale>>

Regenerated(a) ==
    /\ ask[a].kind = "regenerate" /\ ask[a].phase = "ok"
    /\ ask' = Ended(a) /\ codes' = ask[a].gen
    /\ UNCHANGED <<methods, gen, made, listed, listLoading, open, totp, webauthn,
                   keyLoading, removing, kept, metMfa, stale>>

\* Refused, or served and the answer lost; or the browser's prompt is cancelled.
\* A failed registration takes its dialog back to the first step; a list that
\* cannot be loaded is empty.
Failed(a) ==
    /\ ask[a] # NoAsk
    /\ ask' = Ended(a)
    /\ metMfa' = metMfa \cup IF ask[a].phase = "shown" THEN {} ELSE {"failed"}
    /\ IF ask[a].kind = "list"
       THEN listLoading' = "no" /\ listed' = {} /\ removing' = {}
       ELSE removing' = removing \ {a} /\ UNCHANGED <<listLoading, listed>>
    /\ keyLoading' = IF ask[a].kind \in {"register", "finish"} THEN "no" ELSE keyLoading
    /\ webauthn' = IF ask[a].kind \in KindsOf("webauthn")
                   THEN [webauthn EXCEPT !.step = "name"] ELSE webauthn
    /\ UNCHANGED <<methods, gen, made, open, totp, codes, kept, stale>>

-----------------------------------------------------------------------------
MfaNext ==
    /\ \/ \E d \in {"totp", "webauthn", "regenerate"} : OpenDialog(d)
       \/ handleBeginSetup \/ handleVerify \/ TurnStep \/ handleRegister
       \/ \E m \in Method : handleDelete(m) \/ handleTogglePasswordless(m)
       \/ handleRegenerate \/ Close \/ handleRecoveryDone
       \/ \E a \in Ask : \/ ServeMethod(a) \/ ServeRegenerate(a) \/ ServeDelete(a)
                         \/ ServeOther(a) \/ Credential(a) \/ Deleted(a) \/ MethodsListed(a)
                         \/ Begun(a) \/ Prompting(a) \/ Verified(a) \/ Regenerated(a)
                         \/ Failed(a)
    /\ Cardinality(metMfa') <= MaxMetMfa

MfaSpec == MfaInit /\ [][MfaNext]_mfa

-----------------------------------------------------------------------------
\* Types; a code is sent once at a time, and the dialogs show codes that were made.
MfaTypeOK ==
    /\ ShownCodes <= made /\ gen <= made
    /\ Cardinality({a \in Ask : ask[a].kind \in {"begin", "verify"}}) <= 1
    /\ methods \subseteq Method /\ listed \subseteq Method
    /\ gen \in 0..MaxGen /\ made \in 0..MaxGen /\ kept \subseteq 1..MaxGen
    /\ open \in {"none", "totp", "webauthn", "regenerate"}
    /\ totp.step \in {"name", "scan", "verify", "recovery"}
    /\ webauthn.step \in {"name", "waiting", "recovery"}
    /\ \A a \in Ask : ask[a].phase \in {"none", "sent", "ok", "shown"}

\* Codes the user can still get to see.
InHand == kept \cup {codes}
          \cup (IF totp.step = "recovery" THEN {totp.codes} ELSE {})
          \cup (IF webauthn.step = "recovery" THEN {webauthn.codes} ELSE {})
          \cup {ask[a].gen : a \in Ask}

\* The codes in force are with the user, or on their way to a dialog, unless he
\* closed one that showed them, an answer was lost, or two registrations of a key
\* were under way, the second of which clears what the first has shown.
CodesAreInHand ==
    methods # {} /\ gen # 0 /\ metMfa \cap {"discarded", "failed", "runs"} = {} => gen \in InHand

\* A user confirms codes that are no longer in force only if a dialog was closed
\* with its request under way, whose codes it shows the next time it is opened,
\* or opened while a method was being removed.
ConfirmedCodesAreInForce == stale = "yes" => metMfa \cap {"left", "delete"} # {}

\* With nothing under way and no dialog still to be confirmed the list shows the
\* methods there are, unless a dialog with codes was closed instead of confirmed.
MethodListIsCurrent ==
    MfaQuiet /\ open = "none" /\ metMfa \cap {"discarded", "failed", "lists", "left", "runs"} = {}
        => listed = methods
=============================================================================
