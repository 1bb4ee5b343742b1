------------------------------ MODULE Pairing ------------------------------
(***************************************************************************)
(* The pair screen (src/app/pair.go), the link the OS hands the app        *)
(* (src/app/deeplink.go) and the parser both use                           *)
(* (src/internal/catsclient/endpoint.go), up to the redemption of a grant  *)
(* (login.go) and the phone being paired or not.  The order of the writes  *)
(* to the store is in module Store, the connection in Connection.          *)
(*                                                                         *)
(* Threads: the taps and the typing (UI), the host-event goroutine for the *)
(* clipboard and for links, the render loop, and a goroutine for each      *)
(* login.  catway is external: it accepts a link's grant once.             *)
(***************************************************************************)
EXTENDS Integers, Slot

CONSTANTS
    Text,      \* what may stand in the link field: records, see ParsePairURI
    Blank,     \* the empty field
    ByHand,    \* the grant the typed host, port and password make
    MaxLogin,  \* bound on the taps that pair
    NoPort,    \* a link's address without a port
    NoErr, NoGrant

ASSUME PairingAssumption == MaxLogin \in Nat

VARIABLES
    \* the form's slot, the form the last pass drew, the copies under way
    form, formDrawn, formCopy,
    \* the parked link, the link past the test of Paired, has the phone an
    \* endpoint, a clipboard read waiting for its answer
    pendingLink, claimed, paired, reading,
    \* the logins: where each is, and its grant; the grants catway has spent
    stage, grant, spent,
    \* history: the links the OS delivered, those it delivered to a paired phone,
    \* those a pass has put in the field, the grants that were on the screen,
    \* was a copy stored over a newer form, did the form change under a login, or
    \* the person tap a screen that was behind
    came, late, taken, shown, overwritten, crossed

formVars  == <<form, formDrawn, formCopy>>
linkVars  == <<pendingLink, claimed, paired, reading>>
loginVars == <<stage, grant, spent>>
pairHist  == <<came, late, taken, shown, overwritten, crossed>>
pairingVars == <<formVars, linkVars, loginVars, pairHist>>

-----------------------------------------------------------------------------
(* ParsePairURI and grantFromForm.                                         *)

\* What parsing an address tells: its scheme, and its parts.
Address == [cats : BOOLEAN, host : STRING, port : Int \cup {NoPort}, tls : BOOLEAN,
            token : STRING, pin : STRING]

ASSUME TextAssumption == Text \subseteq Address /\ Blank \notin Text

Port == 1..65535

PortOf(x) == IF x.port # NoPort THEN x.port ELSE IF x.tls THEN 443 ELSE 80

\* cats://pair?u=..&t=..: an address with a host and a port in range, a token.
IsLink(x) == x.cats /\ x.token # "" /\ x.host # "" /\ PortOf(x) \in Port

ParsePairURI(x) ==
    [id |-> <<x.host, PortOf(x)>>, tls |-> x.tls, pin |-> x.pin, token |-> x.token]

\* An endpoint one can dial, and what to redeem there.
Grants == [id : STRING \X Port, tls : BOOLEAN, pin : STRING, token : STRING]

\* A mutant: what stands in the field is taken for a link.
GrantUnchecked(f) ==
    IF f.uri # Blank THEN ParsePairURI(f.uri) ELSE IF f.hand THEN ByHand ELSE NoGrant

\* The link if there is one, else the typed fields.
GrantFromForm(f) ==
    IF f.uri # Blank THEN IF IsLink(f.uri) THEN ParsePairURI(f.uri) ELSE NoGrant
    ELSE IF f.hand THEN ByHand ELSE NoGrant

\* The form.  Of an error, the model keeps which grant failed (NoGrant: there
\* was none to redeem) and leaves the wording out.
Form == [uri : Text \cup {Blank}, hand : BOOLEAN, busy : BOOLEAN, err : Grants \cup {NoGrant, NoErr}]
Drawn == [uri : Text \cup {Blank}, hand : BOOLEAN, busy : BOOLEAN]

\* What of a form the buttons of a pass act on.
Buttons(f) == [uri |-> f.uri, hand |-> f.hand, busy |-> f.busy]

FormCopy   == [was : Form, next : Form]
Login      == 1..MaxLogin      \* in the order of their taps
PairThread == {UI, HostEvents, RenderLoop} \cup Login

ASSUME FormsAssumption == ByHand \in Grants /\ NoGrant \notin Grants /\ NoCopy \notin FormCopy

PairingTypeOK ==
    /\ form \in Form /\ formDrawn \in Drawn
    /\ formCopy \in [PairThread -> FormCopy \cup {NoCopy}]
    /\ pendingLink \in Text \cup {Blank} /\ claimed \in Text \cup {Blank}
    /\ paired \in BOOLEAN /\ reading \in BOOLEAN
    /\ stage \in [Login -> {"idle", "tapped", "posting", "redeemed", "storing", "returned"}]
    /\ grant \in [Login -> Grants \cup {NoGrant}]
    /\ spent \in SUBSET Grants
    /\ came \in SUBSET Text /\ late \in SUBSET came /\ taken \in SUBSET came
    /\ shown \in SUBSET Grants
    /\ overwritten \in BOOLEAN /\ crossed \in BOOLEAN

PairingInit ==
    /\ form = [uri |-> Blank, hand |-> FALSE, busy |-> FALSE, err |-> NoErr]
    /\ formDrawn = Buttons(form)
    /\ formCopy = [t \in PairThread |-> NoCopy]
    /\ pendingLink = Blank /\ claimed = Blank /\ paired = FALSE /\ reading = FALSE
    /\ stage = [l \in Login |-> "idle"] /\ grant = [l \in Login |-> NoGrant] /\ spent = {}
    /\ came = {} /\ late = {} /\ taken = {} /\ shown = {}
    /\ overwritten = FALSE /\ crossed = FALSE

-----------------------------------------------------------------------------
(* The form's updates and the passes that draw it.                         *)

LoginsOut == {l \in Login : stage[l] \notin {"idle", "returned"}}

FormUpdates(t, next) ==
    /\ formCopy[t] = NoCopy
    /\ formCopy' = Copied(formCopy, t, form, next)

Draws(f) ==
    /\ formDrawn' = Buttons(f)
    /\ shown' = shown \cup ({GrantFromForm(f)} \ {NoGrant})

\* A store of the pass's own update goes on to draw what it stored; one of the
\* tap on Pair starts the login.
FormStore(t) ==
    /\ formCopy[t] # NoCopy
    /\ form' = formCopy[t].next
    /\ overwritten' = (overwritten \/ Undoes(form, formCopy[t]))
    /\ formCopy' = Stored(formCopy, t)
    /\ IF t = RenderLoop THEN Draws(form') ELSE UNCHANGED <<formDrawn, shown>>
    /\ stage' = [l \in Login |-> IF t = UI /\ stage[l] = "tapped" THEN "posting"
                                 ELSE IF t = l THEN "returned" ELSE stage[l]]
    /\ grant' = [l \in Login |-> IF t = l THEN NoGrant ELSE grant[l]]
    /\ UNCHANGED <<linkVars, spent, came, late, taken, crossed>>

\* Reading drains; NotDrained, a mutant, leaves the link where it is.
NotDrained == pendingLink
Drained    == Blank

\* takePendingPairLink: the pass drains the parked link and puts it in the field.
TakeLink ==
    /\ ~paired /\ pendingLink # Blank
    /\ FormUpdates(RenderLoop, [form EXCEPT !.uri = pendingLink, !.err = NoErr])
    /\ pendingLink' = Drained
    /\ taken' = taken \cup {pendingLink}
    /\ crossed' = (crossed \/ LoginsOut # {})
    /\ UNCHANGED <<form, formDrawn, claimed, paired, reading, loginVars,
                   came, late, shown, overwritten>>

DrawForm ==
    /\ ~paired /\ pendingLink = Blank /\ formCopy[RenderLoop] = NoCopy
    /\ formDrawn # Buttons(form)
    /\ Draws(form)
    /\ UNCHANGED <<form, formCopy, linkVars, loginVars, came, late, taken, overwritten, crossed>>

-----------------------------------------------------------------------------
(* What the person and the OS do.                                          *)

Touches(t, next) ==
    /\ FormUpdates(t, next)
    /\ crossed' = (crossed \/ LoginsOut # {})
    /\ UNCHANGED <<form, formDrawn, pendingLink, claimed, paired, loginVars,
                   came, late, taken, shown, overwritten>>

\* A mutant: the old error stays beside the new link.
EditLinkKeepsError(x) ==
    /\ ~paired
    /\ Touches(UI, [form EXCEPT !.uri = x])
    /\ UNCHANGED reading

EditLink(x) ==
    /\ ~paired
    /\ Touches(UI, [form EXCEPT !.uri = x, !.err = NoErr])
    /\ UNCHANGED reading

EditFields(done) ==
    /\ ~paired /\ form.hand # done
    /\ Touches(UI, [form EXCEPT !.hand = done, !.err = NoErr])
    /\ UNCHANGED reading

TapPasteLink ==
    /\ ~paired /\ ~formDrawn.busy /\ ~reading /\ formCopy[UI] = NoCopy
    /\ reading' = TRUE
    /\ UNCHANGED <<formVars, pendingLink, claimed, paired, loginVars, pairHist>>

\* The clipboard replaces the field; a refusal or no text is a toast.
PasteAnswers ==
    /\ reading /\ reading' = FALSE
    /\ \/ \E x \in Text : Touches(HostEvents, [form EXCEPT !.uri = x, !.err = NoErr])
       \/ UNCHANGED <<formVars, pendingLink, claimed, paired, loginVars, pairHist>>

\* receiveDeepLink: the phone has to be unpaired (what does not parse leaves no
\* trace), ...
Claims == ~paired

ReceiveDeepLink(x) ==
    /\ x \notin came /\ claimed = Blank /\ IsLink(x)
    /\ came' = came \cup {x}
    /\ late' = IF paired THEN late \cup {x} ELSE late
    /\ claimed' = IF Claims THEN x ELSE Blank
    /\ UNCHANGED <<formVars, pendingLink, paired, reading, loginVars,
                   taken, shown, overwritten, crossed>>

\* ... and some time after that test it is parked.
ParkLink ==
    /\ claimed # Blank
    /\ pendingLink' = claimed /\ claimed' = Blank
    /\ UNCHANGED <<formVars, paired, reading, loginVars, pairHist>>

\* What a tap on Pair acts on: the form of the pass that drew the button.  A
\* mutant, PressedNow, reads the slot again.
PressedNow == Buttons(form)
Pressed    == formDrawn

\* submit.
TapPair(l) ==
    /\ stage[l] = "idle" /\ \A k \in 1..(l - 1) : stage[k] # "idle"
    /\ ~paired /\ ~Pressed.busy
    /\ LET g == GrantFromForm(Pressed)
       IN  /\ FormUpdates(UI,
                  IF g = NoGrant
                  THEN [form EXCEPT !.err = NoGrant]
                  ELSE [form EXCEPT !.busy = TRUE, !.err = NoErr])
           /\ stage' = IF g = NoGrant THEN stage ELSE [stage EXCEPT ![l] = "tapped"]
           /\ grant' = [grant EXCEPT ![l] = g]
    /\ crossed' = (crossed \/ formDrawn # Buttons(form))
    /\ UNCHANGED <<form, formDrawn, linkVars, spent, came, late, taken, shown, overwritten>>

\* More's "Forget": the phone has no endpoint and the pair screen comes back.
Forget ==
    /\ paired /\ paired' = FALSE
    /\ UNCHANGED <<formVars, pendingLink, claimed, reading, loginVars, pairHist>>

-----------------------------------------------------------------------------
(* The login goroutine.                                                    *)

Reports(l) ==
    /\ FormUpdates(l, [form EXCEPT !.busy = FALSE, !.err = grant[l]])
    /\ stage' = [stage EXCEPT ![l] = "storing"]
    /\ UNCHANGED <<form, formDrawn, linkVars, grant, came, late, taken, shown, overwritten, crossed>>

\* catway takes a link's grant once; the shared password serves any number.
Login401(l) ==
    /\ stage[l] = "posting" /\ grant[l] \in spent /\ grant[l] # ByHand
    /\ Reports(l)
    /\ UNCHANGED spent

\* The certificate is not the pinned one, or the desk is not reached, the reply
\* lost after the grant was spent included.
LoginFails(l) ==
    /\ stage[l] = "posting"
    /\ \/ /\ grant[l] # ByHand /\ grant[l].pin # "" /\ grant[l].tls
          /\ Reports(l) /\ UNCHANGED spent
       \/ /\ Reports(l)
          /\ spent' \in {spent, spent \cup {grant[l]}}

LoginSucceeds(l) ==
    /\ stage[l] = "posting" /\ grant[l] \notin spent \ {ByHand}
    /\ stage' = [stage EXCEPT ![l] = "redeemed"]
    /\ spent' = spent \cup {grant[l]}
    /\ UNCHANGED <<formVars, linkVars, grant, pairHist>>

\* One of the writes to the store fails: the grant is spent and the phone is
\* not paired.
SaveFails(l) ==
    /\ stage[l] = "redeemed"
    /\ Reports(l)
    /\ UNCHANGED spent

\* AddEndpoint makes the phone paired; the form is cleared after it.
SavePairing(l) ==
    /\ stage[l] = "redeemed"
    /\ paired' = TRUE
    /\ FormUpdates(l, [form EXCEPT !.busy = FALSE, !.uri = Blank, !.hand = FALSE])
    /\ stage' = [stage EXCEPT ![l] = "storing"]
    /\ UNCHANGED <<form, formDrawn, pendingLink, claimed, reading, grant, spent,
                   came, late, taken, shown, overwritten, crossed>>

PairingNext ==
    \/ \E t \in PairThread : FormStore(t)
    \/ TakeLink \/ DrawForm
    \/ \E x \in Text : EditLink(x) \/ ReceiveDeepLink(x)
    \/ \E done \in BOOLEAN : EditFields(done)
    \/ TapPasteLink \/ PasteAnswers \/ ParkLink \/ Forget
    \/ \E l \in Login : TapPair(l) \/ Login401(l) \/ LoginFails(l) \/ LoginSucceeds(l)
                        \/ SaveFails(l) \/ SavePairing(l)

-----------------------------------------------------------------------------
(* Properties.                                                             *)

\* Only what the person has seen is redeemed: every grant a login was given
\* had been drawn on the pair screen before Pair was pressed, whatever the OS,
\* the clipboard and the render loop did to the slot meanwhile.
RedeemsWhatWasShown == \A l \in Login : grant[l] = NoGrant \/ grant[l] \in shown

\* "Pairing..." is drawn while a login is out that will end it, no login is out
\* behind an idle button, and the error on the screen is about what the fields
\* hold: unless a store undid another, the form changed during a login, or a
\* second tap came before a pass had drawn the first.
FormTellsTheTruth ==
    \/ overwritten \/ crossed
    \/ /\ form.busy => LoginsOut # {}
       /\ \A l \in Login : stage[l] \in {"posting", "redeemed"} => form.busy
       /\ form.err # NoErr => form.err = GrantFromForm(form)

\* A link from the OS lands once: what is parked has not been in the field
\* before, so it cannot come back over what the person put there since, and a
\* link that reached a paired phone is never put in the field.
LinksLandOnce ==
    /\ \A x \in {pendingLink, claimed} : x # Blank => x \notin taken
    /\ taken \cap late = {}

\* A link is used once and in the open.
LinksInTheOpen == RedeemsWhatWasShown /\ LinksLandOnce
=============================================================================
