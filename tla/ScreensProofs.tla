---------------------------- MODULE ScreensProofs ----------------------------
(***************************************************************************)
(* Proofs about the pane screen's composer, the pair screen and the Alerts *)
(* screen, for any words, links, number of taps, desks and answers, and as *)
(* theorems of the screens' own specification: what one screen does leaves *)
(* the variables of the others alone.  Module ViewProofs has the roster    *)
(* and the grid view.                                                      *)
(*                                                                         *)
(* Composer and pair screen keep their state in one slot that every thread *)
(* updates by copying it, changing the copy and storing it back, so most   *)
(* of an invariant is about the copies on their way: what each may differ  *)
(* in from the value it was made of, and, while no store has undone        *)
(* another, that a copy that can still be stored was made of the slot as   *)
(* it is.                                                                  *)
(***************************************************************************)
EXTENDS Screens, TLAPS

-----------------------------------------------------------------------------
(* The composer: the inductive invariant.                                  *)

\* The thread is between its copy and its store; what it adds to the draft.
Has(t)   == copy[t] # NoCopy
Fresh(t) == copy[t].next.draft \ copy[t].was.draft

\* What a thread's copy may change.  A send goroutine ends the spinner, the
\* clipboard touches the draft only, a tap starts a spinner only for its send.
CopyInv ==
    /\ \A c \in Send : Has(c) <=> pc[c] = "storing"
    /\ \A c \in Send : Has(c) => ~copy[c].next.busy /\ copy[c].next.confirm = copy[c].was.confirm
    /\ Has(HostEvents) => /\ copy[HostEvents].next.busy = copy[HostEvents].was.busy
                          /\ copy[HostEvents].next.confirm = copy[HostEvents].was.confirm
    /\ \A c \in Send : pc[c] = "tapped" => Has(UI)
    /\ \A c \in arrived : pc[c] \in {"typed", "storing", "returned"}

\* Of the taps' copy: it opens or closes the dialog as wanted, and has the
\* spinner if its value had, or if it is the tap on Send.
TapCopyInv ==
    Has(UI) => /\ copy[UI].next.confirm # copy[UI].was.confirm => copy[UI].next.confirm = wanted
               /\ copy[UI].next.busy # copy[UI].was.busy =>
                     copy[UI].next.busy /\ \E c \in Send : pc[c] = "tapped"

\* The assumption of EveryWordOnce: no store undid another, and nobody edited
\* during a send or acted on a screen behind the slot.
Calm == ~clobbered /\ ~hasty

\* One send at a time, and while it is out the slot is busy with its text.
FlightInv ==
    /\ \A c, d \in InFlight : c = d
    /\ \A c \in Send : pc[c] = "tapped" =>
          /\ copy[UI].next.busy /\ ~copy[UI].was.busy
          /\ copy[UI].was.draft = text[c] /\ copy[UI].next.draft = text[c]
    /\ \A c \in Send : pc[c] \in {"invoke", "typed", "storing"} => slot.busy /\ slot.draft = text[c]
    /\ \A c \in Send : pc[c] = "typed" => c \in arrived
    /\ \A c \in Send : pc[c] = "storing" =>
          /\ copy[c].was.draft = text[c]
          /\ copy[c].next.draft = text[c] \/ (copy[c].next.draft = {} /\ c \in arrived)
          /\ c \in arrived \ unsure => copy[c].next.draft = {}

\* An edit only adds, and starts while no send is out.
EditInv ==
    /\ Has(HostEvents) => /\ ~copy[HostEvents].was.busy
                          /\ copy[HostEvents].was.draft \subseteq copy[HostEvents].next.draft
    /\ Has(UI) => /\ copy[UI].was.draft \subseteq copy[UI].next.draft
                  /\ copy[UI].next.draft # copy[UI].was.draft => InFlight = {}

\* What it adds is new: not in the slot, in no send and in no other edit.
FreshInv ==
    /\ \A t \in {UI, HostEvents} : Has(t) =>
          /\ Fresh(t) \cap slot.draft = {}
          /\ \A c \in Send : Fresh(t) \cap text[c] = {}
    /\ Has(UI) /\ Has(HostEvents) => Fresh(UI) \cap Fresh(HostEvents) = {}

\* There is no text but what was typed or pasted.
TypedInv ==
    /\ slot.draft \subseteq typed
    /\ \A c \in Send : text[c] \subseteq typed
    /\ \A t \in Thread : Has(t) => copy[t].was.draft \subseteq typed /\ copy[t].next.draft \subseteq typed

\* A text that has arrived is not in the draft again, nor in another send's.
OnceInv ==
    /\ \A c \in arrived \ unsure : pc[c] = "returned" => text[c] \cap slot.draft = {}
    /\ \A c \in arrived, d \in arrived \cup InFlight :
          c = d \/ c \in unsure \/ d \in unsure \/ text[c] \cap text[d] = {}

\* All of these, and nothing typed is lost.
CalmInv == FlightInv /\ EditInv /\ FreshInv /\ TypedInv /\ OnceInv /\ NothingTypedIsLost

\* The inductive invariant of the composer.
ComposerInv == ComposerTypeOK /\ CopyInv /\ TapCopyInv /\ SlotTellsTheTruth /\ (Calm => CalmInv)

-----------------------------------------------------------------------------
(* The composer: its operators.                                            *)

\* UI is none of the sends, the host-event goroutine is neither.
LEMMA Threads ==
    /\ UI \in Thread /\ HostEvents \in Thread /\ UI # HostEvents
    /\ Send \subseteq Thread
    /\ \A c \in Send : c # UI /\ c # HostEvents
    /\ \A t \in Thread : t = UI \/ t = HostEvents \/ t \in Send
  BY SlotAssumption, ComposerAssumption DEF Thread, Send

\* A thread's copy has the value it was made of and the one it will store.
LEMMA CopyTyped ==
  ASSUME ComposerTypeOK, NEW t \in Thread, Has(t)
  PROVE  copy[t].was \in PaneView /\ copy[t].next \in PaneView
  BY DEF ComposerTypeOK, Has, ViewCopy

\* An update leaves a copy of the slot in the thread's own place.
LEMMA UpdatesCopy ==
  ASSUME ComposerTypeOK, NEW t \in Thread, NEW next \in PaneView, Updates(t, next)
  PROVE  /\ ~Has(t)
         /\ copy'[t] = [was |-> slot, next |-> next]
         /\ copy'[t].was = slot /\ copy'[t].next = next
         /\ Has(t)'
         /\ \A u \in Thread : u # t => copy'[u] = copy[u] /\ (Has(u)' <=> Has(u))
         /\ copy' \in [Thread -> ViewCopy \cup {NoCopy}]
<1>1. copy \in [Thread -> ViewCopy \cup {NoCopy}] /\ slot \in PaneView  BY DEF ComposerTypeOK
<1>2. [was |-> slot, next |-> next] \in ViewCopy  BY <1>1 DEF ViewCopy
<1>3. copy[t] = NoCopy /\ copy' = [copy EXCEPT ![t] = [was |-> slot, next |-> next]]
  BY DEF Updates, Copied
<1>4. copy'[t] = [was |-> slot, next |-> next]  BY <1>1, <1>3
<1>5. \A u \in Thread : u # t => copy'[u] = copy[u]  BY <1>1, <1>3
<1>6. copy' \in [Thread -> ViewCopy \cup {NoCopy}]  BY <1>1, <1>2, <1>3
<1>7. [was |-> slot, next |-> next] # NoCopy  BY <1>2, NoCopyAssumption
<1>. QED BY <1>3, <1>4, <1>5, <1>6, <1>7 DEF Has

\* The pane screen's update closures change fields of the slot's value.
LEMMA Changed ==
  ASSUME ComposerTypeOK, NEW d \in SUBSET Word, NEW b \in BOOLEAN
  PROVE  /\ [slot EXCEPT !.draft = d] \in PaneView
         /\ [slot EXCEPT !.draft = d].draft = d
         /\ [slot EXCEPT !.draft = d].busy = slot.busy
         /\ [slot EXCEPT !.draft = d].confirm = slot.confirm
         /\ [slot EXCEPT !.busy = b] \in PaneView
         /\ [slot EXCEPT !.busy = b].draft = slot.draft
         /\ [slot EXCEPT !.busy = b].busy = b
         /\ [slot EXCEPT !.busy = b].confirm = slot.confirm
         /\ [slot EXCEPT !.confirm = b] \in PaneView
         /\ [slot EXCEPT !.confirm = b].draft = slot.draft
         /\ [slot EXCEPT !.confirm = b].busy = slot.busy
         /\ [slot EXCEPT !.confirm = b].confirm = b
         /\ [slot EXCEPT !.busy = FALSE, !.draft = {}] \in PaneView
         /\ [slot EXCEPT !.busy = FALSE, !.draft = {}].draft = {}
         /\ [slot EXCEPT !.busy = FALSE, !.draft = {}].busy = FALSE
         /\ [slot EXCEPT !.busy = FALSE, !.draft = {}].confirm = slot.confirm
  BY DEF ComposerTypeOK, PaneView

\* What a store does: the slot is the copy's, the copy is gone, the taps' store
\* starts the send it was made for and a goroutine's own is its last step.
LEMMA StoreFacts ==
  ASSUME ComposerTypeOK, NEW t \in Thread, Store(t)
  PROVE  /\ Has(t) /\ slot' = copy[t].next /\ slot' \in PaneView
         /\ ~Has(t)'
         /\ \A u \in Thread : u # t => copy'[u] = copy[u] /\ (Has(u)' <=> Has(u))
         /\ copy' \in [Thread -> ViewCopy \cup {NoCopy}]
         /\ \A c \in Send : pc'[c] = IF t = UI /\ pc[c] = "tapped" THEN "invoke"
                                     ELSE IF t = c THEN "returned" ELSE pc[c]
         /\ ~clobbered' => ~clobbered /\ slot = copy[t].was
         /\ UNCHANGED <<drawn, field, text, asking, typed, arrived, unsure, wanted, hasty>>
<1>1. copy \in [Thread -> ViewCopy \cup {NoCopy}]  BY DEF ComposerTypeOK
<1>2. Has(t) /\ slot' = copy[t].next /\ copy' = [copy EXCEPT ![t] = NoCopy]
  BY DEF Store, Has, Stored
<1>3. slot' \in PaneView  BY <1>2, CopyTyped
<1>4. copy'[t] = NoCopy /\ \A u \in Thread : u # t => copy'[u] = copy[u]  BY <1>1, <1>2
<1>5. copy' \in [Thread -> ViewCopy \cup {NoCopy}]  BY <1>1, <1>2
<1>6. ~clobbered' => ~clobbered /\ slot = copy[t].was
  BY DEF Store, Undoes, ComposerTypeOK
<1>7. \A c \in Send : pc'[c] = IF t = UI /\ pc[c] = "tapped" THEN "invoke"
                              ELSE IF t = c THEN "returned" ELSE pc[c]
  BY DEF Store
<1>. QED BY <1>2, <1>3, <1>4, <1>5, <1>6, <1>7 DEF Store, Has

-----------------------------------------------------------------------------
(* The composer: the types.                                                *)

\* They hold at the start.
LEMMA ComposerTypeInit == ComposerInit => ComposerTypeOK
<1>1. ASSUME ComposerInit PROVE ComposerTypeOK
  <2>1. slot \in PaneView /\ drawn \in PaneView /\ field \in SUBSET Word
    BY <1>1 DEF ComposerInit, PaneView
  <2>2. copy \in [Thread -> ViewCopy \cup {NoCopy}]  BY <1>1 DEF ComposerInit
  <2>3. pc \in [Send -> {"idle", "tapped", "invoke", "typed", "storing", "returned"}]
    BY <1>1 DEF ComposerInit
  <2>4. text \in [Send -> SUBSET Word]  BY <1>1 DEF ComposerInit
  <2>. QED BY <1>1, <2>1, <2>2, <2>3, <2>4 DEF ComposerInit, ComposerTypeOK
<1>. QED BY <1>1

\* Every action keeps them.
LEMMA ComposerTypeStep == ComposerTypeOK /\ ComposerNext => ComposerTypeOK'
<1>1. SUFFICES ASSUME ComposerTypeOK, ComposerNext PROVE ComposerTypeOK'
  OBVIOUS
<1>2. ASSUME NEW w \in Word, TypeWord(w) PROVE ComposerTypeOK'
  <2>1. field' \in SUBSET Word /\ typed' \in SUBSET Word /\ hasty' \in BOOLEAN
    BY <1>1, <1>2 DEF TypeWord, Edits, ComposerTypeOK
  <2>2. [slot EXCEPT !.draft = field'] \in PaneView  BY <1>1, <2>1, Changed
  <2>3. copy' \in [Thread -> ViewCopy \cup {NoCopy}]
    BY <1>1, <1>2, <2>2, UpdatesCopy, Threads DEF TypeWord
  <2>. QED BY <1>1, <1>2, <2>1, <2>3 DEF TypeWord, ComposerTypeOK, sendVars
<1>3. ASSUME NEW c \in Send, NEW submit \in BOOLEAN, TapSend(c, submit) PROVE ComposerTypeOK'
  <2>1. [slot EXCEPT !.busy = TRUE] \in PaneView  BY <1>1, Changed
  <2>2. copy' \in [Thread -> ViewCopy \cup {NoCopy}]
    BY <1>1, <1>3, <2>1, UpdatesCopy, Threads DEF TapSend
  <2>3. text' \in [Send -> SUBSET Word]  BY <1>1, <1>3 DEF TapSend, ComposerTypeOK, PaneView
  <2>. QED BY <1>1, <1>3, <2>2, <2>3 DEF TapSend, ComposerTypeOK
<1>4. ASSUME TapPaste PROVE ComposerTypeOK'
  BY <1>1, <1>4 DEF TapPaste, ComposerTypeOK, slotVars, histVars
<1>5. ASSUME NEW open \in BOOLEAN, Dialog(open) PROVE ComposerTypeOK'
  <2>1. [slot EXCEPT !.confirm = open] \in PaneView  BY <1>1, Changed
  <2>2. copy' \in [Thread -> ViewCopy \cup {NoCopy}]
    BY <1>1, <1>5, <2>1, UpdatesCopy, Threads DEF Dialog
  <2>. QED BY <1>1, <1>5, <2>2 DEF Dialog, ComposerTypeOK
<1>6. ASSUME ClipboardAnswers PROVE ComposerTypeOK'
  <2>1. CASE UNCHANGED <<slotVars, typed, hasty>>
    BY <1>1, <1>6, <2>1 DEF ClipboardAnswers, ComposerTypeOK, slotVars
  <2>2. CASE \E w \in Clip \ typed : /\ Updates(HostEvents, [slot EXCEPT !.draft = slot.draft \cup {w}])
                                     /\ typed' = typed \cup {w}
    <3>1. PICK w \in Clip \ typed : /\ Updates(HostEvents, [slot EXCEPT !.draft = slot.draft \cup {w}])
                                    /\ typed' = typed \cup {w}
      BY <2>2
    <3>2. slot.draft \cup {w} \in SUBSET Word /\ w \in Word
      BY <1>1, ComposerAssumption DEF ComposerTypeOK, PaneView
    <3>3. [slot EXCEPT !.draft = slot.draft \cup {w}] \in PaneView  BY <1>1, <3>2, Changed
    <3>4. copy' \in [Thread -> ViewCopy \cup {NoCopy}]  BY <1>1, <3>1, <3>3, UpdatesCopy, Threads
    <3>5. typed' \in SUBSET Word  BY <1>1, <3>1, <3>2 DEF ComposerTypeOK
    <3>6. hasty' \in BOOLEAN /\ UNCHANGED <<slot, drawn, field>>
      BY <1>1, <1>6, <3>1, <3>2 DEF ClipboardAnswers, Edits, ComposerTypeOK, slotVars
    <3>. QED BY <1>1, <1>6, <3>4, <3>5, <3>6 DEF ClipboardAnswers, ComposerTypeOK
  <2>. QED BY <1>6, <2>1, <2>2 DEF ClipboardAnswers
<1>7. ASSUME Pass PROVE ComposerTypeOK'
  BY <1>1, <1>7 DEF Pass, ComposerTypeOK, sendVars, histVars, PaneView
<1>8. ASSUME NEW t \in Thread, Store(t) PROVE ComposerTypeOK'
  <2>1. pc' \in [Send -> {"idle", "tapped", "invoke", "typed", "storing", "returned"}]
    BY <1>1, <1>8 DEF Store, ComposerTypeOK
  <2>2. clobbered' \in BOOLEAN  BY <1>1, <1>8 DEF Store, ComposerTypeOK, Undoes
  <2>3. slot' \in PaneView /\ copy' \in [Thread -> ViewCopy \cup {NoCopy}]  BY <1>1, <1>8, StoreFacts
  <2>. QED BY <1>1, <1>8, <2>1, <2>2, <2>3 DEF Store, ComposerTypeOK
<1>9. ASSUME NEW c \in Send, Arrives(c) PROVE ComposerTypeOK'
  BY <1>1, <1>9 DEF Arrives, Goes, ComposerTypeOK, slotVars
<1>10. ASSUME NEW c \in Send, Delivered(c) PROVE ComposerTypeOK'
  <2>1. [slot EXCEPT !.busy = FALSE, !.draft = {}] \in PaneView  BY <1>1, Changed
  <2>2. copy' \in [Thread -> ViewCopy \cup {NoCopy}]
    BY <1>1, <1>10, <2>1, UpdatesCopy, Threads DEF Delivered
  <2>. QED BY <1>1, <1>10, <2>2 DEF Delivered, Goes, ComposerTypeOK, histVars
<1>11. ASSUME NEW c \in Send, Failed(c) PROVE ComposerTypeOK'
  <2>1. [slot EXCEPT !.busy = FALSE] \in PaneView  BY <1>1, Changed
  <2>2. copy' \in [Thread -> ViewCopy \cup {NoCopy}]
    BY <1>1, <1>11, <2>1, UpdatesCopy, Threads DEF Failed
  <2>. QED BY <1>1, <1>11, <2>2 DEF Failed, Goes, ComposerTypeOK
<1>. QED BY <1>1, <1>2, <1>3, <1>4, <1>5, <1>6, <1>7, <1>8, <1>9, <1>10, <1>11
     DEF ComposerNext, Tap, TapReveal, CloseReveal, Works

-----------------------------------------------------------------------------
(* The composer: what the copies may change, and the spinner.              *)

\* CopyInv is kept.
LEMMA CopyStep == ComposerInv /\ ComposerNext => CopyInv'
<1>1. SUFFICES ASSUME ComposerInv, ComposerNext PROVE CopyInv'
  OBVIOUS
<1>2. ComposerTypeOK /\ CopyInv  BY <1>1 DEF ComposerInv
<1>3. ASSUME UNCHANGED <<copy, pc, arrived>> PROVE CopyInv'
  BY <1>2, <1>3 DEF CopyInv, Has
<1>4. ASSUME NEW next \in PaneView, Updates(UI, next), UNCHANGED <<pc, arrived>> PROVE CopyInv'
  <2>1. Has(UI)' /\ \A u \in Thread : u # UI => copy'[u] = copy[u] /\ (Has(u)' <=> Has(u))
    BY <1>2, <1>4, UpdatesCopy, Threads
  <2>2. /\ \A c \in Send : copy'[c] = copy[c] /\ (Has(c)' <=> Has(c))
        /\ copy'[HostEvents] = copy[HostEvents] /\ (Has(HostEvents)' <=> Has(HostEvents))
    BY <2>1, Threads
  <2>. QED BY <1>2, <1>4, <2>1, <2>2 DEF CopyInv
<1>5. ASSUME NEW w \in Word, TypeWord(w) PROVE CopyInv'
  <2>1. [slot EXCEPT !.draft = field'] \in PaneView
    BY <1>2, <1>5, Changed DEF TypeWord, ComposerTypeOK
  <2>. QED BY <1>4, <1>5, <2>1 DEF TypeWord, sendVars
<1>6. ASSUME NEW c \in Send, NEW submit \in BOOLEAN, TapSend(c, submit) PROVE CopyInv'
  <2>1. [slot EXCEPT !.busy = TRUE] \in PaneView  BY <1>2, Changed
  <2>2. \A d \in Send : pc'[d] = IF d = c THEN "tapped" ELSE pc[d]
    BY <1>2, <1>6 DEF TapSend, ComposerTypeOK
  <2>3. pc[c] = "idle" /\ arrived' = arrived  BY <1>6 DEF TapSend
  <2>4. Updates(UI, [slot EXCEPT !.busy = TRUE])  BY <1>6 DEF TapSend
  <2>5. Has(UI)' /\ \A u \in Thread : u # UI => copy'[u] = copy[u] /\ (Has(u)' <=> Has(u))
    BY <1>2, <2>1, <2>4, UpdatesCopy, Threads
  <2>a. \A d \in Send : Has(d)' <=> pc'[d] = "storing"
    BY <1>2, <2>2, <2>3, <2>5, Threads DEF CopyInv
  <2>b. \A d \in Send : Has(d)' => ~copy'[d].next.busy /\ copy'[d].next.confirm = copy'[d].was.confirm
    BY <1>2, <2>2, <2>3, <2>5, Threads DEF CopyInv
  <2>c. Has(HostEvents)' => /\ copy'[HostEvents].next.busy = copy'[HostEvents].was.busy
                            /\ copy'[HostEvents].next.confirm = copy'[HostEvents].was.confirm
    BY <1>2, <2>2, <2>3, <2>5, Threads DEF CopyInv
  <2>d. \A d \in Send : pc'[d] = "tapped" => Has(UI)'
    BY <1>2, <2>2, <2>3, <2>5, Threads DEF CopyInv
  <2>e. \A d \in arrived' : pc'[d] \in {"typed", "storing", "returned"}
    BY <1>2, <2>2, <2>3, <2>5, Threads DEF CopyInv, ComposerTypeOK
  <2>. QED BY <2>a, <2>b, <2>c, <2>d, <2>e DEF CopyInv
<1>7. ASSUME NEW open \in BOOLEAN, Dialog(open) PROVE CopyInv'
  BY <1>2, <1>4, <1>7, Changed DEF Dialog
<1>8. ASSUME ClipboardAnswers PROVE CopyInv'
  <2>1. CASE UNCHANGED <<slotVars, typed, hasty>>
    BY <1>3, <1>8, <2>1 DEF ClipboardAnswers, slotVars
  <2>2. CASE \E w \in Clip \ typed : Updates(HostEvents, [slot EXCEPT !.draft = slot.draft \cup {w}])
    <3>1. PICK w \in Clip \ typed : Updates(HostEvents, [slot EXCEPT !.draft = slot.draft \cup {w}])
      BY <2>2
    <3>2. slot.draft \cup {w} \in SUBSET Word
      BY <1>2, ComposerAssumption DEF ComposerTypeOK, PaneView
    <3>3. /\ [slot EXCEPT !.draft = slot.draft \cup {w}] \in PaneView
          /\ [slot EXCEPT !.draft = slot.draft \cup {w}].busy = slot.busy
          /\ [slot EXCEPT !.draft = slot.draft \cup {w}].confirm = slot.confirm
      BY <1>2, <3>2, Changed
    <3>4. UNCHANGED <<pc, arrived>>  BY <1>8 DEF ClipboardAnswers
    <3>5. /\ copy'[HostEvents].next.busy = copy'[HostEvents].was.busy
          /\ copy'[HostEvents].next.confirm = copy'[HostEvents].was.confirm
          /\ \A u \in Thread : u # HostEvents => copy'[u] = copy[u] /\ (Has(u)' <=> Has(u))
      BY <1>2, <3>1, <3>3, UpdatesCopy, Threads
    <3>. QED BY <1>2, <3>4, <3>5, Threads DEF CopyInv
  <2>. QED BY <1>8, <2>1, <2>2 DEF ClipboardAnswers
<1>9. ASSUME NEW t \in Thread, Store(t) PROVE CopyInv'
  <2>1. /\ Has(t) /\ ~Has(t)'
        /\ \A u \in Thread : u # t => copy'[u] = copy[u] /\ (Has(u)' <=> Has(u))
        /\ \A c \in Send : pc'[c] = IF t = UI /\ pc[c] = "tapped" THEN "invoke"
                                    ELSE IF t = c THEN "returned" ELSE pc[c]
        /\ arrived' = arrived
    BY <1>2, <1>9, StoreFacts
  <2>2. t \in Send => pc[t] = "storing"  BY <1>2, <2>1 DEF CopyInv
  <2>3. \A c \in Send : Has(c)' <=> pc'[c] = "storing"
    BY <1>2, <2>1, <2>2, Threads DEF CopyInv
  <2>4. \A c \in Send : Has(c)' => ~copy'[c].next.busy /\ copy'[c].next.confirm = copy'[c].was.confirm
    BY <1>2, <2>1, Threads DEF CopyInv
  <2>5. Has(HostEvents)' => /\ copy'[HostEvents].next.busy = copy'[HostEvents].was.busy
                            /\ copy'[HostEvents].next.confirm = copy'[HostEvents].was.confirm
    BY <1>2, <2>1, Threads DEF CopyInv
  <2>6. \A c \in Send : pc'[c] = "tapped" => Has(UI)'
    BY <1>2, <2>1, <2>2, Threads DEF CopyInv
  <2>7. \A c \in arrived' : pc'[c] \in {"typed", "storing", "returned"}
    BY <1>2, <2>1, <2>2 DEF CopyInv, ComposerTypeOK
  <2>. QED BY <2>3, <2>4, <2>5, <2>6, <2>7 DEF CopyInv
<1>10. ASSUME NEW c \in Send, Arrives(c) PROVE CopyInv'
  <2>1. \A d \in Send : pc'[d] = IF d = c THEN "typed" ELSE pc[d]
    BY <1>2, <1>10 DEF Arrives, Goes, ComposerTypeOK
  <2>2. pc[c] = "invoke" /\ arrived' = arrived \cup {c} /\ copy' = copy
    BY <1>10 DEF Arrives, Goes, slotVars
  <2>3. \A u : Has(u)' <=> Has(u)  BY <2>2 DEF Has
  <2>a. \A d \in Send : Has(d)' <=> pc'[d] = "storing"
    BY <1>2, <2>1, <2>2, <2>3, Threads DEF CopyInv
  <2>b. \A d \in Send : Has(d)' => ~copy'[d].next.busy /\ copy'[d].next.confirm = copy'[d].was.confirm
    BY <1>2, <2>1, <2>2, <2>3, Threads DEF CopyInv
  <2>c. Has(HostEvents)' => /\ copy'[HostEvents].next.busy = copy'[HostEvents].was.busy
                            /\ copy'[HostEvents].next.confirm = copy'[HostEvents].was.confirm
    BY <1>2, <2>1, <2>2, <2>3, Threads DEF CopyInv
  <2>d. \A d \in Send : pc'[d] = "tapped" => Has(UI)'
    BY <1>2, <2>1, <2>2, <2>3, Threads DEF CopyInv
  <2>e. \A d \in arrived' : pc'[d] \in {"typed", "storing", "returned"}
    BY <1>2, <2>1, <2>2, <2>3, Threads DEF CopyInv, ComposerTypeOK
  <2>. QED BY <2>a, <2>b, <2>c, <2>d, <2>e DEF CopyInv
<1>11. ASSUME NEW c \in Send, NEW next \in PaneView, Updates(c, next), ~next.busy,
              next.confirm = slot.confirm, Goes(c, "typed", "storing") \/ Goes(c, "invoke", "storing"),
              arrived' = arrived
       PROVE  CopyInv'
  <2>1. \A d \in Send : pc'[d] = IF d = c THEN "storing" ELSE pc[d]
    BY <1>2, <1>11 DEF Goes, ComposerTypeOK
  <2>2. pc[c] \in {"typed", "invoke"}  BY <1>11 DEF Goes
  <2>3. /\ copy'[c].was = slot /\ copy'[c].next = next /\ Has(c)'
        /\ \A u \in Thread : u # c => copy'[u] = copy[u] /\ (Has(u)' <=> Has(u))
    BY <1>2, <1>11, UpdatesCopy, Threads
  <2>a. \A d \in Send : Has(d)' <=> pc'[d] = "storing"
    BY <1>2, <1>11, <2>1, <2>2, <2>3, Threads DEF CopyInv
  <2>b. \A d \in Send : Has(d)' => ~copy'[d].next.busy /\ copy'[d].next.confirm = copy'[d].was.confirm
    BY <1>2, <1>11, <2>1, <2>2, <2>3, Threads DEF CopyInv
  <2>c. Has(HostEvents)' => /\ copy'[HostEvents].next.busy = copy'[HostEvents].was.busy
                            /\ copy'[HostEvents].next.confirm = copy'[HostEvents].was.confirm
    BY <1>2, <1>11, <2>1, <2>2, <2>3, Threads DEF CopyInv
  <2>d. \A d \in Send : pc'[d] = "tapped" => Has(UI)'
    BY <1>2, <1>11, <2>1, <2>2, <2>3, Threads DEF CopyInv
  <2>e. \A d \in arrived' : pc'[d] \in {"typed", "storing", "returned"}
    BY <1>2, <1>11, <2>1, <2>2, <2>3, Threads DEF CopyInv, ComposerTypeOK
  <2>. QED BY <2>a, <2>b, <2>c, <2>d, <2>e DEF CopyInv
<1>12. ASSUME NEW c \in Send, Delivered(c) PROVE CopyInv'
  BY <1>2, <1>11, <1>12, Changed DEF Delivered, histVars
<1>13. ASSUME NEW c \in Send, Failed(c) PROVE CopyInv'
  BY <1>2, <1>11, <1>13, Changed DEF Failed
<1>14. ASSUME TapPaste \/ Pass PROVE CopyInv'
  BY <1>3, <1>14 DEF TapPaste, Pass, slotVars, sendVars, histVars
<1>. QED BY <1>1, <1>5, <1>6, <1>7, <1>8, <1>9, <1>10, <1>12, <1>13, <1>14
     DEF ComposerNext, Tap, TapReveal, CloseReveal, Works

\* TapCopyInv is kept: a tap's copy is made while no other is on its way.
LEMMA TapCopyStep == ComposerInv /\ ComposerNext => TapCopyInv'
<1>1. SUFFICES ASSUME ComposerInv, ComposerNext PROVE TapCopyInv'
  OBVIOUS
<1>2. ComposerTypeOK /\ CopyInv /\ TapCopyInv  BY <1>1 DEF ComposerInv
<1>3. ASSUME copy'[UI] = copy[UI], wanted' = wanted,
             \A c \in Send : pc[c] = "tapped" => pc'[c] = "tapped"
      PROVE  TapCopyInv'
  BY <1>2, <1>3 DEF TapCopyInv, Has
<1>4. ASSUME NEW w \in Word, TypeWord(w) PROVE TapCopyInv'
  <2>1. /\ [slot EXCEPT !.draft = field'] \in PaneView
        /\ [slot EXCEPT !.draft = field'].busy = slot.busy
        /\ [slot EXCEPT !.draft = field'].confirm = slot.confirm
    <3>1. field' \in SUBSET Word  BY <1>2, <1>4 DEF TypeWord, ComposerTypeOK
    <3>. QED BY <1>2, <3>1, Changed
  <2>2. copy'[UI].next.busy = copy'[UI].was.busy /\ copy'[UI].next.confirm = copy'[UI].was.confirm
    BY <1>2, <1>4, <2>1, UpdatesCopy, Threads DEF TypeWord
  <2>. QED BY <2>2 DEF TapCopyInv
<1>5. ASSUME NEW c \in Send, NEW submit \in BOOLEAN, TapSend(c, submit) PROVE TapCopyInv'
  <2>1. copy'[UI].next.busy /\ copy'[UI].next.confirm = copy'[UI].was.confirm
    <3>1. Updates(UI, [slot EXCEPT !.busy = TRUE])  BY <1>5 DEF TapSend
    <3>2. /\ [slot EXCEPT !.busy = TRUE] \in PaneView
          /\ [slot EXCEPT !.busy = TRUE].busy
          /\ [slot EXCEPT !.busy = TRUE].confirm = slot.confirm
      BY <1>2, Changed
    <3>3. copy'[UI].was = slot /\ copy'[UI].next = [slot EXCEPT !.busy = TRUE]
      BY <1>2, <3>1, <3>2, UpdatesCopy, Threads
    <3>. QED BY <3>2, <3>3
  <2>2. pc'[c] = "tapped"  BY <1>2, <1>5 DEF TapSend, ComposerTypeOK
  <2>. QED BY <2>1, <2>2 DEF TapCopyInv
<1>6. ASSUME NEW open \in BOOLEAN, Dialog(open) PROVE TapCopyInv'
  <2>1. copy'[UI].next.busy = copy'[UI].was.busy /\ copy'[UI].next.confirm = open
    BY <1>2, <1>6, UpdatesCopy, Threads, Changed DEF Dialog
  <2>. QED BY <1>6, <2>1 DEF TapCopyInv, Dialog
<1>7. ASSUME ClipboardAnswers PROVE TapCopyInv'
  <2>1. copy'[UI] = copy[UI]
    BY <1>2, <1>7, Threads DEF ClipboardAnswers, Updates, Copied, slotVars, ComposerTypeOK
  <2>. QED BY <1>3, <1>7, <2>1 DEF ClipboardAnswers
<1>8. ASSUME NEW t \in Thread, Store(t) PROVE TapCopyInv'
  <2>1. CASE t = UI
    BY <1>2, <1>8, <2>1, StoreFacts DEF TapCopyInv
  <2>2. CASE t # UI
    <3>1. copy'[UI] = copy[UI] /\ wanted' = wanted /\ Has(t)
      BY <1>2, <1>8, <2>2, StoreFacts, Threads
    <3>2. t \in Send => pc[t] = "storing"  BY <1>2, <3>1 DEF CopyInv
    <3>3. \A c \in Send : pc[c] = "tapped" => pc'[c] = "tapped"
      BY <1>2, <1>8, <2>2, <3>2, StoreFacts
    <3>. QED BY <1>3, <3>1, <3>3
  <2>. QED BY <2>1, <2>2
<1>9. ASSUME NEW c \in Send, NEW from, NEW to, from # "tapped", Goes(c, from, to)
      PROVE  \A d \in Send : pc[d] = "tapped" => pc'[d] = "tapped"
  BY <1>2, <1>9 DEF Goes, ComposerTypeOK
<1>10. ASSUME NEW c \in Send, Works(c) PROVE TapCopyInv'
  <2>1. copy'[UI] = copy[UI] /\ wanted' = wanted
    BY <1>2, <1>10, Threads DEF Works, Arrives, Delivered, Failed, Updates, Copied, slotVars, histVars,
                                ComposerTypeOK
  <2>2. \A d \in Send : pc[d] = "tapped" => pc'[d] = "tapped"
    BY <1>9, <1>10 DEF Works, Arrives, Delivered, Failed
  <2>. QED BY <1>3, <2>1, <2>2
<1>11. ASSUME TapPaste \/ Pass PROVE TapCopyInv'
  BY <1>3, <1>11 DEF TapPaste, Pass, slotVars, sendVars, histVars
<1>. QED BY <1>1, <1>4, <1>5, <1>6, <1>7, <1>8, <1>10, <1>11
     DEF ComposerNext, Tap, TapReveal, CloseReveal

\* SlotTellsTheTruth is kept.  A store that undoes nothing changes the slot as
\* its copy was changed: the spinner starts with its send and ends with it.
LEMMA TruthStep == ComposerInv /\ ComposerNext => SlotTellsTheTruth'
<1>1. SUFFICES ASSUME ComposerInv, ComposerNext, ~clobbered' PROVE SlotTellsTheTruth'
  BY DEF SlotTellsTheTruth
<1>2. ComposerTypeOK /\ CopyInv /\ TapCopyInv  BY <1>1 DEF ComposerInv
<1>3. ~clobbered
  BY <1>1, <1>2, StoreFacts DEF ComposerNext, Tap, TypeWord, TapSend, TapPaste, TapReveal, CloseReveal,
     Dialog, ClipboardAnswers, Pass, Works, Arrives, Delivered, Failed, histVars
<1>4. slot.busy => InFlight # {}  BY <1>1, <1>3 DEF ComposerInv, SlotTellsTheTruth
<1>5. (Has(UI) => copy[UI].next.confirm = copy[UI].was.confirm) => slot.confirm = wanted
  BY <1>1, <1>2, <1>3 DEF ComposerInv, SlotTellsTheTruth, Pending, Has, ComposerTypeOK, PaneView
<1>6. ASSUME slot'.busy => InFlight' # {},
             (Has(UI)' => copy'[UI].next.confirm = copy'[UI].was.confirm) => slot'.confirm = wanted'
      PROVE  SlotTellsTheTruth'
  BY <1>6 DEF SlotTellsTheTruth, Pending, Has
<1>7. ASSUME NEW t \in Thread, Store(t) PROVE SlotTellsTheTruth'
  <2>1. /\ slot = copy[t].was /\ slot' = copy[t].next /\ Has(t) /\ ~Has(t)' /\ wanted' = wanted
        /\ \A u \in Thread : u # t => copy'[u] = copy[u] /\ (Has(u)' <=> Has(u))
        /\ \A c \in Send : pc'[c] = IF t = UI /\ pc[c] = "tapped" THEN "invoke"
                                    ELSE IF t = c THEN "returned" ELSE pc[c]
    BY <1>1, <1>2, <1>7, StoreFacts
  <2>2. slot'.busy => InFlight' # {}
    <3>1. CASE t \in Send
      BY <1>2, <2>1, <3>1 DEF CopyInv
    <3>2. CASE t \notin Send
      <4>1. \A c \in Send : c \in InFlight => c \in InFlight'
        BY <2>1, <3>2 DEF InFlight
      <4>2. slot'.busy => InFlight # {}
        BY <1>2, <1>4, <2>1, <3>2, Threads DEF CopyInv, TapCopyInv, InFlight
      <4>. QED BY <4>1, <4>2 DEF InFlight
    <3>. QED BY <3>1, <3>2
  <2>3. (Has(UI)' => copy'[UI].next.confirm = copy'[UI].was.confirm) => slot'.confirm = wanted'
    <3>1. CASE t = UI
      BY <1>2, <1>5, <2>1, <3>1 DEF TapCopyInv
    <3>2. CASE t # UI
      <4>1. slot'.confirm = slot.confirm
        BY <1>2, <2>1, <3>2, Threads DEF CopyInv
      <4>. QED BY <1>5, <2>1, <3>2, <4>1, Threads
    <3>. QED BY <3>1, <3>2
  <2>. QED BY <1>6, <2>2, <2>3
<1>8. ASSUME UNCHANGED slot, copy'[UI] = copy[UI], wanted' = wanted,
             \A c \in Send : c \in InFlight => c \in InFlight'
      PROVE  SlotTellsTheTruth'
  <2>1. slot'.busy => InFlight' # {}  BY <1>4, <1>8 DEF InFlight
  <2>2. Has(UI)' <=> Has(UI)  BY <1>8 DEF Has
  <2>. QED BY <1>5, <1>6, <1>8, <2>1, <2>2
<1>9. ASSUME NEW w \in Word, TypeWord(w) PROVE SlotTellsTheTruth'
  <2>1. /\ [slot EXCEPT !.draft = field'] \in PaneView
        /\ [slot EXCEPT !.draft = field'].confirm = slot.confirm
    <3>1. field' \in SUBSET Word  BY <1>2, <1>9 DEF TypeWord, ComposerTypeOK
    <3>. QED BY <1>2, <3>1, Changed
  <2>2. ~Has(UI) /\ UNCHANGED <<slot, wanted, pc>>
    BY <1>2, <1>9, <2>1, UpdatesCopy, Threads DEF TypeWord, sendVars
  <2>3. slot'.busy => InFlight' # {}  BY <1>4, <2>2 DEF InFlight
  <2>. QED BY <1>5, <1>6, <2>2, <2>3
<1>10. ASSUME NEW c \in Send, NEW submit \in BOOLEAN, TapSend(c, submit) PROVE SlotTellsTheTruth'
  <2>1. ~Has(UI) /\ UNCHANGED <<slot, wanted>>
    BY <1>2, <1>10, Changed, UpdatesCopy, Threads DEF TapSend
  <2>2. InFlight' # {}  BY <1>2, <1>10 DEF TapSend, InFlight, ComposerTypeOK
  <2>. QED BY <1>5, <1>6, <2>1, <2>2
<1>11. ASSUME NEW open \in BOOLEAN, Dialog(open) PROVE SlotTellsTheTruth'
  <2>1. Has(UI)' /\ copy'[UI].next.confirm = open /\ copy'[UI].was = slot
    BY <1>2, <1>11, Changed, UpdatesCopy, Threads DEF Dialog
  <2>2. slot' = slot /\ pc' = pc /\ wanted' = open  BY <1>11 DEF Dialog
  <2>3. slot'.busy => InFlight' # {}  BY <1>4, <2>2 DEF InFlight
  <2>. QED BY <1>6, <2>1, <2>2, <2>3
<1>12. ASSUME ClipboardAnswers PROVE SlotTellsTheTruth'
  <2>1. copy'[UI] = copy[UI] /\ UNCHANGED <<slot, wanted, pc>>
    BY <1>2, <1>12, Threads DEF ClipboardAnswers, Updates, Copied, slotVars, ComposerTypeOK
  <2>. QED BY <1>8, <2>1 DEF InFlight
<1>13. ASSUME NEW c \in Send, Works(c) PROVE SlotTellsTheTruth'
  <2>1. copy'[UI] = copy[UI] /\ UNCHANGED <<slot, wanted>>
    BY <1>2, <1>13, Threads DEF Works, Arrives, Delivered, Failed, Updates, Copied, slotVars, histVars,
                                ComposerTypeOK
  <2>2. \A d \in Send : d \in InFlight => d \in InFlight'
    BY <1>2, <1>13 DEF Works, Arrives, Delivered, Failed, Goes, InFlight, ComposerTypeOK
  <2>. QED BY <1>8, <2>1, <2>2
<1>14. ASSUME TapPaste \/ Pass PROVE SlotTellsTheTruth'
  BY <1>8, <1>14 DEF TapPaste, Pass, slotVars, sendVars, histVars, InFlight
<1>. QED BY <1>1, <1>7, <1>9, <1>10, <1>11, <1>12, <1>13, <1>14
     DEF ComposerNext, Tap, TapReveal, CloseReveal

-----------------------------------------------------------------------------
(* The composer: each step, while the calm lasts.                          *)

\* Calm now means calm before.
LEMMA CalmBefore == ComposerInv /\ ComposerNext /\ Calm' => Calm /\ CalmInv
<1>1. ASSUME ComposerInv, ComposerNext, Calm' PROVE Calm
  <2>1. ComposerTypeOK  BY <1>1 DEF ComposerInv
  <2>2. ASSUME NEW behind, hasty' = (hasty \/ InFlight # {} \/ behind), clobbered' = clobbered PROVE Calm
    BY <1>1, <2>2 DEF Calm
  <2>3. ASSUME UNCHANGED <<hasty, clobbered>> PROVE Calm
    BY <1>1, <2>3 DEF Calm
  <2>4. ASSUME NEW t \in Thread, Store(t) PROVE Calm
    BY <1>1, <2>1, <2>4, StoreFacts DEF Calm
  <2>5. ASSUME NEW w \in Word, TypeWord(w) PROVE Calm
    BY <2>2, <2>5 DEF TypeWord, Edits
  <2>6. ASSUME NEW c \in Send, NEW submit \in BOOLEAN, TapSend(c, submit) PROVE Calm
    BY <1>1, <2>6 DEF TapSend, Calm
  <2>7. ASSUME ClipboardAnswers PROVE Calm
    <3>1. clobbered' = clobbered  BY <2>7 DEF ClipboardAnswers
    <3>2. Edits(FALSE) \/ hasty' = hasty  BY <2>7 DEF ClipboardAnswers
    <3>. QED BY <2>2, <2>3, <3>1, <3>2 DEF Edits
  <2>8. ASSUME TapPaste \/ TapReveal \/ CloseReveal \/ Pass \/ \E c \in Send : Works(c) PROVE Calm
    BY <2>3, <2>8 DEF TapPaste, TapReveal, CloseReveal, Dialog, Pass, Works, Arrives, Delivered, Failed,
                      histVars, slotVars
  <2>. QED BY <1>1, <2>4, <2>5, <2>6, <2>7, <2>8 DEF ComposerNext, Tap
<1>. QED BY <1>1 DEF ComposerInv

\* What a thread other than t holds stays as it is.
Others(t) == \A u \in Thread : u # t => copy'[u] = copy[u] /\ (Has(u)' <=> Has(u))

\* Thread t holds a copy of the slot it has just made.
Copies(t) == ~Has(t) /\ Has(t)' /\ copy'[t].was = slot /\ slot' = slot /\ Others(t)

\* On a calm screen a new word is put in the draft by typing or pasting, ...
Adds(t, w) ==
    /\ InFlight = {} /\ InFlight' = {} /\ w \notin typed /\ typed' = typed \cup {w}
    /\ Copies(t)
    /\ copy'[t].next.draft = slot.draft \cup {w} /\ copy'[t].next.busy = slot.busy
    /\ UNCHANGED <<pc, text, arrived, unsure>>

\* ... the draft is sent, ...
Sends(c) ==
    /\ InFlight = {} /\ pc[c] = "idle" /\ ~slot.busy
    /\ Copies(UI)
    /\ copy'[UI].next.draft = slot.draft /\ copy'[UI].next.busy
    /\ \A d \in Send : /\ pc'[d] = IF d = c THEN "tapped" ELSE pc[d]
                       /\ text'[d] = IF d = c THEN slot.draft ELSE text[d]
    /\ UNCHANGED <<typed, arrived, unsure>>

\* ... the dialog opened or closed, ...
Opens ==
    /\ Copies(UI)
    /\ copy'[UI].next.draft = slot.draft /\ copy'[UI].next.busy = slot.busy
    /\ UNCHANGED <<pc, text, typed, arrived, unsure>>

\* ... a text arrives, ...
Lands(c) ==
    /\ pc[c] = "invoke" /\ arrived' = arrived \cup {c}
    /\ \A d \in Send : pc'[d] = IF d = c THEN "typed" ELSE pc[d]
    /\ UNCHANGED <<slot, copy, text, typed, unsure>>

\* ... a send ends, its draft emptied or kept, ...
Ends(c) ==
    /\ pc[c] \in {"invoke", "typed"}
    /\ Copies(c)
    /\ copy'[c].next.draft = slot.draft \/ (copy'[c].next.draft = {} /\ pc[c] = "typed")
    /\ c \in arrived \ unsure' /\ pc[c] = "typed" => copy'[c].next.draft = {}
    /\ \A d \in Send : pc'[d] = IF d = c THEN "storing" ELSE pc[d]
    /\ UNCHANGED <<text, typed, arrived>> /\ unsure \subseteq unsure'
    /\ \A d \in Send : d # c => (d \in unsure' <=> d \in unsure)

\* ... a copy of the slot as it is is stored, ...
Stores(t) ==
    /\ Has(t) /\ slot = copy[t].was /\ slot' = copy[t].next
    /\ ~Has(t)' /\ Others(t)
    /\ \A c \in Send : pc'[c] = IF t = UI /\ pc[c] = "tapped" THEN "invoke"
                                ELSE IF t = c THEN "returned" ELSE pc[c]
    /\ UNCHANGED <<text, typed, arrived, unsure>>

\* ... or nothing of this moves.
Rests == UNCHANGED <<slot, copy, pc, text, typed, arrived, unsure>>

\* A typed word that changes a calm screen: no send is out, and the word is new.
LEMMA TypesCalmly ==
  ASSUME ComposerInv, Calm', NEW w \in Word, TypeWord(w)
  PROVE  Adds(UI, w)
<1>1. ComposerTypeOK  BY DEF ComposerInv
<1>2. InFlight = {} /\ field = slot.draft  BY DEF Calm, TypeWord, Edits
<1>3. w \notin typed /\ field' = slot.draft \cup {w} /\ field' \in SUBSET Word
  BY <1>1, <1>2 DEF TypeWord, ComposerTypeOK
<1>4. /\ [slot EXCEPT !.draft = field'] \in PaneView
      /\ [slot EXCEPT !.draft = field'].draft = field'
      /\ [slot EXCEPT !.draft = field'].busy = slot.busy
  BY <1>1, <1>3, Changed
<1>5. Updates(UI, [slot EXCEPT !.draft = field'])  BY DEF TypeWord
<1>6. /\ ~Has(UI) /\ Has(UI)'
      /\ copy'[UI].was = slot /\ copy'[UI].next = [slot EXCEPT !.draft = field']
      /\ \A u \in Thread : u # UI => copy'[u] = copy[u] /\ (Has(u)' <=> Has(u))
  BY <1>1, <1>4, <1>5, UpdatesCopy, Threads
<1>7. UNCHANGED <<slot, pc, text, arrived, unsure>> /\ typed' = typed \cup {w}
  BY DEF TypeWord, sendVars
<1>. QED BY <1>2, <1>3, <1>4, <1>6, <1>7 DEF InFlight, Adds, Copies, Others

\* The clipboard's answer, the same.
LEMMA PastesCalmly ==
  ASSUME ComposerInv, Calm', NEW w \in Clip \ typed, ClipboardAnswers,
         Updates(HostEvents, [slot EXCEPT !.draft = slot.draft \cup {w}]),
         typed' = typed \cup {w}, Edits(FALSE)
  PROVE  Adds(HostEvents, w)
<1>1. ComposerTypeOK  BY DEF ComposerInv
<1>2. InFlight = {}  BY DEF Calm, Edits
<1>3. slot.draft \cup {w} \in SUBSET Word
  BY <1>1, ComposerAssumption DEF ComposerTypeOK, PaneView
<1>4. /\ [slot EXCEPT !.draft = slot.draft \cup {w}] \in PaneView
      /\ [slot EXCEPT !.draft = slot.draft \cup {w}].draft = slot.draft \cup {w}
      /\ [slot EXCEPT !.draft = slot.draft \cup {w}].busy = slot.busy
  BY <1>1, <1>3, Changed
<1>5. /\ ~Has(HostEvents) /\ Has(HostEvents)'
      /\ copy'[HostEvents].was = slot
      /\ copy'[HostEvents].next = [slot EXCEPT !.draft = slot.draft \cup {w}]
      /\ \A u \in Thread : u # HostEvents => copy'[u] = copy[u] /\ (Has(u)' <=> Has(u))
  BY <1>1, <1>4, UpdatesCopy, Threads
<1>6. UNCHANGED <<slot, pc, text, arrived, unsure>>
  BY DEF ClipboardAnswers, slotVars
<1>. QED BY <1>2, <1>4, <1>5, <1>6 DEF InFlight, Adds, Copies, Others

\* A tap on Send on a calm screen: the text is the slot's draft, and no send
\* that has left its tap is out.
LEMMA SendsCalmly ==
  ASSUME ComposerInv, Calm', NEW c \in Send, NEW submit \in BOOLEAN, TapSend(c, submit)
  PROVE  Sends(c)
<1>1. ComposerTypeOK /\ CopyInv  BY DEF ComposerInv
<1>2. Calm /\ CalmInv  BY DEF TapSend, Calm, ComposerInv
<1>3. drawn = slot  BY <1>1 DEF Calm, TapSend, ComposerTypeOK
<1>4. ~slot.busy  BY <1>3 DEF TapSend
<1>5. /\ ~Has(UI) /\ Has(UI)'
      /\ copy'[UI].was = slot /\ copy'[UI].next.draft = slot.draft /\ copy'[UI].next.busy
      /\ \A u \in Thread : u # UI => copy'[u] = copy[u] /\ (Has(u)' <=> Has(u))
  BY <1>1, UpdatesCopy, Threads, Changed DEF TapSend
<1>6. InFlight = {}
  <2>1. \A d \in Send : pc[d] \notin {"tapped", "invoke", "typed", "storing"}
    BY <1>1, <1>2, <1>4, <1>5 DEF CalmInv, FlightInv, CopyInv
  <2>. QED BY <1>1, <2>1 DEF InFlight, ComposerTypeOK
<1>7. \A d \in Send : /\ pc'[d] = IF d = c THEN "tapped" ELSE pc[d]
                      /\ text'[d] = IF d = c THEN slot.draft ELSE text[d]
  BY <1>1, <1>3 DEF TapSend, ComposerTypeOK
<1>. QED BY <1>4, <1>5, <1>6, <1>7 DEF TapSend, Sends, Copies, Others

\* A goroutine that ends: its copy is of the slot of now.
LEMMA EndsSend ==
  ASSUME ComposerInv, NEW c \in Send, Delivered(c) \/ Failed(c)
  PROVE  Ends(c)
<1>1. ComposerTypeOK  BY DEF ComposerInv
<1>2. CASE Delivered(c)
  <2>1. /\ ~Has(c) /\ Has(c)' /\ copy'[c].was = slot /\ copy'[c].next.draft = {}
        /\ \A u \in Thread : u # c => copy'[u] = copy[u] /\ (Has(u)' <=> Has(u))
    <3>1. /\ [slot EXCEPT !.busy = FALSE, !.draft = {}] \in PaneView
          /\ [slot EXCEPT !.busy = FALSE, !.draft = {}].draft = {}
      BY <1>1, Changed
    <3>2. Updates(c, [slot EXCEPT !.busy = FALSE, !.draft = {}]) /\ c \in Thread
      BY <1>2, Threads DEF Delivered
    <3>. QED BY <1>1, <3>1, <3>2, UpdatesCopy
  <2>2. pc[c] = "typed" /\ \A d \in Send : pc'[d] = IF d = c THEN "storing" ELSE pc[d]
    BY <1>1, <1>2 DEF Delivered, Goes, ComposerTypeOK
  <2>. QED BY <1>2, <2>1, <2>2 DEF Delivered, histVars, Ends, Copies, Others
<1>3. CASE Failed(c)
  <2>1. /\ ~Has(c) /\ Has(c)' /\ copy'[c].was = slot /\ copy'[c].next.draft = slot.draft
        /\ \A u \in Thread : u # c => copy'[u] = copy[u] /\ (Has(u)' <=> Has(u))
    <3>1. [slot EXCEPT !.busy = FALSE] \in PaneView /\ [slot EXCEPT !.busy = FALSE].draft = slot.draft
      BY <1>1, Changed
    <3>2. Updates(c, [slot EXCEPT !.busy = FALSE]) /\ c \in Thread
      BY <1>3, Threads DEF Failed
    <3>. QED BY <1>1, <3>1, <3>2, UpdatesCopy
  <2>2. pc[c] \in {"invoke", "typed"} /\ \A d \in Send : pc'[d] = IF d = c THEN "storing" ELSE pc[d]
    BY <1>1, <1>3 DEF Failed, Goes, ComposerTypeOK
  <2>. QED BY <1>3, <2>1, <2>2 DEF Failed, Ends, Copies, Others
<1>. QED BY <1>2, <1>3

\* Every step of a calm screen is one of these.
LEMMA CalmSteps ==
  ASSUME ComposerInv, ComposerNext, Calm'
  PROVE  \/ \E t \in {UI, HostEvents}, w \in Word : Adds(t, w)
         \/ \E c \in Send : Sends(c) \/ Lands(c) \/ Ends(c)
         \/ \E t \in Thread : Stores(t)
         \/ Opens \/ Rests
<1>. DEFINE Goal == \/ \E t \in {UI, HostEvents}, w \in Word : Adds(t, w)
                    \/ \E c \in Send : Sends(c) \/ Lands(c) \/ Ends(c)
                    \/ \E t \in Thread : Stores(t)
                    \/ Opens \/ Rests
<1>1. ComposerTypeOK  BY DEF ComposerInv
<1>2. ASSUME NEW w \in Word, TypeWord(w) PROVE Goal
  BY <1>2, TypesCalmly
<1>3. ASSUME NEW c \in Send, NEW submit \in BOOLEAN, TapSend(c, submit) PROVE Goal
  BY <1>3, SendsCalmly
<1>4. ASSUME NEW open \in BOOLEAN, Dialog(open) PROVE Goal
  <2>1. /\ [slot EXCEPT !.confirm = open] \in PaneView
        /\ [slot EXCEPT !.confirm = open].draft = slot.draft
        /\ [slot EXCEPT !.confirm = open].busy = slot.busy
    BY <1>1, Changed
  <2>2. Updates(UI, [slot EXCEPT !.confirm = open])  BY <1>4 DEF Dialog
  <2>3. Opens
    BY <1>1, <1>4, <2>1, <2>2, UpdatesCopy, Threads DEF Dialog, Opens, Copies, Others
  <2>. QED BY <2>3, Zenon
<1>5. ASSUME ClipboardAnswers PROVE Goal
  <2>1. CASE UNCHANGED <<slotVars, typed, hasty>>
    <3>1. Rests  BY <1>5, <2>1 DEF ClipboardAnswers, slotVars, Rests
    <3>. QED BY <3>1, Zenon
  <2>2. CASE /\ \E w \in Clip \ typed : /\ Updates(HostEvents, [slot EXCEPT !.draft = slot.draft \cup {w}])
                                         /\ typed' = typed \cup {w}
             /\ Edits(FALSE)
    <3>1. PICK w \in Clip \ typed : /\ Updates(HostEvents, [slot EXCEPT !.draft = slot.draft \cup {w}])
                                    /\ typed' = typed \cup {w}
      BY <2>2
    <3>2. Adds(HostEvents, w)  BY <1>5, <2>2, <3>1, PastesCalmly
    <3>3. w \in Word  BY ComposerAssumption
    <3>. QED BY <3>2, <3>3
  <2>. QED BY <1>5, <2>1, <2>2 DEF ClipboardAnswers
<1>6. ASSUME NEW t \in Thread, Store(t) PROVE Goal
  <2>1. Stores(t)  BY <1>1, <1>6, StoreFacts DEF Calm, Stores, Others
  <2>. QED BY <2>1, Zenon
<1>7. ASSUME NEW c \in Send, Works(c) PROVE Goal
  <2>1. CASE Arrives(c)
    <3>1. Lands(c)  BY <1>1, <2>1 DEF Arrives, Goes, Lands, slotVars, ComposerTypeOK
    <3>. QED BY <3>1
  <2>2. CASE Delivered(c) \/ Failed(c)
    BY <2>2, EndsSend
  <2>. QED BY <1>7, <2>1, <2>2 DEF Works
<1>8. ASSUME TapPaste \/ Pass PROVE Goal
  <2>1. Rests  BY <1>8 DEF TapPaste, Pass, slotVars, sendVars, histVars, Rests
  <2>. QED BY <2>1, Zenon
<1>. QED BY <1>2, <1>3, <1>4, <1>5, <1>6, <1>7, <1>8
     DEF ComposerNext, Tap, TapReveal, CloseReveal

-----------------------------------------------------------------------------
(* The composer: the calm is kept, by each kind of step.                   *)

\* A new word in a copy: no send is out.
LEMMA CalmAdds ==
  ASSUME ComposerInv, Calm, CalmInv, NEW t \in {UI, HostEvents}, NEW w \in Word, Adds(t, w)
  PROVE  FlightInv' /\ EditInv' /\ FreshInv' /\ TypedInv' /\ OnceInv' /\ NothingTypedIsLost'
<1>1. ComposerTypeOK /\ CopyInv /\ (slot.busy => InFlight # {})
  BY DEF ComposerInv, Calm, SlotTellsTheTruth
<1>2. FlightInv /\ EditInv /\ FreshInv /\ TypedInv /\ OnceInv  BY DEF CalmInv
<1>3. \A w_ \in typed : \/ w_ \in slot.draft
                        \/ \E u \in Thread : Has(u) /\ w_ \in copy[u].next.draft
                        \/ \E c \in arrived : w_ \in text[c]
  BY DEF CalmInv, NothingTypedIsLost, Calm, Has
<1>4. /\ InFlight = {} /\ InFlight' = {} /\ w \notin typed /\ typed' = typed \cup {w}
      /\ ~Has(t) /\ Has(t)' /\ copy'[t].was = slot /\ copy'[t].next.draft = slot.draft \cup {w}
      /\ \A u \in Thread : u # t => copy'[u] = copy[u] /\ (Has(u)' <=> Has(u))
      /\ UNCHANGED <<slot, pc, text, arrived, unsure>>
  BY DEF Adds, Copies, Others
<1>5. \A c \in Send : pc[c] \notin {"tapped", "invoke", "typed", "storing"}  BY <1>4 DEF InFlight
<1>6. FlightInv'  BY <1>4, <1>5 DEF FlightInv
<1>7. EditInv'
  <2>1. Has(HostEvents)' => /\ ~copy'[HostEvents].was.busy
                            /\ copy'[HostEvents].was.draft \subseteq copy'[HostEvents].next.draft
    BY <1>1, <1>2, <1>4, Threads DEF EditInv
  <2>2. Has(UI)' => copy'[UI].was.draft \subseteq copy'[UI].next.draft
    BY <1>2, <1>4, Threads DEF EditInv
  <2>. QED BY <1>4, <2>1, <2>2 DEF EditInv
<1>8. FreshInv'
  <2>1. Fresh(t)' \subseteq {w}  BY <1>4 DEF Fresh
  <2>2. w \notin slot.draft /\ \A c \in Send : w \notin text[c]  BY <1>2, <1>4 DEF TypedInv
  <2>3. \A u \in Thread : u # t => Fresh(u)' = Fresh(u)  BY <1>4 DEF Fresh
  <2>4. \A u \in Thread : u # t /\ Has(u) => w \notin Fresh(u)  BY <1>2, <1>4 DEF TypedInv, Fresh
  <2>5. \A u \in {UI, HostEvents} : Has(u)' =>
          /\ Fresh(u)' \cap slot'.draft = {}
          /\ \A c \in Send : Fresh(u)' \cap text'[c] = {}
    <3>1. SUFFICES ASSUME NEW u \in {UI, HostEvents}, Has(u)'
                   PROVE  /\ Fresh(u)' \cap slot'.draft = {}
                          /\ \A c \in Send : Fresh(u)' \cap text'[c] = {}
      OBVIOUS
    <3>2. CASE u = t  BY <1>4, <2>1, <2>2, <3>2
    <3>3. CASE u # t  BY <1>2, <1>4, <2>3, <3>1, <3>3, Threads DEF FreshInv
    <3>. QED BY <3>2, <3>3
  <2>6. Has(UI)' /\ Has(HostEvents)' => Fresh(UI)' \cap Fresh(HostEvents)' = {}
    <3>1. CASE t = UI
      BY <1>4, <2>1, <2>3, <2>4, <3>1, Threads
    <3>2. CASE t = HostEvents
      BY <1>4, <2>1, <2>3, <2>4, <3>2, Threads
    <3>. QED BY <3>1, <3>2
  <2>. QED BY <2>5, <2>6 DEF FreshInv
<1>9. TypedInv'
  <2>1. \A u \in Thread : Has(u)' => copy'[u].was.draft \subseteq typed' /\ copy'[u].next.draft \subseteq typed'
    BY <1>2, <1>4 DEF TypedInv
  <2>. QED BY <1>2, <1>4, <2>1 DEF TypedInv
<1>10. OnceInv'  BY <1>2, <1>4 DEF OnceInv
<1>11. NothingTypedIsLost'
  <2>1. \A w_ \in typed' : \/ w_ \in slot'.draft
                           \/ \E u \in Thread : Has(u)' /\ w_ \in copy'[u].next.draft
                           \/ \E c \in arrived' : w_ \in text'[c]
    <3>1. TAKE w_ \in typed'
    <3>2. CASE w_ = w  BY <1>4, <3>2, Threads
    <3>3. CASE w_ \in typed  BY <1>3, <1>4, <3>3
    <3>. QED BY <1>4, <3>2, <3>3
  <2>. QED BY <2>1 DEF NothingTypedIsLost, Has
<1>. QED BY <1>6, <1>7, <1>8, <1>9, <1>10, <1>11

\* The tap on Send: the only send that is out, with the slot's text.
LEMMA CalmSends ==
  ASSUME ComposerInv, Calm, CalmInv, NEW c \in Send, Sends(c)
  PROVE  FlightInv' /\ EditInv' /\ FreshInv' /\ TypedInv' /\ OnceInv' /\ NothingTypedIsLost'
<1>1. ComposerTypeOK /\ CopyInv  BY DEF ComposerInv
<1>2. FlightInv /\ EditInv /\ FreshInv /\ TypedInv /\ OnceInv  BY DEF CalmInv
<1>3. \A w_ \in typed : \/ w_ \in slot.draft
                        \/ \E u \in Thread : Has(u) /\ w_ \in copy[u].next.draft
                        \/ \E d \in arrived : w_ \in text[d]
  BY DEF CalmInv, NothingTypedIsLost, Calm, Has
<1>4. /\ InFlight = {} /\ pc[c] = "idle" /\ ~slot.busy
      /\ ~Has(UI) /\ Has(UI)' /\ copy'[UI].was = slot
      /\ copy'[UI].next.draft = slot.draft /\ copy'[UI].next.busy
      /\ \A u \in Thread : u # UI => copy'[u] = copy[u] /\ (Has(u)' <=> Has(u))
      /\ \A d \in Send : /\ pc'[d] = IF d = c THEN "tapped" ELSE pc[d]
                         /\ text'[d] = IF d = c THEN slot.draft ELSE text[d]
      /\ UNCHANGED <<slot, typed, arrived, unsure>>
  BY DEF Sends, Copies, Others
<1>5. \A d \in Send : pc[d] \notin {"tapped", "invoke", "typed", "storing"}  BY <1>4 DEF InFlight
<1>6. InFlight' = {c}  BY <1>4 DEF InFlight
<1>7. c \notin arrived /\ arrived \subseteq Send  BY <1>1, <1>4 DEF CopyInv, ComposerTypeOK
<1>8. FlightInv'
  <2>1. \A d \in Send : pc'[d] \notin {"invoke", "typed", "storing"} /\ (pc'[d] = "tapped" => d = c)
    BY <1>4, <1>5
  <2>. QED BY <1>4, <1>6, <2>1 DEF FlightInv
<1>9. EditInv'  BY <1>2, <1>4, Threads DEF EditInv
<1>10. FreshInv'
  <2>1. Fresh(UI)' = {} /\ Fresh(HostEvents)' = Fresh(HostEvents)  BY <1>4, Threads DEF Fresh
  <2>. QED BY <1>2, <1>4, <2>1, Threads DEF FreshInv
<1>11. TypedInv'
  <2>1. \A u \in Thread : Has(u)' => copy'[u].was.draft \subseteq typed' /\ copy'[u].next.draft \subseteq typed'
    BY <1>2, <1>4 DEF TypedInv
  <2>. QED BY <1>2, <1>4, <2>1 DEF TypedInv
<1>12. OnceInv'
  <2>1. \A d \in arrived : d # c /\ text'[d] = text[d] /\ pc'[d] = pc[d]  BY <1>4, <1>7
  <2>2. \A d \in arrived : pc[d] = "returned"  BY <1>1, <1>5, <1>7 DEF CopyInv
  <2>3. \A d \in arrived \ unsure : text[d] \cap slot.draft = {}  BY <1>2, <2>2 DEF OnceInv
  <2>4. \A d \in arrived \ unsure : text'[d] \cap text'[c] = {}  BY <1>4, <2>1, <2>3
  <2>. QED BY <1>2, <1>4, <1>6, <2>1, <2>3, <2>4 DEF OnceInv
<1>13. NothingTypedIsLost'
  <2>1. \A d \in arrived : text'[d] = text[d]  BY <1>4, <1>7
  <2>2. \A w_ \in typed' : \/ w_ \in slot'.draft
                           \/ \E u \in Thread : Has(u)' /\ w_ \in copy'[u].next.draft
                           \/ \E d \in arrived' : w_ \in text'[d]
    BY <1>3, <1>4, <2>1
  <2>. QED BY <2>2 DEF NothingTypedIsLost, Has
<1>. QED BY <1>8, <1>9, <1>10, <1>11, <1>12, <1>13

\* The dialog: a copy that touches neither the draft nor the spinner.
LEMMA CalmOpens ==
  ASSUME ComposerInv, Calm, CalmInv, Opens
  PROVE  FlightInv' /\ EditInv' /\ FreshInv' /\ TypedInv' /\ OnceInv' /\ NothingTypedIsLost'
<1>1. ComposerTypeOK /\ CopyInv  BY DEF ComposerInv
<1>2. FlightInv /\ EditInv /\ FreshInv /\ TypedInv /\ OnceInv  BY DEF CalmInv
<1>3. \A w_ \in typed : \/ w_ \in slot.draft
                        \/ \E u \in Thread : Has(u) /\ w_ \in copy[u].next.draft
                        \/ \E d \in arrived : w_ \in text[d]
  BY DEF CalmInv, NothingTypedIsLost, Calm, Has
<1>4. /\ ~Has(UI) /\ Has(UI)' /\ copy'[UI].was = slot /\ copy'[UI].next.draft = slot.draft
      /\ \A u \in Thread : u # UI => copy'[u] = copy[u] /\ (Has(u)' <=> Has(u))
      /\ UNCHANGED <<slot, pc, text, typed, arrived, unsure>>
  BY DEF Opens, Copies, Others
<1>5. InFlight' = InFlight  BY <1>4 DEF InFlight
<1>6. FlightInv'
  <2>1. \A c \in Send : pc[c] # "tapped"  BY <1>1, <1>4 DEF CopyInv
  <2>2. \A c \in Send : copy'[c] = copy[c]  BY <1>4, Threads
  <2>. QED BY <1>2, <1>4, <1>5, <2>1, <2>2 DEF FlightInv
<1>7. EditInv'  BY <1>2, <1>4, Threads DEF EditInv
<1>8. FreshInv'
  <2>1. Fresh(UI)' = {} /\ Fresh(HostEvents)' = Fresh(HostEvents)  BY <1>4, Threads DEF Fresh
  <2>. QED BY <1>2, <1>4, <2>1, Threads DEF FreshInv
<1>9. TypedInv'
  <2>1. \A u \in Thread : Has(u)' => copy'[u].was.draft \subseteq typed' /\ copy'[u].next.draft \subseteq typed'
    BY <1>2, <1>4 DEF TypedInv
  <2>. QED BY <1>2, <1>4, <2>1 DEF TypedInv
<1>10. OnceInv'  BY <1>2, <1>4, <1>5 DEF OnceInv
<1>11. NothingTypedIsLost'
  <2>1. \A w_ \in typed' : \/ w_ \in slot'.draft
                           \/ \E u \in Thread : Has(u)' /\ w_ \in copy'[u].next.draft
                           \/ \E d \in arrived' : w_ \in text'[d]
    BY <1>3, <1>4
  <2>. QED BY <2>1 DEF NothingTypedIsLost, Has
<1>. QED BY <1>6, <1>7, <1>8, <1>9, <1>10, <1>11

\* A text reaches the pane: it was in no other text that has.
LEMMA CalmLands ==
  ASSUME ComposerInv, Calm, CalmInv, NEW c \in Send, Lands(c)
  PROVE  FlightInv' /\ EditInv' /\ FreshInv' /\ TypedInv' /\ OnceInv' /\ NothingTypedIsLost'
<1>1. ComposerTypeOK /\ CopyInv  BY DEF ComposerInv
<1>2. FlightInv /\ EditInv /\ FreshInv /\ TypedInv /\ OnceInv  BY DEF CalmInv
<1>3. \A w_ \in typed : \/ w_ \in slot.draft
                        \/ \E u \in Thread : Has(u) /\ w_ \in copy[u].next.draft
                        \/ \E d \in arrived : w_ \in text[d]
  BY DEF CalmInv, NothingTypedIsLost, Calm, Has
<1>4. /\ pc[c] = "invoke" /\ arrived' = arrived \cup {c}
      /\ \A d \in Send : pc'[d] = IF d = c THEN "typed" ELSE pc[d]
      /\ UNCHANGED <<slot, copy, text, typed, unsure>>
  BY DEF Lands
<1>5. InFlight' = InFlight /\ c \in InFlight  BY <1>4 DEF InFlight
<1>6. (\A u : Has(u)' <=> Has(u)) /\ (\A u : Fresh(u)' = Fresh(u))  BY <1>4 DEF Has, Fresh
<1>7. FlightInv'
  <2>1. \A d \in Send : pc'[d] = "tapped" <=> pc[d] = "tapped"  BY <1>4
  <2>2. \A d \in Send : pc'[d] \in {"invoke", "typed", "storing"} <=> pc[d] \in {"invoke", "typed", "storing"}
    BY <1>4
  <2>3. \A d \in Send : pc'[d] = "typed" => d \in arrived'  BY <1>2, <1>4 DEF FlightInv
  <2>4. \A d \in Send : pc'[d] = "storing" => pc[d] = "storing" /\ d # c  BY <1>4
  <2>5. \A d \in Send : pc'[d] = "storing" =>
          /\ copy'[d].was.draft = text'[d]
          /\ copy'[d].next.draft = text'[d] \/ (copy'[d].next.draft = {} /\ d \in arrived')
          /\ d \in arrived' \ unsure' => copy'[d].next.draft = {}
    BY <1>2, <1>4, <2>4 DEF FlightInv
  <2>. QED BY <1>2, <1>4, <1>5, <2>1, <2>2, <2>3, <2>5 DEF FlightInv
<1>8. EditInv'  BY <1>2, <1>4, <1>5, <1>6 DEF EditInv
<1>9. FreshInv'  BY <1>2, <1>4, <1>6 DEF FreshInv
<1>10. TypedInv'  BY <1>2, <1>4, <1>6 DEF TypedInv
<1>11. OnceInv'
  <2>1. \A d \in arrived' \ unsure' : pc'[d] = "returned" => text'[d] \cap slot'.draft = {}
    BY <1>1, <1>2, <1>4 DEF OnceInv, ComposerTypeOK
  <2>2. \A d \in arrived', e \in arrived' \cup InFlight' :
          d = e \/ d \in unsure' \/ e \in unsure' \/ text'[d] \cap text'[e] = {}
    BY <1>2, <1>4, <1>5 DEF OnceInv, FlightInv
  <2>. QED BY <2>1, <2>2 DEF OnceInv
<1>12. NothingTypedIsLost'
  <2>1. \A w_ \in typed' : \/ w_ \in slot'.draft
                           \/ \E u \in Thread : Has(u)' /\ w_ \in copy'[u].next.draft
                           \/ \E d \in arrived' : w_ \in text'[d]
    BY <1>3, <1>4, <1>6
  <2>. QED BY <2>1 DEF NothingTypedIsLost, Has
<1>. QED BY <1>7, <1>8, <1>9, <1>10, <1>11, <1>12

\* A send ends: the slot has its text still, which its copy empties only if it
\* was delivered.
LEMMA CalmEnds ==
  ASSUME ComposerInv, Calm, CalmInv, NEW c \in Send, Ends(c)
  PROVE  FlightInv' /\ EditInv' /\ FreshInv' /\ TypedInv' /\ OnceInv' /\ NothingTypedIsLost'
<1>1. ComposerTypeOK /\ CopyInv  BY DEF ComposerInv
<1>2. FlightInv /\ EditInv /\ FreshInv /\ TypedInv /\ OnceInv  BY DEF CalmInv
<1>3. \A w_ \in typed : \/ w_ \in slot.draft
                        \/ \E u \in Thread : Has(u) /\ w_ \in copy[u].next.draft
                        \/ \E d \in arrived : w_ \in text[d]
  BY DEF CalmInv, NothingTypedIsLost, Calm, Has
<1>4. /\ pc[c] \in {"invoke", "typed"}
      /\ ~Has(c) /\ Has(c)' /\ copy'[c].was = slot /\ slot' = slot
      /\ copy'[c].next.draft = slot.draft \/ (copy'[c].next.draft = {} /\ pc[c] = "typed")
      /\ c \in arrived \ unsure' /\ pc[c] = "typed" => copy'[c].next.draft = {}
      /\ \A u \in Thread : u # c => copy'[u] = copy[u] /\ (Has(u)' <=> Has(u))
      /\ \A d \in Send : pc'[d] = IF d = c THEN "storing" ELSE pc[d]
      /\ UNCHANGED <<text, typed, arrived>> /\ unsure \subseteq unsure'
      /\ \A d \in Send : d # c => (d \in unsure' <=> d \in unsure)
  BY DEF Ends, Copies, Others
<1>5. InFlight' = InFlight  BY <1>4 DEF InFlight
<1>6. slot.busy /\ slot.draft = text[c] /\ (pc[c] = "typed" => c \in arrived) /\ (pc[c] = "invoke" => c \notin arrived)
  BY <1>1, <1>2, <1>4 DEF FlightInv, CopyInv
<1>7. FlightInv'
  <2>1. \A d \in Send : pc'[d] = "tapped" => pc[d] = "tapped" /\ copy'[UI] = copy[UI]
    BY <1>4, Threads
  <2>2. \A d \in Send : pc'[d] \in {"invoke", "typed", "storing"} <=> pc[d] \in {"invoke", "typed", "storing"}
    BY <1>4
  <2>3. \A d \in Send : pc'[d] = "typed" => d \in arrived'  BY <1>2, <1>4 DEF FlightInv
  <2>4. ASSUME NEW d \in Send, pc'[d] = "storing"
        PROVE  /\ copy'[d].was.draft = text'[d]
               /\ copy'[d].next.draft = text'[d] \/ (copy'[d].next.draft = {} /\ d \in arrived')
               /\ d \in arrived' \ unsure' => copy'[d].next.draft = {}
    <3>1. CASE d = c  BY <1>4, <1>6, <3>1
    <3>2. CASE d # c  BY <1>2, <1>4, <2>4, <3>2, Threads DEF FlightInv
    <3>. QED BY <3>1, <3>2
  <2>5. \A d \in Send : pc'[d] = "tapped" =>
          /\ copy'[UI].next.busy /\ ~copy'[UI].was.busy
          /\ copy'[UI].was.draft = text'[d] /\ copy'[UI].next.draft = text'[d]
    BY <1>2, <1>4, <2>1 DEF FlightInv
  <2>6. \A d \in Send : pc'[d] \in {"invoke", "typed", "storing"} => slot'.busy /\ slot'.draft = text'[d]
    BY <1>2, <1>4, <2>2 DEF FlightInv
  <2>7. \A d, e \in InFlight' : d = e  BY <1>2, <1>5 DEF FlightInv
  <2>. QED BY <2>3, <2>4, <2>5, <2>6, <2>7 DEF FlightInv
<1>8. EditInv'  BY <1>2, <1>4, <1>5, Threads DEF EditInv
<1>9. FreshInv'
  <2>1. Fresh(UI)' = Fresh(UI) /\ Fresh(HostEvents)' = Fresh(HostEvents)  BY <1>4, Threads DEF Fresh
  <2>. QED BY <1>2, <1>4, <2>1, Threads DEF FreshInv
<1>10. TypedInv'
  <2>1. \A u \in Thread : Has(u)' => copy'[u].was.draft \subseteq typed' /\ copy'[u].next.draft \subseteq typed'
    BY <1>2, <1>4 DEF TypedInv
  <2>. QED BY <1>2, <1>4, <2>1 DEF TypedInv
<1>11. OnceInv'
  <2>1. \A d \in arrived' \ unsure' : pc'[d] = "returned" => text'[d] \cap slot'.draft = {}
    BY <1>1, <1>2, <1>4 DEF OnceInv, ComposerTypeOK
  <2>2. \A d \in arrived', e \in arrived' \cup InFlight' :
          d = e \/ d \in unsure' \/ e \in unsure' \/ text'[d] \cap text'[e] = {}
    BY <1>2, <1>4, <1>5 DEF OnceInv
  <2>. QED BY <2>1, <2>2 DEF OnceInv
<1>12. NothingTypedIsLost'
  <2>1. \A w_ \in typed' : \/ w_ \in slot'.draft
                           \/ \E u \in Thread : Has(u)' /\ w_ \in copy'[u].next.draft
                           \/ \E d \in arrived' : w_ \in text'[d]
    BY <1>3, <1>4
  <2>. QED BY <2>1 DEF NothingTypedIsLost, Has
<1>. QED BY <1>7, <1>8, <1>9, <1>10, <1>11, <1>12

\* A store of a copy of the slot as it is.  A send's own empties the draft of
\* what the desk has; an edit's adds what is new; the taps' start their send.
LEMMA CalmStores ==
  ASSUME ComposerInv, Calm, CalmInv, NEW t \in Thread, Stores(t)
  PROVE  FlightInv' /\ EditInv' /\ FreshInv' /\ TypedInv' /\ OnceInv' /\ NothingTypedIsLost'
<1>1. ComposerTypeOK /\ CopyInv /\ TapCopyInv  BY DEF ComposerInv
<1>2. FlightInv /\ EditInv /\ FreshInv /\ TypedInv /\ OnceInv  BY DEF CalmInv
<1>3. \A w_ \in typed : \/ w_ \in slot.draft
                        \/ \E u \in Thread : Has(u) /\ w_ \in copy[u].next.draft
                        \/ \E d \in arrived : w_ \in text[d]
  BY DEF CalmInv, NothingTypedIsLost, Calm, Has
<1>4. /\ Has(t) /\ slot = copy[t].was /\ slot' = copy[t].next /\ ~Has(t)'
      /\ \A u \in Thread : u # t => copy'[u] = copy[u] /\ (Has(u)' <=> Has(u))
      /\ \A c \in Send : pc'[c] = IF t = UI /\ pc[c] = "tapped" THEN "invoke"
                                  ELSE IF t = c THEN "returned" ELSE pc[c]
      /\ UNCHANGED <<text, typed, arrived, unsure>>
  BY DEF Stores, Others
<1>5. t \in Send => pc[t] = "storing"  BY <1>1, <1>4 DEF CopyInv
<1>6. \A c \in Send : c \in InFlight' => c \in InFlight  BY <1>4, <1>5 DEF InFlight
<1>7. InFlight' \subseteq InFlight /\ (InFlight = {} => InFlight' = {})  BY <1>6 DEF InFlight
<1>8. \A u \in Thread : u # t => Fresh(u)' = Fresh(u)  BY <1>4 DEF Fresh
\* What the draft becomes.
<1>9. t \in {UI, HostEvents} => slot.draft \subseteq slot'.draft /\ slot'.draft \ slot.draft = Fresh(t)
  BY <1>2, <1>4 DEF EditInv, Fresh
<1>10. t \in Send => /\ slot.draft = text[t]
                     /\ slot'.draft = slot.draft \/ (slot'.draft = {} /\ t \in arrived)
                     /\ t \in arrived \ unsure => slot'.draft = {}
  BY <1>2, <1>4, <1>5 DEF FlightInv
<1>11. FlightInv'
  <2>1. \A c, d \in InFlight' : c = d  BY <1>2, <1>7 DEF FlightInv
  <2>2. ASSUME NEW c \in Send, pc'[c] = "tapped"
        PROVE  /\ copy'[UI].next.busy /\ ~copy'[UI].was.busy
               /\ copy'[UI].was.draft = text'[c] /\ copy'[UI].next.draft = text'[c]
    <3>1. t # UI /\ pc[c] = "tapped"  BY <1>4, <2>2
    <3>2. copy'[UI] = copy[UI]  BY <1>4, <3>1, Threads
    <3>. QED BY <1>2, <1>4, <3>1, <3>2 DEF FlightInv
  <2>3. ASSUME NEW c \in Send, pc'[c] \in {"invoke", "typed", "storing"}
        PROVE  slot'.busy /\ slot'.draft = text'[c]
    <3>1. CASE pc[c] = "tapped"
      <4>1. t = UI  BY <1>4, <2>3, <3>1
      <4>. QED BY <1>2, <1>4, <3>1, <4>1 DEF FlightInv
    <3>2. CASE pc[c] # "tapped"
      <4>1. t # c /\ pc[c] = pc'[c] /\ slot.busy /\ slot.draft = text[c] /\ c \in InFlight
        BY <1>2, <1>4, <2>3, <3>2 DEF FlightInv, InFlight
      <4>2. t \notin Send
        BY <1>2, <1>5, <4>1 DEF FlightInv, InFlight
      <4>3. t = UI
        BY <1>2, <1>4, <4>1, <4>2, Threads DEF EditInv
      <4>4. slot'.busy  BY <1>1, <1>4, <4>1, <4>3 DEF TapCopyInv, ComposerTypeOK, PaneView
      <4>5. slot'.draft = slot.draft  BY <1>2, <1>4, <4>1, <4>3 DEF EditInv
      <4>. QED BY <1>4, <4>1, <4>4, <4>5
    <3>. QED BY <3>1, <3>2
  <2>4. \A c \in Send : pc'[c] = "typed" => c \in arrived'  BY <1>2, <1>4 DEF FlightInv
  <2>5. ASSUME NEW c \in Send, pc'[c] = "storing"
        PROVE  /\ copy'[c].was.draft = text'[c]
               /\ copy'[c].next.draft = text'[c] \/ (copy'[c].next.draft = {} /\ c \in arrived')
               /\ c \in arrived' \ unsure' => copy'[c].next.draft = {}
    <3>1. c # t /\ pc[c] = "storing"  BY <1>4, <2>5
    <3>2. copy'[c] = copy[c]  BY <1>4, <3>1, Threads
    <3>. QED BY <1>2, <1>4, <3>1, <3>2 DEF FlightInv
  <2>. QED BY <2>1, <2>2, <2>3, <2>4, <2>5 DEF FlightInv
<1>12. EditInv'  BY <1>2, <1>4, <1>7, Threads DEF EditInv
<1>13. FreshInv'
  <2>1. ASSUME NEW u \in {UI, HostEvents}, Has(u)'
        PROVE  /\ Fresh(u)' \cap slot'.draft = {}
               /\ \A c \in Send : Fresh(u)' \cap text'[c] = {}
    <3>1. u # t /\ u \in Thread /\ Has(u)  BY <1>4, <2>1, Threads
    <3>2. Fresh(u)' = Fresh(u)  BY <1>8, <3>1
    <3>3. Fresh(u) \cap slot.draft = {} /\ \A c \in Send : Fresh(u) \cap text[c] = {}
      BY <1>2, <3>1 DEF FreshInv
    <3>4. CASE t \in {UI, HostEvents}
      <4>1. Fresh(u) \cap Fresh(t) = {}
        BY <1>2, <1>4, <2>1, <3>1, <3>4 DEF FreshInv
      <4>2. slot'.draft \subseteq slot.draft \cup Fresh(t)  BY <1>9, <3>4
      <4>. QED BY <1>4, <3>2, <3>3, <4>1, <4>2
    <3>5. CASE t \in Send  BY <1>4, <1>10, <3>2, <3>3, <3>5
    <3>. QED BY <3>4, <3>5, Threads
  <2>2. Has(UI)' /\ Has(HostEvents)' => Fresh(UI)' \cap Fresh(HostEvents)' = {}
    BY <1>2, <1>4, <1>8, Threads DEF FreshInv
  <2>. QED BY <2>1, <2>2 DEF FreshInv
<1>14. TypedInv'
  <2>1. \A u \in Thread : Has(u)' => copy'[u].was.draft \subseteq typed' /\ copy'[u].next.draft \subseteq typed'
    BY <1>2, <1>4 DEF TypedInv
  <2>2. slot'.draft \subseteq typed'  BY <1>2, <1>4 DEF TypedInv
  <2>. QED BY <1>2, <1>4, <2>1, <2>2 DEF TypedInv
<1>15. OnceInv'
  <2>1. ASSUME NEW c \in arrived \ unsure, pc'[c] = "returned" PROVE text[c] \cap slot'.draft = {}
    <3>1. CASE t = c
      <4>1. t \in Send /\ t \in arrived \ unsure  BY <1>1, <2>1, <3>1 DEF ComposerTypeOK
      <4>. QED BY <1>10, <4>1
    <3>2. CASE t # c
      <4>1. c \in Send /\ pc[c] = "returned"
        BY <1>1, <1>4, <2>1, <3>2 DEF ComposerTypeOK
      <4>2. text[c] \cap slot.draft = {}  BY <1>2, <2>1, <4>1 DEF OnceInv
      <4>3. CASE t \in {UI, HostEvents}
        <5>1. text[c] \cap Fresh(t) = {}  BY <1>2, <1>4, <4>1, <4>3 DEF FreshInv
        <5>. QED BY <1>9, <4>2, <4>3, <5>1
      <4>4. CASE t \in Send  BY <1>10, <4>2, <4>4
      <4>. QED BY <4>3, <4>4, Threads
    <3>3. c \in Send  BY <1>1, <2>1 DEF ComposerTypeOK
    <3>. QED BY <1>10, <2>1, <3>1, <3>2, <3>3
  <2>2. \A c \in arrived', d \in arrived' \cup InFlight' :
          c = d \/ c \in unsure' \/ d \in unsure' \/ text'[c] \cap text'[d] = {}
    BY <1>2, <1>4, <1>7 DEF OnceInv
  <2>. QED BY <1>4, <2>1, <2>2 DEF OnceInv
<1>16. NothingTypedIsLost'
  <2>1. ASSUME NEW w_ \in typed
        PROVE  \/ w_ \in slot'.draft
               \/ \E u \in Thread : Has(u)' /\ w_ \in copy'[u].next.draft
               \/ \E d \in arrived : w_ \in text[d]
    <3>1. CASE w_ \in slot.draft  BY <1>9, <1>10, <3>1, Threads
    <3>2. CASE \E u \in Thread : Has(u) /\ w_ \in copy[u].next.draft
      BY <1>4, <3>2
    <3>. QED BY <1>3, <3>1, <3>2
  <2>2. \A w_ \in typed' : \/ w_ \in slot'.draft
                           \/ \E u \in Thread : Has(u)' /\ w_ \in copy'[u].next.draft
                           \/ \E d \in arrived' : w_ \in text'[d]
    BY <1>4, <2>1
  <2>. QED BY <2>2 DEF NothingTypedIsLost, Has
<1>. QED BY <1>11, <1>12, <1>13, <1>14, <1>15, <1>16

-----------------------------------------------------------------------------
(* The composer: the theorems.                                             *)

\* An empty slot, no copy and no send: the invariant holds at the start.
LEMMA ComposerInvInit == ComposerInit => ComposerInv
<1>1. ASSUME ComposerInit PROVE ComposerInv
  <2>1. ComposerTypeOK  BY <1>1, ComposerTypeInit
  <2>2. /\ slot = [draft |-> {}, busy |-> FALSE, confirm |-> FALSE]
        /\ ~slot.busy /\ ~slot.confirm /\ slot.draft = {} /\ ~wanted
        /\ \A t \in Thread : ~Has(t)
        /\ \A c \in Send : pc[c] = "idle" /\ text[c] = {}
        /\ typed = {} /\ arrived = {} /\ unsure = {}
    BY <1>1 DEF ComposerInit, Has
  <2>3. InFlight = {}  BY <2>2 DEF InFlight
  <2>4. CopyInv  BY <2>2, Threads DEF CopyInv
  <2>5. TapCopyInv  BY <2>2, Threads DEF TapCopyInv
  <2>6. SlotTellsTheTruth  BY <2>2 DEF SlotTellsTheTruth
  <2>7. FlightInv  BY <2>2, <2>3 DEF FlightInv
  <2>8. EditInv /\ FreshInv  BY <2>2, Threads DEF EditInv, FreshInv
  <2>9. TypedInv /\ OnceInv /\ NothingTypedIsLost
    BY <2>2, <2>3 DEF TypedInv, OnceInv, NothingTypedIsLost
  <2>. QED BY <2>1, <2>4, <2>5, <2>6, <2>7, <2>8, <2>9 DEF ComposerInv, CalmInv
<1>. QED BY <1>1

\* A step that leaves the composer alone keeps it.
LEMMA ComposerInvStutter == ComposerInv /\ UNCHANGED composerVars => ComposerInv'
<1>1. SUFFICES ASSUME ComposerInv, UNCHANGED composerVars PROVE ComposerInv'
  OBVIOUS
<1>2. UNCHANGED <<slot, drawn, field, copy, pc, text, asking, typed, arrived, unsure, clobbered, wanted, hasty>>
  BY <1>1 DEF composerVars, slotVars, sendVars, histVars
<1>3. /\ InFlight' = InFlight
      /\ (\A t : Has(t)' <=> Has(t)) /\ (\A t : Fresh(t)' = Fresh(t))
      /\ (Calm' <=> Calm)
  BY <1>2 DEF InFlight, Has, Fresh, Calm
<1>4. ComposerTypeOK'  BY <1>1, <1>2 DEF ComposerInv, ComposerTypeOK
<1>5. CopyInv' /\ TapCopyInv'  BY <1>1, <1>2, <1>3 DEF ComposerInv, CopyInv, TapCopyInv
<1>6. SlotTellsTheTruth'  BY <1>1, <1>2, <1>3 DEF ComposerInv, SlotTellsTheTruth, Pending
<1>7. Calm => FlightInv' /\ EditInv'
  BY <1>1, <1>2, <1>3 DEF ComposerInv, CalmInv, FlightInv, EditInv
<1>8. Calm => FreshInv' /\ TypedInv'
  BY <1>1, <1>2, <1>3 DEF ComposerInv, CalmInv, FreshInv, TypedInv
<1>9. Calm => OnceInv' /\ NothingTypedIsLost'
  BY <1>1, <1>2, <1>3 DEF ComposerInv, CalmInv, OnceInv, NothingTypedIsLost
<1>. QED BY <1>3, <1>4, <1>5, <1>6, <1>7, <1>8, <1>9 DEF ComposerInv, CalmInv

\* Every step keeps it.
LEMMA ComposerInvStep == ComposerInv /\ ComposerNext => ComposerInv'
<1>1. SUFFICES ASSUME ComposerInv, ComposerNext PROVE ComposerInv'
  OBVIOUS
<1>2. ASSUME Calm' PROVE CalmInv'
  <2>1. Calm /\ CalmInv  BY <1>1, <1>2, CalmBefore
  <2>2. ASSUME Rests PROVE FlightInv' /\ EditInv' /\ FreshInv' /\ TypedInv' /\ OnceInv' /\ NothingTypedIsLost'
    <3>1. UNCHANGED <<slot, copy, pc, text, typed, arrived, unsure>>  BY <2>2 DEF Rests
    <3>2. InFlight' = InFlight /\ (\A t : Has(t)' <=> Has(t)) /\ (\A t : Fresh(t)' = Fresh(t))
      BY <3>1 DEF InFlight, Has, Fresh
    <3>3. FlightInv' /\ EditInv'  BY <2>1, <3>1, <3>2 DEF CalmInv, FlightInv, EditInv
    <3>4. FreshInv' /\ TypedInv'  BY <2>1, <3>1, <3>2 DEF CalmInv, FreshInv, TypedInv
    <3>5. OnceInv'  BY <2>1, <3>1, <3>2 DEF CalmInv, OnceInv
    <3>6. NothingTypedIsLost'
      BY <1>2, <2>1, <3>1, <3>2 DEF CalmInv, NothingTypedIsLost, Calm
    <3>. QED BY <3>3, <3>4, <3>5, <3>6
  <2>3. FlightInv' /\ EditInv' /\ FreshInv' /\ TypedInv' /\ OnceInv' /\ NothingTypedIsLost'
    BY <1>1, <1>2, <2>1, <2>2, CalmSteps, CalmAdds, CalmSends, CalmOpens, CalmLands, CalmEnds, CalmStores
  <2>. QED BY <2>3 DEF CalmInv
<1>3. ComposerTypeOK'  BY <1>1, ComposerTypeStep DEF ComposerInv
<1>4. CopyInv' /\ TapCopyInv' /\ SlotTellsTheTruth'  BY <1>1, CopyStep, TapCopyStep, TruthStep
<1>. QED BY <1>2, <1>3, <1>4 DEF ComposerInv

\* ComposerInv is an invariant of the screens.
THEOREM ComposerInvariant == Spec => []ComposerInv
<1>1. Init => ComposerInv  BY ComposerInvInit DEF Init
<1>2. ComposerInv /\ [Next]_screensVars => ComposerInv'
  <2>1. [Next]_screensVars => ComposerNext \/ UNCHANGED composerVars
    BY DEF Next, screensVars
  <2>. QED BY <2>1, ComposerInvStep, ComposerInvStutter
<1>. QED BY <1>1, <1>2, PTL DEF Spec

\* SlotTellsTheTruth: the spinner is drawn while a send is out that will end
\* it, and the dialog is open when the person left it open, unless some thread
\* of src/app/pane.go stored its copy over a newer value.
THEOREM SpinnerEnds == Spec => []SlotTellsTheTruth
<1>1. ComposerInv => SlotTellsTheTruth  BY DEF ComposerInv
<1>. QED BY <1>1, ComposerInvariant, PTL

\* EveryWordOnce: what was typed or pasted is in the draft, on its way there or
\* at the desk, and one tap types once, unless a store undid another or the
\* person edited during a send or tapped a screen that was behind.
THEOREM EveryWordGetsThere == Spec => []EveryWordOnce
<1>1. ComposerInv => EveryWordOnce
  BY DEF ComposerInv, CalmInv, Calm, EveryWordOnce, NothingTypedIsLost, TypedOnce, OnceInv
<1>. QED BY <1>1, ComposerInvariant, PTL

-----------------------------------------------------------------------------
(* The pair screen: the inductive invariant.                               *)

\* The thread is between its copy of the form and its store.
Holds(t) == formCopy[t] # NoCopy

\* A goroutine's copy is its last word, the tap on Pair holds one, and a login
\* that is out has a grant.
StageInv ==
    /\ \A l \in Login : Holds(l) <=> stage[l] = "storing"
    /\ \A l \in Login : Holds(l) => ~formCopy[l].next.busy
    /\ \A l \in Login : stage[l] = "tapped" => Holds(UI)
    /\ \A l \in Login : stage[l] \notin {"idle", "returned"} => grant[l] \in Grants

\* The grant Pair would redeem has been drawn.
ShownInv == GrantFromForm(formDrawn) \in shown \cup {NoGrant}

\* A link on its way to the field came from the OS, to a phone that was not
\* paired, and has not been in the field; there are not two of it.
LinkInv ==
    /\ pendingLink \in came \cup {Blank} /\ claimed \in came \cup {Blank}
    /\ pendingLink # Blank => pendingLink \notin taken \cup late /\ pendingLink # claimed
    /\ claimed # Blank => claimed \notin taken \cup late

\* The assumption of FormTellsTheTruth: no store undid another, and the form
\* was not touched during a login nor from a screen behind it.
Fair == ~overwritten /\ ~crossed

\* One login at a time, and while it is out the form is busy with its grant.
OutInv ==
    /\ \A k, l \in LoginsOut : k = l
    /\ \A l \in Login : stage[l] = "tapped" =>
          /\ formCopy[UI].next.busy /\ formCopy[UI].next.err = NoErr
          /\ GrantFromForm(formCopy[UI].next) = grant[l]
    /\ \A l \in Login : stage[l] \in {"posting", "redeemed", "storing"} =>
          form.busy /\ form.err = NoErr /\ GrantFromForm(form) = grant[l]

\* The copies of the other threads were made of an idle form, only the tap on
\* Pair makes one busy, and the error of each is about its own fields.
TouchInv ==
    /\ \A t \in {UI, HostEvents, RenderLoop} : Holds(t) =>
          /\ ~formCopy[t].was.busy
          /\ formCopy[t].next.busy => t = UI /\ \E l \in Login : stage[l] = "tapped"
    /\ \A t \in PairThread : Holds(t) =>
          formCopy[t].next.err = NoErr \/ formCopy[t].next.err = GrantFromForm(formCopy[t].next)

\* What FormTellsTheTruth says of a fair run.
Truthful ==
    /\ form.busy => LoginsOut # {}
    /\ \A l \in Login : stage[l] \in {"posting", "redeemed"} => form.busy
    /\ form.err # NoErr => form.err = GrantFromForm(form)

\* The inductive invariant of the pair screen.
PairingInv ==
    /\ PairingTypeOK /\ StageInv /\ ShownInv /\ LinkInv /\ LinksInTheOpen
    /\ Fair => OutInv /\ TouchInv /\ Truthful

-----------------------------------------------------------------------------
(* The pair screen: its operators.                                         *)

\* The three shared threads differ and are none of the logins.
LEMMA PairThreads ==
    /\ UI \in PairThread /\ HostEvents \in PairThread /\ RenderLoop \in PairThread
    /\ UI # HostEvents /\ UI # RenderLoop /\ HostEvents # RenderLoop
    /\ Login \subseteq PairThread
    /\ \A l \in Login : l # UI /\ l # HostEvents /\ l # RenderLoop
    /\ \A t \in PairThread : t \in {UI, HostEvents, RenderLoop} \/ t \in Login
  BY SlotAssumption, PairingAssumption DEF PairThread, Login

\* The grant a form makes is that of its fields, whatever else is on it.
LEMMA SameGrant ==
  ASSUME NEW f, NEW g, f.uri = g.uri, f.hand = g.hand
  PROVE  GrantFromForm(f) = GrantFromForm(g)
  BY DEF GrantFromForm

\* What parses as a link makes a grant.
LEMMA LinkGrant ==
  ASSUME NEW x \in Text, IsLink(x) PROVE ParsePairURI(x) \in Grants
<1>1. x \in Address  BY TextAssumption
<1>2. PortOf(x) \in Port  BY DEF IsLink
<1>3. x.host \in STRING /\ x.tls \in BOOLEAN /\ x.pin \in STRING /\ x.token \in STRING
  BY <1>1 DEF Address
<1>. QED BY <1>2, <1>3 DEF ParsePairURI, Grants

\* A form makes a grant or none.
LEMMA FormGrant ==
  ASSUME NEW f, f.uri \in Text \cup {Blank} PROVE GrantFromForm(f) \in Grants \cup {NoGrant}
  BY LinkGrant, FormsAssumption DEF GrantFromForm

\* A pass draws of the form what the buttons act on.
LEMMA ButtonsOf ==
  ASSUME NEW f \in Form
  PROVE  /\ Buttons(f) \in Drawn
         /\ GrantFromForm(Buttons(f)) = GrantFromForm(f)
  BY DEF Buttons, Form, Drawn, GrantFromForm

\* The updates of the pair screen change fields of the form.
LEMMA Filled ==
  ASSUME PairingTypeOK, NEW x \in Text \cup {Blank}
  PROVE  /\ [form EXCEPT !.uri = x, !.err = NoErr] \in Form
         /\ [form EXCEPT !.uri = x, !.err = NoErr].busy = form.busy
         /\ [form EXCEPT !.uri = x, !.err = NoErr].err = NoErr
  BY DEF PairingTypeOK, Form

\* The same, for the other fields and for the two buttons.
LEMMA Marked ==
  ASSUME PairingTypeOK, NEW b \in BOOLEAN
  PROVE  /\ [form EXCEPT !.hand = b, !.err = NoErr] \in Form
         /\ [form EXCEPT !.hand = b, !.err = NoErr].busy = form.busy
         /\ [form EXCEPT !.hand = b, !.err = NoErr].err = NoErr
         /\ [form EXCEPT !.busy = TRUE, !.err = NoErr] \in Form
         /\ [form EXCEPT !.busy = TRUE, !.err = NoErr].busy
         /\ [form EXCEPT !.busy = TRUE, !.err = NoErr].err = NoErr
         /\ GrantFromForm([form EXCEPT !.busy = TRUE, !.err = NoErr]) = GrantFromForm(form)
         /\ [form EXCEPT !.err = NoGrant] \in Form
         /\ [form EXCEPT !.err = NoGrant].busy = form.busy
         /\ [form EXCEPT !.err = NoGrant].err = NoGrant
         /\ GrantFromForm([form EXCEPT !.err = NoGrant]) = GrantFromForm(form)
<1>1. form \in Form  BY DEF PairingTypeOK
<1>. QED BY <1>1 DEF Form, GrantFromForm

\* The same, for the goroutine's two endings.
LEMMA Ended ==
  ASSUME PairingTypeOK, NEW g \in Grants \cup {NoGrant}
  PROVE  /\ [form EXCEPT !.busy = FALSE, !.err = g] \in Form
         /\ ~[form EXCEPT !.busy = FALSE, !.err = g].busy
         /\ [form EXCEPT !.busy = FALSE, !.err = g].err = g
         /\ GrantFromForm([form EXCEPT !.busy = FALSE, !.err = g]) = GrantFromForm(form)
         /\ [form EXCEPT !.busy = FALSE, !.uri = Blank, !.hand = FALSE] \in Form
         /\ ~[form EXCEPT !.busy = FALSE, !.uri = Blank, !.hand = FALSE].busy
         /\ [form EXCEPT !.busy = FALSE, !.uri = Blank, !.hand = FALSE].err = form.err
<1>1. form \in Form  BY DEF PairingTypeOK
<1>. QED BY <1>1 DEF Form, GrantFromForm

\* An update leaves a copy of the form in the thread's own place.
LEMMA FormUpdatesCopy ==
  ASSUME PairingTypeOK, NEW t \in PairThread, NEW next \in Form, FormUpdates(t, next)
  PROVE  /\ ~Holds(t)
         /\ formCopy'[t].was = form /\ formCopy'[t].next = next
         /\ Holds(t)'
         /\ \A u \in PairThread : u # t => formCopy'[u] = formCopy[u] /\ (Holds(u)' <=> Holds(u))
         /\ formCopy' \in [PairThread -> FormCopy \cup {NoCopy}]
<1>1. formCopy \in [PairThread -> FormCopy \cup {NoCopy}] /\ form \in Form  BY DEF PairingTypeOK
<1>2. [was |-> form, next |-> next] \in FormCopy  BY <1>1 DEF FormCopy
<1>3. formCopy[t] = NoCopy /\ formCopy' = [formCopy EXCEPT ![t] = [was |-> form, next |-> next]]
  BY DEF FormUpdates, Copied
<1>4. formCopy'[t] = [was |-> form, next |-> next]  BY <1>1, <1>3
<1>5. \A u \in PairThread : u # t => formCopy'[u] = formCopy[u]  BY <1>1, <1>3
<1>6. formCopy' \in [PairThread -> FormCopy \cup {NoCopy}]  BY <1>1, <1>2, <1>3
<1>7. [was |-> form, next |-> next] # NoCopy  BY <1>2, FormsAssumption
<1>. QED BY <1>3, <1>4, <1>5, <1>6, <1>7 DEF Holds

\* What a store does: the form is the copy's, the copy is gone, the taps' store
\* starts the login it was made for and a goroutine's own is its last step.
LEMMA FormStoreFacts ==
  ASSUME PairingTypeOK, NEW t \in PairThread, FormStore(t)
  PROVE  /\ Holds(t) /\ form' = formCopy[t].next /\ form' \in Form
         /\ ~Holds(t)'
         /\ \A u \in PairThread : u # t => formCopy'[u] = formCopy[u] /\ (Holds(u)' <=> Holds(u))
         /\ formCopy' \in [PairThread -> FormCopy \cup {NoCopy}]
         /\ \A l \in Login : /\ stage'[l] = IF t = UI /\ stage[l] = "tapped" THEN "posting"
                                            ELSE IF t = l THEN "returned" ELSE stage[l]
                             /\ grant'[l] = IF t = l THEN NoGrant ELSE grant[l]
         /\ ~overwritten' => ~overwritten /\ form = formCopy[t].was
         /\ UNCHANGED <<pendingLink, claimed, paired, reading, spent, came, late, taken, crossed>>
<1>1. formCopy \in [PairThread -> FormCopy \cup {NoCopy}]  BY DEF PairingTypeOK
<1>2. Holds(t) /\ form' = formCopy[t].next /\ formCopy' = [formCopy EXCEPT ![t] = NoCopy]
  BY DEF FormStore, Holds, Stored
<1>3. form' \in Form  BY <1>1, <1>2 DEF Holds, FormCopy
<1>4. formCopy'[t] = NoCopy /\ \A u \in PairThread : u # t => formCopy'[u] = formCopy[u]  BY <1>1, <1>2
<1>5. formCopy' \in [PairThread -> FormCopy \cup {NoCopy}]  BY <1>1, <1>2
<1>6. ~overwritten' => ~overwritten /\ form = formCopy[t].was
  BY DEF FormStore, Undoes, PairingTypeOK
<1>7. \A l \in Login : /\ stage'[l] = IF t = UI /\ stage[l] = "tapped" THEN "posting"
                                      ELSE IF t = l THEN "returned" ELSE stage[l]
                       /\ grant'[l] = IF t = l THEN NoGrant ELSE grant[l]
  BY DEF FormStore
<1>. QED BY <1>2, <1>3, <1>4, <1>5, <1>6, <1>7 DEF FormStore, Holds, linkVars

-----------------------------------------------------------------------------
(* The pair screen: the types.                                             *)

\* They hold at the start.
LEMMA PairingTypeInit == PairingInit => PairingTypeOK
<1>1. ASSUME PairingInit PROVE PairingTypeOK
  <2>1. form \in Form  BY <1>1 DEF PairingInit, Form
  <2>2. formDrawn \in Drawn  BY <1>1, <2>1, ButtonsOf DEF PairingInit
  <2>3. formCopy \in [PairThread -> FormCopy \cup {NoCopy}]  BY <1>1 DEF PairingInit
  <2>4. /\ stage \in [Login -> {"idle", "tapped", "posting", "redeemed", "storing", "returned"}]
        /\ grant \in [Login -> Grants \cup {NoGrant}]
    BY <1>1 DEF PairingInit
  <2>. QED BY <1>1, <2>1, <2>2, <2>3, <2>4 DEF PairingInit, PairingTypeOK
<1>. QED BY <1>1

\* What every step of Touches keeps.
LEMMA TouchesType ==
  ASSUME PairingTypeOK, NEW t \in PairThread, NEW next \in Form, Touches(t, next), reading' \in BOOLEAN
  PROVE  PairingTypeOK'
<1>1. formCopy' \in [PairThread -> FormCopy \cup {NoCopy}]  BY FormUpdatesCopy DEF Touches
<1>2. crossed' \in BOOLEAN  BY DEF Touches, PairingTypeOK
<1>. QED BY <1>1, <1>2 DEF Touches, PairingTypeOK, loginVars

\* And every report of a login.
LEMMA ReportsType ==
  ASSUME PairingTypeOK, NEW l \in Login, Reports(l), spent' \in SUBSET Grants
  PROVE  PairingTypeOK'
<1>1. grant[l] \in Grants \cup {NoGrant}  BY DEF PairingTypeOK
<1>2. [form EXCEPT !.busy = FALSE, !.err = grant[l]] \in Form  BY <1>1, Ended
<1>3. formCopy' \in [PairThread -> FormCopy \cup {NoCopy}]
  BY <1>2, FormUpdatesCopy, PairThreads DEF Reports
<1>4. stage' \in [Login -> {"idle", "tapped", "posting", "redeemed", "storing", "returned"}]
  BY DEF Reports, PairingTypeOK
<1>. QED BY <1>3, <1>4 DEF Reports, PairingTypeOK, linkVars

\* Every action keeps them.
LEMMA PairingTypeStep == PairingTypeOK /\ StageInv /\ LinkInv /\ PairingNext => PairingTypeOK'
<1>1. SUFFICES ASSUME PairingTypeOK, StageInv, LinkInv, PairingNext PROVE PairingTypeOK'
  OBVIOUS
<1>2. ASSUME NEW t \in PairThread, FormStore(t) PROVE PairingTypeOK'
  <2>1. form' \in Form /\ formCopy' \in [PairThread -> FormCopy \cup {NoCopy}]
    BY <1>1, <1>2, FormStoreFacts
  <2>2. /\ stage' \in [Login -> {"idle", "tapped", "posting", "redeemed", "storing", "returned"}]
        /\ grant' \in [Login -> Grants \cup {NoGrant}]
    BY <1>1, <1>2 DEF FormStore, PairingTypeOK
  <2>3. overwritten' \in BOOLEAN  BY <1>1, <1>2 DEF FormStore, PairingTypeOK, Undoes
  <2>4. formDrawn' \in Drawn /\ shown' \in SUBSET Grants
    <3>1. CASE t = RenderLoop
      <4>1. formDrawn' = Buttons(form') /\ shown' = shown \cup ({GrantFromForm(form')} \ {NoGrant})
        BY <1>2, <3>1 DEF FormStore, Draws
      <4>2. Buttons(form') \in Drawn  BY <2>1, ButtonsOf
      <4>3. GrantFromForm(form') \in Grants \cup {NoGrant}  BY <2>1, FormGrant DEF Form
      <4>. QED BY <1>1, <4>1, <4>2, <4>3 DEF PairingTypeOK
    <3>2. CASE t # RenderLoop
      BY <1>1, <1>2, <3>2 DEF FormStore, PairingTypeOK
    <3>. QED BY <3>1, <3>2
  <2>. QED BY <1>1, <1>2, <2>1, <2>2, <2>3, <2>4 DEF FormStore, PairingTypeOK, linkVars
<1>3. ASSUME TakeLink PROVE PairingTypeOK'
  <2>1. [form EXCEPT !.uri = pendingLink, !.err = NoErr] \in Form
    BY <1>1, Filled DEF PairingTypeOK
  <2>2. formCopy' \in [PairThread -> FormCopy \cup {NoCopy}]
    BY <1>1, <1>3, <2>1, FormUpdatesCopy, PairThreads DEF TakeLink
  <2>3. pendingLink' \in Text \cup {Blank} /\ crossed' \in BOOLEAN
    BY <1>1, <1>3 DEF TakeLink, Drained, PairingTypeOK
  <2>4. taken' \in SUBSET came'
    <3>1. pendingLink \in came  BY <1>1, <1>3 DEF TakeLink, LinkInv
    <3>. QED BY <1>1, <1>3, <3>1 DEF TakeLink, PairingTypeOK
  <2>. QED BY <1>1, <1>3, <2>2, <2>3, <2>4 DEF TakeLink, PairingTypeOK, loginVars
<1>4. ASSUME DrawForm PROVE PairingTypeOK'
  <2>1. Buttons(form) \in Drawn /\ GrantFromForm(form) \in Grants \cup {NoGrant}
    BY <1>1, ButtonsOf, FormGrant DEF PairingTypeOK, Form
  <2>. QED BY <1>1, <1>4, <2>1 DEF DrawForm, Draws, PairingTypeOK, linkVars, loginVars
<1>5. ASSUME NEW x \in Text, EditLink(x) PROVE PairingTypeOK'
  BY <1>1, <1>5, Filled, TouchesType, PairThreads DEF EditLink, PairingTypeOK
<1>6. ASSUME NEW x \in Text, ReceiveDeepLink(x) PROVE PairingTypeOK'
  BY <1>1, <1>6 DEF ReceiveDeepLink, PairingTypeOK, formVars, loginVars
<1>7. ASSUME NEW done \in BOOLEAN, EditFields(done) PROVE PairingTypeOK'
  BY <1>1, <1>7, Marked, TouchesType, PairThreads DEF EditFields, PairingTypeOK
<1>8. ASSUME TapPasteLink PROVE PairingTypeOK'
  BY <1>1, <1>8 DEF TapPasteLink, PairingTypeOK, formVars, loginVars, pairHist
<1>9. ASSUME PasteAnswers PROVE PairingTypeOK'
  <2>1. ASSUME NEW x \in Text, Touches(HostEvents, [form EXCEPT !.uri = x, !.err = NoErr])
        PROVE  PairingTypeOK'
    BY <1>1, <1>9, <2>1, Filled, TouchesType, PairThreads DEF PasteAnswers
  <2>2. CASE UNCHANGED <<formVars, pendingLink, claimed, paired, loginVars, pairHist>>
    BY <1>1, <1>9, <2>2 DEF PasteAnswers, PairingTypeOK, formVars, loginVars, pairHist
  <2>. QED BY <1>9, <2>1, <2>2 DEF PasteAnswers
<1>10. ASSUME ParkLink \/ Forget PROVE PairingTypeOK'
  BY <1>1, <1>10 DEF ParkLink, Forget, PairingTypeOK, formVars, loginVars, pairHist
<1>11. ASSUME NEW l \in Login, TapPair(l) PROVE PairingTypeOK'
  <2>. DEFINE g == GrantFromForm(Pressed)
  <2>1. g \in Grants \cup {NoGrant}  BY <1>1, FormGrant DEF Pressed, PairingTypeOK, Drawn
  <2>2. [form EXCEPT !.err = NoGrant] \in Form /\ [form EXCEPT !.busy = TRUE, !.err = NoErr] \in Form
    BY <1>1, Marked
  <2>3. formCopy' \in [PairThread -> FormCopy \cup {NoCopy}]
    BY <1>1, <1>11, <2>2, FormUpdatesCopy, PairThreads DEF TapPair
  <2>4. /\ stage' \in [Login -> {"idle", "tapped", "posting", "redeemed", "storing", "returned"}]
        /\ grant' \in [Login -> Grants \cup {NoGrant}]
    BY <1>1, <1>11, <2>1 DEF TapPair, PairingTypeOK
  <2>5. crossed' \in BOOLEAN  BY <1>1, <1>11 DEF TapPair, PairingTypeOK
  <2>. QED BY <1>1, <1>11, <2>3, <2>4, <2>5 DEF TapPair, PairingTypeOK, linkVars
<1>12. ASSUME NEW l \in Login, stage[l] \in {"posting", "redeemed"} PROVE grant[l] \in Grants
  BY <1>1, <1>12 DEF StageInv
<1>13. ASSUME NEW l \in Login, Login401(l) \/ LoginFails(l) \/ SaveFails(l) PROVE PairingTypeOK'
  <2>1. grant[l] \in Grants  BY <1>12, <1>13 DEF Login401, LoginFails, SaveFails
  <2>2. Reports(l) /\ spent' \in SUBSET Grants
    BY <1>1, <1>13, <2>1 DEF Login401, LoginFails, SaveFails, PairingTypeOK
  <2>. QED BY <1>1, <2>2, ReportsType
<1>14. ASSUME NEW l \in Login, LoginSucceeds(l) PROVE PairingTypeOK'
  <2>1. grant[l] \in Grants  BY <1>12, <1>14 DEF LoginSucceeds
  <2>. QED BY <1>1, <1>14, <2>1 DEF LoginSucceeds, PairingTypeOK, formVars, linkVars, pairHist
<1>15. ASSUME NEW l \in Login, SavePairing(l) PROVE PairingTypeOK'
  <2>1. [form EXCEPT !.busy = FALSE, !.uri = Blank, !.hand = FALSE] \in Form
    BY <1>1, Ended, FormsAssumption
  <2>2. formCopy' \in [PairThread -> FormCopy \cup {NoCopy}]
    BY <1>1, <1>15, <2>1, FormUpdatesCopy, PairThreads DEF SavePairing
  <2>3. stage' \in [Login -> {"idle", "tapped", "posting", "redeemed", "storing", "returned"}]
    BY <1>1, <1>15 DEF SavePairing, PairingTypeOK
  <2>. QED BY <1>1, <1>15, <2>2, <2>3 DEF SavePairing, PairingTypeOK
<1>. QED BY <1>1, <1>2, <1>3, <1>4, <1>5, <1>6, <1>7, <1>8, <1>9, <1>10, <1>11, <1>13, <1>14, <1>15
     DEF PairingNext

-----------------------------------------------------------------------------
(* The pair screen: links, and what Pair redeems.                          *)

\* A link on its way stays apart from the ones that have been in the field.
LEMMA LinkStep == PairingTypeOK /\ LinkInv /\ PairingNext => LinkInv' /\ (taken \cap late = {} => taken' \cap late' = {})
<1>1. SUFFICES ASSUME PairingTypeOK, LinkInv, PairingNext
               PROVE  LinkInv' /\ (taken \cap late = {} => taken' \cap late' = {})
  OBVIOUS
<1>2. ASSUME UNCHANGED <<pendingLink, claimed, came, late, taken>>
      PROVE  LinkInv' /\ (taken \cap late = {} => taken' \cap late' = {})
  BY <1>1, <1>2 DEF LinkInv
<1>3. CASE TakeLink
  BY <1>1, <1>3 DEF TakeLink, Drained, LinkInv, PairingTypeOK
<1>4. CASE \E x \in Text : ReceiveDeepLink(x)
  BY <1>1, <1>4 DEF ReceiveDeepLink, Claims, LinkInv, PairingTypeOK
<1>5. CASE ParkLink
  BY <1>1, <1>5 DEF ParkLink, LinkInv, PairingTypeOK, pairHist
<1>6. \/ TakeLink \/ (\E x \in Text : ReceiveDeepLink(x)) \/ ParkLink
      \/ UNCHANGED <<pendingLink, claimed, came, late, taken>>
  BY <1>1 DEF PairingNext, FormStore, DrawForm, EditLink, EditFields, TapPasteLink, PasteAnswers, Touches,
              Forget, TapPair, Login401, LoginFails, LoginSucceeds, SaveFails, SavePairing, Reports,
              linkVars, pairHist
<1>. QED BY <1>2, <1>3, <1>4, <1>5, <1>6

\* Whatever is drawn is shown, and a tap on Pair redeems what is drawn.
LEMMA ShownStep ==
  PairingTypeOK /\ ShownInv /\ RedeemsWhatWasShown /\ PairingNext => ShownInv' /\ RedeemsWhatWasShown'
<1>1. SUFFICES ASSUME PairingTypeOK, ShownInv, RedeemsWhatWasShown, PairingNext
               PROVE  ShownInv' /\ RedeemsWhatWasShown'
  OBVIOUS
<1>2. ASSUME UNCHANGED <<formDrawn, shown, grant>> PROVE ShownInv' /\ RedeemsWhatWasShown'
  BY <1>1, <1>2 DEF ShownInv, RedeemsWhatWasShown
<1>3. ASSUME NEW f \in Form, Draws(f), \A l \in Login : grant'[l] \in {grant[l], NoGrant}
      PROVE  ShownInv' /\ RedeemsWhatWasShown'
  <2>1. /\ formDrawn' = Buttons(f) /\ GrantFromForm(Buttons(f)) = GrantFromForm(f)
        /\ shown' = shown \cup ({GrantFromForm(f)} \ {NoGrant})
    BY <1>3, ButtonsOf DEF Draws
  <2>2. ShownInv'  BY <2>1 DEF ShownInv
  <2>3. RedeemsWhatWasShown'  BY <1>1, <1>3, <2>1 DEF RedeemsWhatWasShown
  <2>. QED BY <2>2, <2>3
<1>4. ASSUME NEW t \in PairThread, FormStore(t) PROVE ShownInv' /\ RedeemsWhatWasShown'
  <2>1. form' \in Form /\ \A l \in Login : grant'[l] \in {grant[l], NoGrant}
    BY <1>1, <1>4, FormStoreFacts
  <2>2. CASE t = RenderLoop
    BY <1>3, <1>4, <2>1, <2>2 DEF FormStore
  <2>3. CASE t # RenderLoop
    BY <1>1, <1>4, <2>1, <2>3 DEF FormStore, ShownInv, RedeemsWhatWasShown
  <2>. QED BY <2>2, <2>3
<1>5. ASSUME DrawForm PROVE ShownInv' /\ RedeemsWhatWasShown'
  BY <1>1, <1>3, <1>5 DEF DrawForm, PairingTypeOK, loginVars
<1>6. ASSUME NEW l \in Login, TapPair(l) PROVE ShownInv' /\ RedeemsWhatWasShown'
  <2>1. \A k \in Login : grant'[k] = IF k = l THEN GrantFromForm(formDrawn) ELSE grant[k]
    BY <1>1, <1>6 DEF TapPair, Pressed, PairingTypeOK
  <2>2. UNCHANGED <<formDrawn, shown>>  BY <1>6 DEF TapPair
  <2>. QED BY <1>1, <2>1, <2>2 DEF ShownInv, RedeemsWhatWasShown
<1>7. \/ \E t \in PairThread : FormStore(t)
      \/ DrawForm
      \/ \E l \in Login : TapPair(l)
      \/ UNCHANGED <<formDrawn, shown, grant>>
  BY <1>1 DEF PairingNext, TakeLink, EditLink, ReceiveDeepLink, ParkLink, EditFields, TapPasteLink,
              PasteAnswers, Touches, Forget, Login401, LoginFails, LoginSucceeds, SaveFails, SavePairing,
              Reports, formVars, loginVars, pairHist
<1>. QED BY <1>2, <1>4, <1>5, <1>6, <1>7

-----------------------------------------------------------------------------
(* The pair screen: the logins and their copies.                           *)

\* What a thread other than t holds stays as it is.
Rest(t) == \A u \in PairThread : u # t => formCopy'[u] = formCopy[u] /\ (Holds(u)' <=> Holds(u))

\* Thread t holds a copy of the form it has just made.
Takes(t) == ~Holds(t) /\ Holds(t)' /\ formCopy'[t].was = form /\ form' = form /\ Rest(t)

\* A copy whose error is about its own fields, or none.
AboutItself(f) == f.err = NoErr \/ f.err = GrantFromForm(f)

\* The kinds of step.  A thread that is no login touches the form, ...
Edit(t) ==
    /\ Takes(t)
    /\ formCopy'[t].next.busy = form.busy
    /\ \A l \in Login : stage'[l] = stage[l] /\ (stage[l] # "idle" => grant'[l] = grant[l])
FairEdit(t) ==
    /\ AboutItself(formCopy'[t].next)
    /\ LoginsOut = {} \/ (t = UI /\ ~form.busy)

\* ... Pair is tapped, ...
Press(l) ==
    /\ stage[l] = "idle"
    /\ Takes(UI)
    /\ formCopy'[UI].next.busy /\ formCopy'[UI].next.err = NoErr
    /\ \A k \in Login : /\ stage'[k] = IF k = l THEN "tapped" ELSE stage[k]
                        /\ k # l => grant'[k] = grant[k]
    /\ grant'[l] \in Grants
FairPress(l) ==
    /\ ~form.busy /\ grant'[l] = GrantFromForm(form)
    /\ GrantFromForm(formCopy'[UI].next) = GrantFromForm(form)

\* ... the grant is redeemed, ...
Redeem(l) ==
    /\ stage[l] = "posting"
    /\ \A k \in Login : stage'[k] = IF k = l THEN "redeemed" ELSE stage[k]
    /\ UNCHANGED <<form, formCopy, grant>>

\* ... a login ends, with its grant for an error or with cleared fields, ...
End(l) ==
    /\ stage[l] \in {"posting", "redeemed"}
    /\ Takes(l)
    /\ ~formCopy'[l].next.busy
    /\ \/ formCopy'[l].next.err = grant[l] /\ GrantFromForm(formCopy'[l].next) = GrantFromForm(form)
       \/ formCopy'[l].next.err = form.err
    /\ \A k \in Login : stage'[k] = IF k = l THEN "storing" ELSE stage[k]
    /\ UNCHANGED grant

\* ... a copy is stored, ...
Put(t) ==
    /\ Holds(t) /\ form' = formCopy[t].next /\ ~Holds(t)' /\ Rest(t)
    /\ \A l \in Login : /\ stage'[l] = IF t = UI /\ stage[l] = "tapped" THEN "posting"
                                       ELSE IF t = l THEN "returned" ELSE stage[l]
                        /\ grant'[l] = IF t = l THEN NoGrant ELSE grant[l]

\* ... or nothing of this moves.
Quiet == UNCHANGED <<form, formCopy, stage, grant>>

\* An update by anybody but a login.
LEMMA EditIs ==
  ASSUME PairingTypeOK, NEW t \in {UI, HostEvents, RenderLoop}, NEW next \in Form, FormUpdates(t, next),
         next.busy = form.busy, form' = form,
         \A l \in Login : stage'[l] = stage[l] /\ (stage[l] # "idle" => grant'[l] = grant[l])
  PROVE  Edit(t) /\ formCopy'[t].next = next
<1>1. /\ ~Holds(t) /\ Holds(t)' /\ formCopy'[t].was = form /\ formCopy'[t].next = next
      /\ \A u \in PairThread : u # t => formCopy'[u] = formCopy[u] /\ (Holds(u)' <=> Holds(u))
  BY FormUpdatesCopy, PairThreads
<1>. QED BY <1>1 DEF Edit, Takes, Rest

\* A report.
LEMMA ReportIs ==
  ASSUME PairingTypeOK, NEW l \in Login, Reports(l), stage[l] \in {"posting", "redeemed"}
  PROVE  End(l)
<1>1. grant[l] \in Grants \cup {NoGrant}  BY DEF PairingTypeOK
<1>. DEFINE next == [form EXCEPT !.busy = FALSE, !.err = grant[l]]
<1>2. next \in Form /\ ~next.busy /\ next.err = grant[l] /\ GrantFromForm(next) = GrantFromForm(form)
  BY <1>1, Ended
<1>3. FormUpdates(l, next) /\ form' = form /\ grant' = grant  BY DEF Reports
<1>. HIDE DEF next
<1>4. /\ ~Holds(l) /\ Holds(l)' /\ formCopy'[l].was = form /\ formCopy'[l].next = next
      /\ \A u \in PairThread : u # l => formCopy'[u] = formCopy[u] /\ (Holds(u)' <=> Holds(u))
  BY <1>2, <1>3, FormUpdatesCopy, PairThreads
<1>5. \A k \in Login : stage'[k] = IF k = l THEN "storing" ELSE stage[k]
  BY DEF Reports, PairingTypeOK
<1>. QED BY <1>2, <1>3, <1>4, <1>5 DEF End, Takes, Rest

\* Every step is of one of the kinds.
LEMMA PairingSteps ==
  ASSUME PairingTypeOK, PairingNext
  PROVE  \/ \E t \in {UI, HostEvents, RenderLoop} : Edit(t) /\ (~crossed' => FairEdit(t))
         \/ \E l \in Login : (Press(l) /\ (~crossed' => FairPress(l))) \/ Redeem(l) \/ End(l)
         \/ \E t \in PairThread : Put(t) /\ (~overwritten' => form = formCopy[t].was)
         \/ Quiet
<1>. DEFINE OfEdit(t) == Edit(t) /\ (~crossed' => FairEdit(t))
            OfPress(l) == Press(l) /\ (~crossed' => FairPress(l))
            OfPut(t) == Put(t) /\ (~overwritten' => form = formCopy[t].was)
            Goal == \/ \E t \in {UI, HostEvents, RenderLoop} : OfEdit(t)
                    \/ \E l \in Login : OfPress(l) \/ Redeem(l) \/ End(l)
                    \/ \E t \in PairThread : OfPut(t)
                    \/ Quiet
<1>1. ASSUME NEW t \in PairThread, FormStore(t) PROVE Goal
  <2>1. OfPut(t)  BY <1>1, FormStoreFacts DEF Put, Rest
  <2>. QED BY <2>1, Zenon
<1>2. ASSUME NEW t \in {UI, HostEvents, RenderLoop}, NEW next \in Form, FormUpdates(t, next),
             next.busy = form.busy, next.err = NoErr, crossed' = (crossed \/ LoginsOut # {}),
             form' = form, stage' = stage, grant' = grant
      PROVE  Goal
  <2>1. Edit(t) /\ formCopy'[t].next = next  BY <1>2, EditIs
  <2>2. ~crossed' => FairEdit(t)  BY <1>2, <2>1 DEF FairEdit, AboutItself
  <2>. QED BY <2>1, <2>2, Zenon
<1>3. ASSUME NEW x \in Text, EditLink(x) PROVE Goal
  <2>1. /\ [form EXCEPT !.uri = x, !.err = NoErr] \in Form
        /\ [form EXCEPT !.uri = x, !.err = NoErr].busy = form.busy
        /\ [form EXCEPT !.uri = x, !.err = NoErr].err = NoErr
    BY Filled
  <2>. QED BY <1>2, <1>3, <2>1 DEF EditLink, Touches, loginVars
<1>4. ASSUME NEW done \in BOOLEAN, EditFields(done) PROVE Goal
  <2>1. /\ [form EXCEPT !.hand = done, !.err = NoErr] \in Form
        /\ [form EXCEPT !.hand = done, !.err = NoErr].busy = form.busy
        /\ [form EXCEPT !.hand = done, !.err = NoErr].err = NoErr
    BY Marked
  <2>. QED BY <1>2, <1>4, <2>1 DEF EditFields, Touches, loginVars
<1>5. ASSUME TakeLink PROVE Goal
  <2>1. /\ [form EXCEPT !.uri = pendingLink, !.err = NoErr] \in Form
        /\ [form EXCEPT !.uri = pendingLink, !.err = NoErr].busy = form.busy
        /\ [form EXCEPT !.uri = pendingLink, !.err = NoErr].err = NoErr
    BY Filled DEF PairingTypeOK
  <2>. QED BY <1>2, <1>5, <2>1 DEF TakeLink, loginVars
<1>6. ASSUME Quiet PROVE Goal
  BY <1>6, Zenon
<1>7. ASSUME PasteAnswers PROVE Goal
  <2>1. ASSUME NEW x \in Text, Touches(HostEvents, [form EXCEPT !.uri = x, !.err = NoErr]) PROVE Goal
    <3>1. /\ [form EXCEPT !.uri = x, !.err = NoErr] \in Form
          /\ [form EXCEPT !.uri = x, !.err = NoErr].busy = form.busy
          /\ [form EXCEPT !.uri = x, !.err = NoErr].err = NoErr
      BY Filled
    <3>. QED BY <1>2, <2>1, <3>1 DEF Touches, loginVars
  <2>2. ASSUME UNCHANGED <<formVars, loginVars>> PROVE Goal
    BY <1>6, <2>2 DEF Quiet, formVars, loginVars
  <2>. QED BY <1>7, <2>1, <2>2 DEF PasteAnswers
<1>8. ASSUME NEW l \in Login, TapPair(l) PROVE Goal
  <2>. DEFINE g == GrantFromForm(formDrawn)
  <2>1. g \in Grants \cup {NoGrant}  BY FormGrant DEF PairingTypeOK, Drawn
  <2>2. /\ stage[l] = "idle" /\ ~formDrawn.busy /\ form' = form
        /\ FormUpdates(UI, IF g = NoGrant THEN [form EXCEPT !.err = NoGrant]
                           ELSE [form EXCEPT !.busy = TRUE, !.err = NoErr])
        /\ \A k \in Login : /\ stage'[k] = IF k = l /\ g # NoGrant THEN "tapped" ELSE stage[k]
                            /\ grant'[k] = IF k = l THEN g ELSE grant[k]
    BY <1>8 DEF TapPair, Pressed, PairingTypeOK
  <2>3. ~crossed' => ~form.busy /\ GrantFromForm(form) = g
    <3>1. ASSUME ~crossed' PROVE ~form.busy /\ GrantFromForm(form) = g
      <4>1. formDrawn = Buttons(form)  BY <1>8, <3>1 DEF TapPair
      <4>2. form \in Form  BY DEF PairingTypeOK
      <4>3. GrantFromForm(form) = g  BY <4>1, <4>2, ButtonsOf
      <4>4. ~form.busy  BY <2>2, <4>1 DEF Buttons
      <4>. QED BY <4>3, <4>4
    <3>. QED BY <3>1
  <2>4. CASE g = NoGrant
    <3>. DEFINE next == [form EXCEPT !.err = NoGrant]
    <3>1. /\ next \in Form /\ next.busy = form.busy /\ next.err = NoGrant
          /\ GrantFromForm(next) = GrantFromForm(form)
      BY Marked
    <3>2. FormUpdates(UI, next)  BY <2>2, <2>4
    <3>3. \A k \in Login : stage'[k] = stage[k] /\ (stage[k] # "idle" => grant'[k] = grant[k])
      BY <2>2, <2>4
    <3>. HIDE DEF next
    <3>4. Edit(UI) /\ formCopy'[UI].next = next  BY <2>2, <3>1, <3>2, <3>3, EditIs
    <3>5. ~crossed' => FairEdit(UI)  BY <2>3, <2>4, <3>1, <3>4 DEF FairEdit, AboutItself
    <3>. QED BY <3>4, <3>5, Zenon
  <2>5. CASE g # NoGrant
    <3>. DEFINE next == [form EXCEPT !.busy = TRUE, !.err = NoErr]
    <3>1. next \in Form /\ next.busy /\ next.err = NoErr /\ GrantFromForm(next) = GrantFromForm(form)
      BY Marked
    <3>2. FormUpdates(UI, next)  BY <2>2, <2>5
    <3>. HIDE DEF next
    <3>3. /\ ~Holds(UI) /\ Holds(UI)' /\ formCopy'[UI].was = form /\ formCopy'[UI].next = next
          /\ \A u \in PairThread : u # UI => formCopy'[u] = formCopy[u] /\ (Holds(u)' <=> Holds(u))
      BY <3>1, <3>2, FormUpdatesCopy, PairThreads
    <3>4. Press(l)  BY <2>1, <2>2, <2>5, <3>1, <3>3 DEF Press, Takes, Rest
    <3>5. ~crossed' => FairPress(l)  BY <2>2, <2>3, <3>1, <3>3 DEF FairPress
    <3>. QED BY <3>4, <3>5, Zenon
  <2>. QED BY <2>4, <2>5
<1>9. ASSUME NEW l \in Login, Login401(l) \/ LoginFails(l) \/ SaveFails(l) PROVE Goal
  <2>1. Reports(l) /\ stage[l] \in {"posting", "redeemed"}
    BY <1>9 DEF Login401, LoginFails, SaveFails
  <2>2. End(l)  BY <2>1, ReportIs
  <2>. QED BY <2>2, Zenon
<1>10. ASSUME NEW l \in Login, LoginSucceeds(l) PROVE Goal
  <2>1. Redeem(l)  BY <1>10 DEF LoginSucceeds, Redeem, formVars, PairingTypeOK
  <2>. QED BY <2>1, Zenon
<1>11. ASSUME NEW l \in Login, SavePairing(l) PROVE Goal
  <2>. DEFINE next == [form EXCEPT !.busy = FALSE, !.uri = Blank, !.hand = FALSE]
  <2>1. next \in Form /\ ~next.busy /\ next.err = form.err  BY Ended, FormsAssumption
  <2>2. FormUpdates(l, next) /\ form' = form /\ grant' = grant /\ stage[l] = "redeemed"
    BY <1>11 DEF SavePairing
  <2>3. \A k \in Login : stage'[k] = IF k = l THEN "storing" ELSE stage[k]
    BY <1>11 DEF SavePairing, PairingTypeOK
  <2>. HIDE DEF next
  <2>4. /\ ~Holds(l) /\ Holds(l)' /\ formCopy'[l].was = form /\ formCopy'[l].next = next
        /\ \A u \in PairThread : u # l => formCopy'[u] = formCopy[u] /\ (Holds(u)' <=> Holds(u))
    BY <2>1, <2>2, FormUpdatesCopy, PairThreads
  <2>5. End(l)  BY <2>1, <2>2, <2>3, <2>4 DEF End, Takes, Rest
  <2>. QED BY <2>5, Zenon
<1>12. ASSUME DrawForm \/ (\E x \in Text : ReceiveDeepLink(x)) \/ TapPasteLink \/ ParkLink \/ Forget
       PROVE  Goal
  BY <1>6, <1>12 DEF Quiet, DrawForm, ReceiveDeepLink, TapPasteLink, ParkLink, Forget, formVars, loginVars
<1>. HIDE DEF Goal
<1>13. Goal
  BY <1>1, <1>3, <1>4, <1>5, <1>7, <1>8, <1>9, <1>10, <1>11, <1>12 DEF PairingNext
<1>. QED BY <1>13 DEF Goal

\* StageInv is kept.
LEMMA StageStep == PairingTypeOK /\ StageInv /\ PairingNext => StageInv'
<1>1. SUFFICES ASSUME PairingTypeOK, StageInv, PairingNext PROVE StageInv'
  OBVIOUS
<1>2. ASSUME NEW t \in {UI, HostEvents, RenderLoop}, Edit(t) PROVE StageInv'
  <2>1. /\ Holds(t)' /\ \A u \in PairThread : u # t => formCopy'[u] = formCopy[u] /\ (Holds(u)' <=> Holds(u))
        /\ \A l \in Login : stage'[l] = stage[l] /\ (stage[l] # "idle" => grant'[l] = grant[l])
    BY <1>2 DEF Edit, Takes, Rest
  <2>2. \A l \in Login : formCopy'[l] = formCopy[l] /\ (Holds(l)' <=> Holds(l))
    BY <2>1, PairThreads
  <2>3. Holds(UI) => Holds(UI)'  BY <2>1, PairThreads
  <2>. QED BY <1>1, <2>1, <2>2, <2>3 DEF StageInv
<1>3. ASSUME NEW l \in Login, Press(l) PROVE StageInv'
  <2>1. /\ stage[l] = "idle" /\ Holds(UI)' /\ grant'[l] \in Grants
        /\ \A k \in Login : /\ stage'[k] = IF k = l THEN "tapped" ELSE stage[k]
                            /\ k # l => grant'[k] = grant[k]
        /\ \A u \in PairThread : u # UI => formCopy'[u] = formCopy[u] /\ (Holds(u)' <=> Holds(u))
    BY <1>3 DEF Press, Takes, Rest
  <2>2. \A k \in Login : formCopy'[k] = formCopy[k] /\ (Holds(k)' <=> Holds(k))
    BY <2>1, PairThreads
  <2>. QED BY <1>1, <2>1, <2>2 DEF StageInv
<1>4. ASSUME NEW l \in Login, Redeem(l) PROVE StageInv'
  BY <1>1, <1>4 DEF Redeem, StageInv, Holds
<1>5. ASSUME NEW l \in Login, End(l) PROVE StageInv'
  <2>1. /\ stage[l] \in {"posting", "redeemed"} /\ Holds(l)' /\ ~formCopy'[l].next.busy
        /\ \A k \in Login : stage'[k] = IF k = l THEN "storing" ELSE stage[k]
        /\ \A u \in PairThread : u # l => formCopy'[u] = formCopy[u] /\ (Holds(u)' <=> Holds(u))
        /\ grant' = grant
    BY <1>5 DEF End, Takes, Rest
  <2>2. \A k \in Login : k # l => formCopy'[k] = formCopy[k] /\ (Holds(k)' <=> Holds(k))
    BY <2>1, PairThreads
  <2>3. Holds(UI)' <=> Holds(UI)  BY <2>1, PairThreads
  <2>. QED BY <1>1, <2>1, <2>2, <2>3 DEF StageInv
<1>6. ASSUME NEW t \in PairThread, Put(t) PROVE StageInv'
  <2>1. /\ Holds(t) /\ ~Holds(t)'
        /\ \A u \in PairThread : u # t => formCopy'[u] = formCopy[u] /\ (Holds(u)' <=> Holds(u))
        /\ \A l \in Login : /\ stage'[l] = IF t = UI /\ stage[l] = "tapped" THEN "posting"
                                           ELSE IF t = l THEN "returned" ELSE stage[l]
                            /\ grant'[l] = IF t = l THEN NoGrant ELSE grant[l]
    BY <1>6 DEF Put, Rest
  <2>2. t \in Login => stage[t] = "storing"  BY <1>1, <2>1 DEF StageInv
  <2>3. \A l \in Login : Holds(l)' <=> stage'[l] = "storing"
    BY <1>1, <2>1, <2>2, PairThreads DEF StageInv
  <2>4. \A l \in Login : Holds(l)' => ~formCopy'[l].next.busy
    BY <1>1, <2>1, PairThreads DEF StageInv
  <2>5. \A l \in Login : stage'[l] = "tapped" => Holds(UI)'
    BY <1>1, <2>1, <2>2, PairThreads DEF StageInv
  <2>6. \A l \in Login : stage'[l] \notin {"idle", "returned"} => grant'[l] \in Grants
    BY <1>1, <2>1, PairThreads DEF StageInv
  <2>. QED BY <2>3, <2>4, <2>5, <2>6 DEF StageInv
<1>7. ASSUME Quiet PROVE StageInv'
  BY <1>1, <1>7 DEF Quiet, StageInv, Holds
<1>. QED BY <1>1, <1>2, <1>3, <1>4, <1>5, <1>6, <1>7, PairingSteps

-----------------------------------------------------------------------------
(* The pair screen: a fair run stays true, by each kind of step.           *)

\* A form that is idle, and no tap on its way: no login is out.
LEMMA NoneOut ==
  ASSUME PairingTypeOK, StageInv, OutInv, ~form.busy, ~Holds(UI)
  PROVE  LoginsOut = {}
<1>1. \A l \in Login : stage[l] \notin {"tapped", "posting", "redeemed", "storing"}
  BY DEF StageInv, OutInv
<1>. QED BY <1>1 DEF LoginsOut, PairingTypeOK

\* An edit: no login is out.
LEMMA FairEdits ==
  ASSUME PairingTypeOK, StageInv, OutInv, TouchInv, Truthful,
         NEW t \in {UI, HostEvents, RenderLoop}, Edit(t), FairEdit(t)
  PROVE  OutInv' /\ TouchInv' /\ Truthful'
<1>1. /\ ~Holds(t) /\ Holds(t)' /\ formCopy'[t].was = form /\ form' = form
      /\ formCopy'[t].next.busy = form.busy
      /\ \A u \in PairThread : u # t => formCopy'[u] = formCopy[u] /\ (Holds(u)' <=> Holds(u))
      /\ \A l \in Login : stage'[l] = stage[l]
  BY DEF Edit, Takes, Rest
<1>2. LoginsOut = {}  BY <1>1, NoneOut DEF FairEdit
<1>3. ~form.busy  BY <1>2 DEF Truthful
<1>4. LoginsOut' = {} /\ \A l \in Login : stage[l] \in {"idle", "returned"}
  BY <1>1, <1>2 DEF LoginsOut
<1>5. OutInv'  BY <1>1, <1>4 DEF OutInv
<1>6. TouchInv'
  <2>1. \A u \in {UI, HostEvents, RenderLoop} : Holds(u)' => ~formCopy'[u].was.busy /\ ~formCopy'[u].next.busy
    BY <1>1, <1>3, <1>4, PairThreads DEF TouchInv
  <2>2. \A u \in PairThread : Holds(u)' => AboutItself(formCopy[u])' \/ AboutItself(formCopy'[u].next)
    BY <1>1 DEF TouchInv, AboutItself, FairEdit
  <2>3. \A u \in PairThread : Holds(u)' =>
          formCopy'[u].next.err = NoErr \/ formCopy'[u].next.err = GrantFromForm(formCopy'[u].next)
    BY <1>1 DEF TouchInv, AboutItself, FairEdit
  <2>. QED BY <2>1, <2>3 DEF TouchInv
<1>7. Truthful'  BY <1>1, <1>3, <1>4 DEF Truthful
<1>. QED BY <1>5, <1>6, <1>7

\* The tap on Pair.
LEMMA FairPresses ==
  ASSUME PairingTypeOK, StageInv, OutInv, TouchInv, Truthful, NEW l \in Login, Press(l), FairPress(l)
  PROVE  OutInv' /\ TouchInv' /\ Truthful'
<1>1. /\ stage[l] = "idle"
      /\ ~Holds(UI) /\ Holds(UI)' /\ formCopy'[UI].was = form /\ form' = form
      /\ formCopy'[UI].next.busy /\ formCopy'[UI].next.err = NoErr
      /\ \A u \in PairThread : u # UI => formCopy'[u] = formCopy[u] /\ (Holds(u)' <=> Holds(u))
      /\ \A k \in Login : /\ stage'[k] = IF k = l THEN "tapped" ELSE stage[k]
                          /\ k # l => grant'[k] = grant[k]
      /\ ~form.busy /\ GrantFromForm(formCopy'[UI].next) = grant'[l]
  BY DEF Press, FairPress, Takes, Rest
<1>2. LoginsOut = {}  BY <1>1, NoneOut
<1>3. \A k \in Login : stage[k] \in {"idle", "returned"}  BY <1>2 DEF LoginsOut
<1>4. LoginsOut' = {l}  BY <1>1, <1>3 DEF LoginsOut
<1>5. \A k \in Login : stage'[k] \notin {"posting", "redeemed", "storing"} /\ (stage'[k] = "tapped" => k = l)
  BY <1>1, <1>3
<1>6. OutInv'  BY <1>1, <1>4, <1>5 DEF OutInv
<1>7. TouchInv'
  <2>1. ASSUME NEW u \in {UI, HostEvents, RenderLoop}, Holds(u)'
        PROVE  /\ ~formCopy'[u].was.busy
               /\ formCopy'[u].next.busy => u = UI /\ \E k \in Login : stage'[k] = "tapped"
    <3>1. CASE u = UI  BY <1>1, <3>1
    <3>2. CASE u # UI  BY <1>1, <2>1, <3>2, PairThreads DEF TouchInv
    <3>. QED BY <3>1, <3>2
  <2>2. \A u \in PairThread : Holds(u)' =>
          formCopy'[u].next.err = NoErr \/ formCopy'[u].next.err = GrantFromForm(formCopy'[u].next)
    BY <1>1 DEF TouchInv
  <2>. QED BY <2>1, <2>2 DEF TouchInv
<1>8. Truthful'  BY <1>1, <1>4, <1>5 DEF Truthful
<1>. QED BY <1>6, <1>7, <1>8

\* The grant is redeemed: the login goes on.
LEMMA FairRedeems ==
  ASSUME PairingTypeOK, StageInv, OutInv, TouchInv, Truthful, NEW l \in Login, Redeem(l)
  PROVE  OutInv' /\ TouchInv' /\ Truthful'
<1>1. /\ stage[l] = "posting" /\ \A k \in Login : stage'[k] = IF k = l THEN "redeemed" ELSE stage[k]
      /\ UNCHANGED <<form, formCopy, grant>>
  BY DEF Redeem
<1>2. LoginsOut' = LoginsOut  BY <1>1 DEF LoginsOut
<1>3. \A k \in Login : /\ stage'[k] = "tapped" <=> stage[k] = "tapped"
                       /\ stage'[k] \in {"posting", "redeemed", "storing"} => stage[k] \in {"posting", "redeemed", "storing"}
                       /\ stage'[k] \in {"posting", "redeemed"} => stage[k] \in {"posting", "redeemed"}
  BY <1>1
<1>4. OutInv'  BY <1>1, <1>2, <1>3 DEF OutInv
<1>5. TouchInv'  BY <1>1, <1>3 DEF TouchInv, Holds
<1>6. Truthful'  BY <1>1, <1>2, <1>3 DEF Truthful
<1>. QED BY <1>4, <1>5, <1>6

\* A login ends: its copy ends the spinner, and its error is its grant, which
\* is that of the fields.
LEMMA FairEnds ==
  ASSUME PairingTypeOK, StageInv, OutInv, TouchInv, Truthful, NEW l \in Login, End(l)
  PROVE  OutInv' /\ TouchInv' /\ Truthful'
<1>1. /\ stage[l] \in {"posting", "redeemed"}
      /\ Holds(l)' /\ form' = form /\ grant' = grant
      /\ \/ formCopy'[l].next.err = grant[l] /\ GrantFromForm(formCopy'[l].next) = GrantFromForm(form)
         \/ formCopy'[l].next.err = form.err
      /\ \A u \in PairThread : u # l => formCopy'[u] = formCopy[u] /\ (Holds(u)' <=> Holds(u))
      /\ \A k \in Login : stage'[k] = IF k = l THEN "storing" ELSE stage[k]
  BY DEF End, Takes, Rest
<1>2. form.busy /\ form.err = NoErr /\ GrantFromForm(form) = grant[l]  BY <1>1 DEF OutInv
<1>3. LoginsOut' = LoginsOut /\ l \in LoginsOut  BY <1>1 DEF LoginsOut
<1>4. \A k \in Login : /\ stage'[k] = "tapped" <=> stage[k] = "tapped"
                       /\ stage'[k] \in {"posting", "redeemed", "storing"} => stage[k] \in {"posting", "redeemed", "storing"}
                       /\ stage'[k] \in {"posting", "redeemed"} => stage[k] \in {"posting", "redeemed"}
  BY <1>1
<1>5. formCopy'[UI] = formCopy[UI]  BY <1>1, PairThreads
<1>6. OutInv'
  <2>1. \A k, m \in LoginsOut' : k = m  BY <1>3 DEF OutInv
  <2>2. \A k \in Login : stage'[k] = "tapped" =>
          /\ formCopy'[UI].next.busy /\ formCopy'[UI].next.err = NoErr
          /\ GrantFromForm(formCopy'[UI].next) = grant'[k]
    BY <1>1, <1>4, <1>5 DEF OutInv
  <2>3. \A k \in Login : stage'[k] \in {"posting", "redeemed", "storing"} =>
          form'.busy /\ form'.err = NoErr /\ GrantFromForm(form') = grant'[k]
    BY <1>1, <1>4 DEF OutInv
  <2>. QED BY <2>1, <2>2, <2>3 DEF OutInv
<1>7. TouchInv'
  <2>1. \A u \in {UI, HostEvents, RenderLoop} : Holds(u)' =>
          /\ ~formCopy'[u].was.busy
          /\ formCopy'[u].next.busy => u = UI /\ \E k \in Login : stage'[k] = "tapped"
    BY <1>1, <1>4, PairThreads DEF TouchInv
  <2>2. \A u \in PairThread : Holds(u)' =>
          formCopy'[u].next.err = NoErr \/ formCopy'[u].next.err = GrantFromForm(formCopy'[u].next)
    BY <1>1, <1>2 DEF TouchInv
  <2>. QED BY <2>1, <2>2 DEF TouchInv
<1>8. Truthful'
  <2>1. form'.busy => LoginsOut' # {}  BY <1>3
  <2>2. \A k \in Login : stage'[k] \in {"posting", "redeemed"} => form'.busy  BY <1>1, <1>2
  <2>3. form'.err # NoErr => form'.err = GrantFromForm(form')  BY <1>1, <1>2
  <2>. QED BY <2>1, <2>2, <2>3 DEF Truthful
<1>. QED BY <1>6, <1>7, <1>8

\* A store of a copy of the form as it is: while a login is out only the tap
\* that started it and the login itself have one.
LEMMA FairPuts ==
  ASSUME PairingTypeOK, StageInv, OutInv, TouchInv, Truthful,
         NEW t \in PairThread, Put(t), form = formCopy[t].was
  PROVE  OutInv' /\ TouchInv' /\ Truthful'
<1>1. /\ Holds(t) /\ form' = formCopy[t].next /\ ~Holds(t)'
      /\ \A u \in PairThread : u # t => formCopy'[u] = formCopy[u] /\ (Holds(u)' <=> Holds(u))
      /\ \A l \in Login : /\ stage'[l] = IF t = UI /\ stage[l] = "tapped" THEN "posting"
                                         ELSE IF t = l THEN "returned" ELSE stage[l]
                          /\ grant'[l] = IF t = l THEN NoGrant ELSE grant[l]
  BY DEF Put, Rest
<1>2. t \in Login => stage[t] = "storing" /\ ~form'.busy  BY <1>1 DEF StageInv
<1>3. \A l \in Login : l \in LoginsOut' => l \in LoginsOut /\ l # t
  BY <1>1, <1>2, PairThreads DEF LoginsOut
\* A login that has left its tap keeps everybody else's copy from matching.
<1>4. ASSUME NEW l \in Login, stage'[l] \in {"posting", "redeemed", "storing"}
      PROVE  t = UI /\ stage[l] = "tapped"
  <2>1. l \in LoginsOut /\ l # t  BY <1>1, <1>2, <1>4, PairThreads DEF LoginsOut
  <2>2. CASE stage[l] = "tapped"  BY <1>1, <1>4, <2>1, <2>2
  <2>3. CASE stage[l] # "tapped"
    <3>1. form.busy  BY <1>1, <1>4, <2>1, <2>3 DEF OutInv
    <3>2. t \in Login  BY <1>1, <3>1, PairThreads DEF TouchInv
    <3>3. t \in LoginsOut  BY <1>2, <3>2 DEF LoginsOut
    <3>. QED BY <2>1, <3>3 DEF OutInv
  <2>. QED BY <2>2, <2>3
<1>5. OutInv'
  <2>1. \A k, l \in LoginsOut' : k = l
    <3>1. LoginsOut' \subseteq LoginsOut  BY <1>3 DEF LoginsOut
    <3>. QED BY <3>1 DEF OutInv
  <2>2. ASSUME NEW l \in Login, stage'[l] = "tapped"
        PROVE  /\ formCopy'[UI].next.busy /\ formCopy'[UI].next.err = NoErr
               /\ GrantFromForm(formCopy'[UI].next) = grant'[l]
    <3>1. t # UI /\ t # l /\ stage[l] = "tapped"  BY <1>1, <2>2
    <3>2. formCopy'[UI] = formCopy[UI] /\ grant'[l] = grant[l]  BY <1>1, <3>1, PairThreads
    <3>. QED BY <3>1, <3>2 DEF OutInv
  <2>3. ASSUME NEW l \in Login, stage'[l] \in {"posting", "redeemed", "storing"}
        PROVE  form'.busy /\ form'.err = NoErr /\ GrantFromForm(form') = grant'[l]
    BY <1>1, <1>4, <2>3, PairThreads DEF OutInv
  <2>. QED BY <2>1, <2>2, <2>3 DEF OutInv
<1>6. TouchInv'
  <2>1. ASSUME NEW u \in {UI, HostEvents, RenderLoop}, Holds(u)'
        PROVE  /\ ~formCopy'[u].was.busy
               /\ formCopy'[u].next.busy => u = UI /\ \E k \in Login : stage'[k] = "tapped"
    <3>1. u # t /\ u \in PairThread /\ Holds(u) /\ formCopy'[u] = formCopy[u]  BY <1>1, <2>1, PairThreads
    <3>2. ~formCopy[u].was.busy /\ (formCopy[u].next.busy => u = UI /\ \E k \in Login : stage[k] = "tapped")
      BY <3>1 DEF TouchInv
    <3>3. u = UI => \A k \in Login : stage[k] = "tapped" => stage'[k] = "tapped"
      BY <1>1, <1>2, <3>1
    <3>. QED BY <3>1, <3>2, <3>3
  <2>2. \A u \in PairThread : Holds(u)' =>
          formCopy'[u].next.err = NoErr \/ formCopy'[u].next.err = GrantFromForm(formCopy'[u].next)
    BY <1>1 DEF TouchInv
  <2>. QED BY <2>1, <2>2 DEF TouchInv
<1>7. Truthful'
  <2>1. form'.busy => LoginsOut' # {}
    <3>1. ASSUME form'.busy PROVE \E l \in Login : t = UI /\ stage[l] = "tapped"
      BY <1>1, <1>2, <3>1, PairThreads DEF TouchInv
    <3>2. ASSUME NEW l \in Login, t = UI, stage[l] = "tapped" PROVE l \in LoginsOut'
      BY <1>1, <3>2 DEF LoginsOut
    <3>. QED BY <3>1, <3>2
  <2>2. \A l \in Login : stage'[l] \in {"posting", "redeemed"} => form'.busy
    BY <1>5 DEF OutInv
  <2>3. form'.err # NoErr => form'.err = GrantFromForm(form')  BY <1>1 DEF TouchInv
  <2>. QED BY <2>1, <2>2, <2>3 DEF Truthful
<1>. QED BY <1>5, <1>6, <1>7

-----------------------------------------------------------------------------
(* The pair screen: the theorems.                                          *)

\* An empty form, no copy, link nor login: the invariant holds at the start.
LEMMA PairingInvInit == PairingInit => PairingInv
<1>1. ASSUME PairingInit PROVE PairingInv
  <2>1. PairingTypeOK  BY <1>1, PairingTypeInit
  <2>2. /\ form.uri = Blank /\ form.hand = FALSE /\ ~form.busy /\ form.err = NoErr
        /\ formDrawn = Buttons(form) /\ GrantFromForm(form) = NoGrant
        /\ \A t \in PairThread : ~Holds(t)
        /\ \A l \in Login : stage[l] = "idle" /\ grant[l] = NoGrant
        /\ pendingLink = Blank /\ claimed = Blank
        /\ came = {} /\ late = {} /\ taken = {} /\ shown = {}
    BY <1>1 DEF PairingInit, Holds, GrantFromForm
  <2>3. LoginsOut = {}  BY <2>2 DEF LoginsOut
  <2>4. StageInv  BY <2>2, PairThreads DEF StageInv
  <2>5. ShownInv
    <3>1. form \in Form  BY <2>1 DEF PairingTypeOK
    <3>. QED BY <2>2, <3>1, ButtonsOf DEF ShownInv
  <2>6. LinkInv /\ LinksInTheOpen
    BY <2>2 DEF LinkInv, LinksInTheOpen, LinksLandOnce, RedeemsWhatWasShown
  <2>7. OutInv /\ TouchInv /\ Truthful
    BY <2>2, <2>3, PairThreads DEF OutInv, TouchInv, Truthful
  <2>. QED BY <2>1, <2>4, <2>5, <2>6, <2>7 DEF PairingInv
<1>. QED BY <1>1

\* A step that leaves the pair screen alone keeps it.
LEMMA PairingInvStutter == PairingInv /\ UNCHANGED pairingVars => PairingInv'
<1>1. SUFFICES ASSUME PairingInv, UNCHANGED pairingVars PROVE PairingInv'
  OBVIOUS
<1>2. UNCHANGED <<form, formDrawn, formCopy, pendingLink, claimed, paired, reading, stage, grant, spent,
                  came, late, taken, shown, overwritten, crossed>>
  BY <1>1 DEF pairingVars, formVars, linkVars, loginVars, pairHist
<1>3. LoginsOut' = LoginsOut /\ (\A t : Holds(t)' <=> Holds(t)) /\ (Fair' <=> Fair)
  BY <1>2 DEF LoginsOut, Holds, Fair
<1>4. PairingTypeOK'  BY <1>1, <1>2 DEF PairingInv, PairingTypeOK
<1>5. StageInv'  BY <1>1, <1>2, <1>3 DEF PairingInv, StageInv
<1>6. ShownInv' /\ LinkInv'  BY <1>1, <1>2 DEF PairingInv, ShownInv, LinkInv
<1>7. LinksInTheOpen'
  BY <1>1, <1>2 DEF PairingInv, LinksInTheOpen, LinksLandOnce, RedeemsWhatWasShown
<1>8. Fair => OutInv' /\ Truthful'  BY <1>1, <1>2, <1>3 DEF PairingInv, OutInv, Truthful
<1>9. Fair => TouchInv'  BY <1>1, <1>2, <1>3 DEF PairingInv, TouchInv
<1>. QED BY <1>3, <1>4, <1>5, <1>6, <1>7, <1>8, <1>9 DEF PairingInv

\* Fair now means fair before.
LEMMA FairBefore == PairingTypeOK /\ PairingNext /\ Fair' => Fair
<1>1. SUFFICES ASSUME PairingTypeOK, PairingNext, Fair' PROVE Fair
  OBVIOUS
<1>2. CASE \E t \in PairThread : FormStore(t)
  BY <1>1, <1>2, FormStoreFacts DEF Fair
<1>3. ASSUME NEW b, crossed' = (crossed \/ b), overwritten' = overwritten PROVE Fair
  BY <1>1, <1>3 DEF Fair
<1>4. CASE UNCHANGED <<crossed, overwritten>>
  BY <1>1, <1>4 DEF Fair
<1>5. CASE \E l \in Login : TapPair(l)
  BY <1>3, <1>5 DEF TapPair
<1>6. CASE TakeLink
  BY <1>3, <1>6 DEF TakeLink
<1>7. ASSUME NEW t, NEW next, Touches(t, next) PROVE Fair
  BY <1>3, <1>7 DEF Touches
<1>8. CASE PasteAnswers \/ (\E x \in Text : EditLink(x)) \/ (\E done \in BOOLEAN : EditFields(done))
  BY <1>4, <1>7, <1>8 DEF PasteAnswers, EditLink, EditFields, pairHist
<1>9. CASE DrawForm \/ (\E x \in Text : ReceiveDeepLink(x)) \/ TapPasteLink \/ ParkLink \/ Forget
  BY <1>4, <1>9 DEF DrawForm, ReceiveDeepLink, TapPasteLink, ParkLink, Forget, pairHist
<1>10. CASE \E l \in Login : Login401(l) \/ LoginFails(l) \/ LoginSucceeds(l) \/ SaveFails(l) \/ SavePairing(l)
  BY <1>4, <1>10 DEF Login401, LoginFails, LoginSucceeds, SaveFails, SavePairing, Reports, pairHist
<1>. QED BY <1>1, <1>2, <1>5, <1>6, <1>8, <1>9, <1>10 DEF PairingNext

\* Every step keeps the invariant.
LEMMA PairingInvStep == PairingInv /\ PairingNext => PairingInv'
<1>1. SUFFICES ASSUME PairingInv, PairingNext PROVE PairingInv'
  OBVIOUS
<1>2. PairingTypeOK /\ StageInv /\ ShownInv /\ LinkInv /\ RedeemsWhatWasShown /\ taken \cap late = {}
  BY <1>1 DEF PairingInv, LinksInTheOpen, LinksLandOnce
<1>3. PairingTypeOK' /\ StageInv'  BY <1>1, <1>2, PairingTypeStep, StageStep
<1>4. LinkInv' /\ taken' \cap late' = {}  BY <1>1, <1>2, LinkStep
<1>5. ShownInv' /\ RedeemsWhatWasShown'  BY <1>1, <1>2, ShownStep
<1>6. LinksInTheOpen'
  <2>1. LinksLandOnce'  BY <1>4 DEF LinkInv, LinksLandOnce
  <2>. QED BY <1>5, <2>1 DEF LinksInTheOpen
<1>7. ASSUME Fair' PROVE OutInv' /\ TouchInv' /\ Truthful'
  <2>1. Fair  BY <1>1, <1>2, <1>7, FairBefore
  <2>2. OutInv /\ TouchInv /\ Truthful  BY <1>1, <2>1 DEF PairingInv
  <2>3. ~crossed' /\ ~overwritten'  BY <1>7 DEF Fair
  <2>4. ASSUME Quiet PROVE OutInv' /\ TouchInv' /\ Truthful'
    <3>1. UNCHANGED <<form, formCopy, stage, grant>>  BY <2>4 DEF Quiet
    <3>2. LoginsOut' = LoginsOut /\ \A t : Holds(t)' <=> Holds(t)  BY <3>1 DEF LoginsOut, Holds
    <3>3. OutInv'  BY <2>2, <3>1, <3>2 DEF OutInv
    <3>4. TouchInv'  BY <2>2, <3>1, <3>2 DEF TouchInv
    <3>5. Truthful'  BY <2>2, <3>1, <3>2 DEF Truthful
    <3>. QED BY <3>3, <3>4, <3>5
  <2>5. ASSUME NEW t \in {UI, HostEvents, RenderLoop}, Edit(t), FairEdit(t)
        PROVE  OutInv' /\ TouchInv' /\ Truthful'
    BY <1>2, <2>2, <2>5, FairEdits
  <2>6. ASSUME NEW l \in Login, (Press(l) /\ FairPress(l)) \/ Redeem(l) \/ End(l)
        PROVE  OutInv' /\ TouchInv' /\ Truthful'
    BY <1>2, <2>2, <2>6, FairPresses, FairRedeems, FairEnds
  <2>7. ASSUME NEW t \in PairThread, Put(t), form = formCopy[t].was
        PROVE  OutInv' /\ TouchInv' /\ Truthful'
    BY <1>2, <2>2, <2>7, FairPuts
  <2>. QED BY <1>1, <1>2, <2>3, <2>4, <2>5, <2>6, <2>7, PairingSteps
<1>. QED BY <1>2, <1>3, <1>4, <1>5, <1>6, <1>7 DEF PairingInv

\* PairingInv is an invariant of the screens.
THEOREM PairingInvariant == Spec => []PairingInv
<1>1. Init => PairingInv  BY PairingInvInit DEF Init
<1>2. PairingInv /\ [Next]_screensVars => PairingInv'
  <2>1. [Next]_screensVars => PairingNext \/ UNCHANGED pairingVars
    BY DEF Next, screensVars
  <2>. QED BY <2>1, PairingInvStep, PairingInvStutter
<1>. QED BY <1>1, <1>2, PTL DEF Spec

\* LinksInTheOpen: only a grant that had been drawn is redeemed, and a link the
\* OS delivers lands in the field once, and never from a paired phone, however
\* the OS, the clipboard, the taps and the render loop interleave.
THEOREM NothingUnseenIsRedeemed == Spec => []LinksInTheOpen
<1>1. PairingInv => LinksInTheOpen  BY DEF PairingInv
<1>. QED BY <1>1, PairingInvariant, PTL

\* FormTellsTheTruth: "Pairing..." stands for a login that is out, and the
\* error is about what the fields hold, unless a store of src/app/pair.go
\* undid another or the form was changed during a login.
THEOREM PairFormIsTrue == Spec => []FormTellsTheTruth
<1>1. PairingInv => FormTellsTheTruth  BY DEF PairingInv, Fair, Truthful, FormTellsTheTruth
<1>. QED BY <1>1, PairingInvariant, PTL

-----------------------------------------------------------------------------
(* The Alerts screen, for any desks, ids, answers and generations.         *)
(* StaleMeansPassPending is kept by a stronger fact, PassInv: it leaves no *)
(* room for "the screen happens to be right" beside a pass whose reading   *)
(* is already old.  SpentMeansAnswered needs to know what a desk has used  *)
(* up: an id it hands out is one it has not accepted an answer to, and an  *)
(* answer on its way back was accepted (DeskInv).                          *)

\* A change not announced yet, a pass that is to come, or a screen, or a
\* reading, that is the session of now.
PassInv ==
    \/ requested
    \/ owes # {}
    \/ passAt = "none" /\ screen.status = status /\ screen.rows = notes
    \/ passAt = "banner" /\ read.status = status
    \/ passAt = "rows" /\ read.status = status /\ read.rows = notes

\* What a desk holds or has accepted an answer to it has issued, and an ok on
\* its way to the session stands for an accepted answer.
DeskInv ==
    /\ \A d \in Desk : registry[d] \subseteq issued[d]
    /\ \A d \in Desk, i \in Id : <<d, i>> \in acked => i \in issued[d]
    /\ \A a \in Answer : at[a] = "ok" => <<sentTo[a], ask[a]>> \in acked

\* A row is of an id the desk of now has used, so it has no other for it.
RowsInv == \A i \in Id : notes[i] # "none" => i \in issued[desk]

\* The inductive invariant.
AlertsInv == AlertsTypeOK /\ PassInv /\ DeskInv /\ RowsInv /\ SpentMeansAnswered

-----------------------------------------------------------------------------
(* The Alerts screen: Init, and the steps of the other screens.            *)

\* The types hold at the start.
LEMMA AlertsTypeInit == AlertsInit => AlertsTypeOK
<1>1. ASSUME AlertsInit PROVE AlertsTypeOK
  <2>1. desk \in Desk /\ (CHOOSE i \in Id : TRUE) \in Id
    BY <1>1, AlertsAssumption DEF AlertsInit
  <2>2. Empty \in Picture
    BY AlertsAssumption DEF Empty, Picture, NoRows, RowState, LoopLife
  <2>3. gen \in 0..MaxGen /\ status \in LoopLife \cup {"idle", "stopped"} /\ notes \in [Id -> RowState]
    BY <1>1, AlertsAssumption DEF AlertsInit, NoRows, RowState, LoopLife
  <2>4. ask \in [Answer -> Id] /\ sentTo \in [Answer -> Desk]
    BY <1>1, <2>1 DEF AlertsInit
  <2>5. read \in Picture /\ screen \in Picture
    BY <1>1, <2>2 DEF AlertsInit
  <2>. QED BY <1>1, <2>1, <2>3, <2>4, <2>5 DEF AlertsInit, AlertsTypeOK
<1>. QED BY <1>1

\* No row, no answer and nothing accepted: the rest holds at the start.
LEMMA AlertsInvInit == AlertsInit => AlertsInv
<1>1. ASSUME AlertsInit PROVE AlertsInv
  <2>1. AlertsTypeOK  BY <1>1, AlertsTypeInit
  <2>2. PassInv  BY <1>1 DEF AlertsInit, PassInv, Empty
  <2>3. DeskInv  BY <1>1 DEF AlertsInit, DeskInv
  <2>4. SpentMeansAnswered  BY <1>1 DEF AlertsInit, SpentMeansAnswered, NoRows
  <2>5. RowsInv  BY <1>1 DEF AlertsInit, RowsInv, NoRows
  <2>. QED BY <2>1, <2>2, <2>3, <2>4, <2>5 DEF AlertsInv
<1>. QED BY <1>1

\* A step that leaves the Alerts screen alone keeps its invariant.
LEMMA AlertsInvStutter == AlertsInv /\ UNCHANGED alertsVars => AlertsInv'
  BY DEF AlertsInv, alertsVars, connVars, deskVars, passVars, tapVars, AlertsTypeOK, PassInv,
         DeskInv, RowsInv, SpentMeansAnswered

-----------------------------------------------------------------------------
(* The Alerts screen: the types.                                           *)

\* Every action keeps them.
LEMMA AlertsTypeStep == AlertsTypeOK /\ AlertsNext => AlertsTypeOK'
<1>1. SUFFICES ASSUME AlertsTypeOK, AlertsNext PROVE AlertsTypeOK'
  OBVIOUS
<1>. USE DEF AlertsTypeOK
<1>2. ASSUME NEW w \in Writer, Notify(w) PROVE AlertsTypeOK'
  BY <1>1, <1>2 DEF Notify, connVars, deskVars, tapVars
<1>3. ASSUME NEW d \in Desk, NEW s \in {"connecting", "idle"}, NewGeneration(d, s) PROVE AlertsTypeOK'
  <2>1. gen' \in 0..MaxGen  BY <1>1, <1>3, AlertsAssumption DEF NewGeneration
  <2>2. notes' \in [Id -> RowState] /\ status' \in LoopLife \cup {"idle", "stopped"}
    BY <1>3 DEF NewGeneration, NoRows, RowState, LoopLife
  <2>3. desk' \in Desk /\ attached' \in BOOLEAN /\ owes' \in SUBSET Writer
    BY <1>1, <1>3 DEF NewGeneration, Owes, Writer
  <2>. QED BY <1>1, <1>3, <2>1, <2>2, <2>3 DEF NewGeneration, deskVars, passVars, tapVars
<1>4. ASSUME LoopSteps PROVE AlertsTypeOK'
  BY <1>1, <1>4
     DEF LoopSteps, SetStatus, Owes, Writer, LoopLife, deskVars, passVars, tapVars
<1>5. ASSUME TakesConn PROVE AlertsTypeOK'
  BY <1>1, <1>5 DEF TakesConn, deskVars, passVars, tapVars
<1>6. ASSUME NEW i \in Id, OnMessage(i) PROVE AlertsTypeOK'
  BY <1>1, <1>6 DEF OnMessage, Owes, Writer, RowState, passVars, tapVars
<1>7. ASSUME PassStarts PROVE AlertsTypeOK'
  BY <1>1, <1>7 DEF PassStarts, Picture, connVars, deskVars, tapVars
<1>8. ASSUME PassReads PROVE AlertsTypeOK'
  BY <1>1, <1>8 DEF PassReads, Picture, connVars, deskVars, tapVars
<1>9. ASSUME PassDraws PROVE AlertsTypeOK'
  <2>1. PICK gone \in SUBSET Id :
          screen' = [read EXCEPT !.rows = [i \in Id |-> IF i \in gone THEN "spent" ELSE read.rows[i]]]
    BY <1>9 DEF PassDraws
  <2>2. screen' \in Picture  BY <1>1, <2>1 DEF Picture, RowState
  <2>. QED BY <1>1, <1>9, <2>2 DEF PassDraws, connVars, deskVars, tapVars
<1>10. ASSUME NEW a \in Answer, NEW i \in Id, TapAction(a, i) PROVE AlertsTypeOK'
  BY <1>1, <1>10 DEF TapAction, Moves, connVars, deskVars, passVars
<1>11. ASSUME NEW a \in Answer, RunCommand(a) PROVE AlertsTypeOK'
  BY <1>1, <1>11 DEF RunCommand, Moves, connVars, deskVars, passVars
<1>12. ASSUME NEW a \in Answer, Served(a) PROVE AlertsTypeOK'
  BY <1>1, <1>12 DEF Served, Moves, connVars, passVars
<1>13. ASSUME NEW a \in Answer, Update(a) PROVE AlertsTypeOK'
  BY <1>1, <1>13 DEF Update, Answered, Moves, Owes, RowState, Writer, deskVars, passVars
<1>. QED BY <1>1, <1>2, <1>3, <1>4, <1>5, <1>6, <1>7, <1>8, <1>9, <1>10, <1>11, <1>12, <1>13
     DEF AlertsNext

-----------------------------------------------------------------------------
(* The Alerts screen is at most one pass behind.                           *)

\* Who changes the status or a row owes a notify, a notify asks for a pass,
\* and a pass with no change beneath it draws what is there.
LEMMA PassStep == AlertsInv /\ AlertsNext => PassInv'
<1>1. SUFFICES ASSUME AlertsInv, AlertsNext PROVE PassInv'
  OBVIOUS
<1>2. AlertsTypeOK /\ PassInv  BY <1>1 DEF AlertsInv
<1>3. ASSUME NEW w, Owes(w) PROVE PassInv'
  BY <1>3 DEF Owes, PassInv
<1>4. ASSUME NEW w \in Writer, Notify(w) PROVE PassInv'
  BY <1>4 DEF Notify, PassInv
<1>5. ASSUME UNCHANGED <<status, notes, owes, requested, passAt, read, screen>> PROVE PassInv'
  BY <1>2, <1>5 DEF PassInv
<1>6. ASSUME TakesConn PROVE PassInv'
  BY <1>5, <1>6 DEF TakesConn, passVars
<1>7. ASSUME PassStarts PROVE PassInv'
  BY <1>2, <1>7 DEF PassStarts, PassInv, connVars, AlertsTypeOK, Picture
<1>8. ASSUME PassReads PROVE PassInv'
  BY <1>2, <1>8 DEF PassReads, PassInv, connVars, AlertsTypeOK, Picture
<1>9. ASSUME PassDraws PROVE PassInv'
  <2>1. CASE requested \/ owes # {}
    BY <1>9, <2>1 DEF PassDraws, PassInv
  <2>2. CASE read.status = status /\ read.rows = notes
    <3>1. PICK gone \in SUBSET Id :
            /\ \A i \in gone : read.rows[i] = "open" /\ notes[i] = "spent"
            /\ screen' = [read EXCEPT !.rows = [i \in Id |-> IF i \in gone THEN "spent" ELSE read.rows[i]]]
      BY <1>9 DEF PassDraws
    <3>2. gone = {}  BY <2>2, <3>1
    <3>3. notes \in [Id -> RowState] /\ read \in Picture  BY <1>2 DEF AlertsTypeOK
    <3>4. [i \in Id |-> IF i \in gone THEN "spent" ELSE read.rows[i]] = notes
      BY <2>2, <3>2, <3>3
    <3>5. screen'.status = status /\ screen'.rows = notes
      BY <2>2, <3>1, <3>3, <3>4 DEF Picture
    <3>. QED BY <1>9, <3>5 DEF PassDraws, PassInv, connVars
  <2>. QED BY <1>2, <1>9, <2>1, <2>2 DEF PassDraws, PassInv
<1>10. ASSUME NEW a \in Answer, NEW i \in Id, TapAction(a, i) PROVE PassInv'
  BY <1>5, <1>10 DEF TapAction, connVars, passVars
<1>11. ASSUME NEW a \in Answer, RunCommand(a) PROVE PassInv'
  BY <1>5, <1>11 DEF RunCommand, connVars, passVars
<1>12. ASSUME NEW a \in Answer, Served(a) PROVE PassInv'
  BY <1>5, <1>12 DEF Served, connVars, passVars
<1>. QED BY <1>1, <1>3, <1>4, <1>6, <1>7, <1>8, <1>9, <1>10, <1>11, <1>12
     DEF AlertsNext, NewGeneration, LoopSteps, SetStatus, OnMessage, Update

-----------------------------------------------------------------------------
(* The Alerts screen: the buttons.                                         *)

\* A desk accepts an answer only to what it holds, and says ok only then.
LEMMA DeskStep == AlertsInv /\ AlertsNext => DeskInv'
<1>1. SUFFICES ASSUME AlertsInv, AlertsNext PROVE DeskInv'
  OBVIOUS
<1>2. AlertsTypeOK /\ DeskInv  BY <1>1 DEF AlertsInv
<1>3. ASSUME UNCHANGED <<registry, issued, acked, at, ask, sentTo>> PROVE DeskInv'
  BY <1>2, <1>3 DEF DeskInv
<1>4. ASSUME NEW i \in Id, OnMessage(i) PROVE DeskInv'
  BY <1>2, <1>4 DEF OnMessage, DeskInv, AlertsTypeOK, tapVars
<1>5. ASSUME NEW a \in Answer, NEW i \in Id, TapAction(a, i) PROVE DeskInv'
  BY <1>2, <1>5 DEF TapAction, Moves, DeskInv, AlertsTypeOK, deskVars
<1>6. ASSUME NEW a \in Answer, RunCommand(a) PROVE DeskInv'
  BY <1>2, <1>6 DEF RunCommand, Moves, DeskInv, AlertsTypeOK, deskVars
<1>7. ASSUME NEW a \in Answer, Served(a) PROVE DeskInv'
  BY <1>2, <1>7 DEF Served, Moves, DeskInv, AlertsTypeOK
<1>8. ASSUME NEW a \in Answer, Update(a) PROVE DeskInv'
  BY <1>2, <1>8 DEF Update, Moves, DeskInv, AlertsTypeOK, deskVars
<1>9. \/ UNCHANGED <<registry, issued, acked, at, ask, sentTo>>
      \/ \E i \in Id : OnMessage(i)
      \/ \E a \in Answer : (\E i \in Id : TapAction(a, i)) \/ RunCommand(a) \/ Served(a) \/ Update(a)
  BY <1>1 DEF AlertsNext, Notify, NewGeneration, LoopSteps, SetStatus, TakesConn, PassStarts,
              PassReads, PassDraws, deskVars, tapVars
<1>. QED BY <1>3, <1>4, <1>5, <1>6, <1>7, <1>8, <1>9

\* What happens to the rows: nothing, none is left in the session of another
\* generation, one that was not there comes, or one loses its buttons.
LEMMA RowsMove ==
  ASSUME AlertsTypeOK, RowsInv, AlertsNext
  PROVE  \/ UNCHANGED <<notes, gen, desk, issued>>
         \/ gen' # gen /\ notes' = NoRows
         \/ /\ \A i \in Id : notes'[i] \in {notes[i], "open"} /\ (notes[i] # "none" => notes'[i] = notes[i])
            /\ \A i \in Id : notes'[i] # "none" => i \in issued'[desk]
            /\ UNCHANGED <<gen, desk>>
         \/ /\ \A i \in Id : notes'[i] = notes[i] \/ (notes[i] = "open" /\ notes'[i] = "spent")
            /\ UNCHANGED <<gen, desk, issued>>
<1>1. ASSUME NEW d \in Desk, NEW s \in {"connecting", "idle"}, NewGeneration(d, s)
      PROVE  gen' # gen /\ notes' = NoRows
  BY <1>1 DEF NewGeneration, AlertsTypeOK
<1>2. ASSUME NEW i \in Id, OnMessage(i)
      PROVE  /\ \A j \in Id : notes'[j] \in {notes[j], "open"} /\ (notes[j] # "none" => notes'[j] = notes[j])
             /\ \A j \in Id : notes'[j] # "none" => j \in issued'[desk]
             /\ UNCHANGED <<gen, desk>>
  <2>1. notes[i] = "none"  BY <1>2 DEF OnMessage, RowsInv
  <2>2. /\ notes' = [notes EXCEPT ![i] = "open"]
        /\ issued'[desk] = issued[desk] \cup {i}
        /\ UNCHANGED <<gen, desk>>
    BY <1>2 DEF OnMessage, AlertsTypeOK
  <2>. QED BY <2>1, <2>2 DEF RowsInv, AlertsTypeOK
<1>3. ASSUME NEW a \in Answer, Update(a)
      PROVE  /\ \A i \in Id : notes'[i] = notes[i] \/ (notes[i] = "open" /\ notes'[i] = "spent")
             /\ UNCHANGED <<gen, desk, issued>>
  BY <1>3 DEF Update, Answered, AlertsTypeOK, deskVars
<1>4. \/ UNCHANGED <<notes, gen, desk, issued>>
      \/ \E d \in Desk, s \in {"connecting", "idle"} : NewGeneration(d, s)
      \/ \E i \in Id : OnMessage(i)
      \/ \E a \in Answer : Update(a)
  BY DEF AlertsNext, AlertsTypeOK, Notify, LoopSteps, SetStatus, TakesConn, PassStarts, PassReads,
         PassDraws, TapAction, RunCommand, Served, connVars, deskVars
<1>. QED BY <1>1, <1>2, <1>3, <1>4

\* So they stay rows of ids of their desk.
LEMMA RowsStep == AlertsInv /\ AlertsNext => RowsInv'
<1>1. SUFFICES ASSUME AlertsInv, AlertsNext PROVE RowsInv'
  OBVIOUS
<1>2. AlertsTypeOK /\ RowsInv  BY <1>1 DEF AlertsInv
<1>. QED BY <1>1, <1>2, RowsMove DEF RowsInv, NoRows

\* A row loses its buttons to an accepted answer of its desk, and keeps them
\* beside one only while the goroutine that brings the ok is on its way.
LEMMA SpentStep == AlertsInv /\ AlertsNext => SpentMeansAnswered'
<1>1. SUFFICES ASSUME AlertsInv, AlertsNext, ~crossing' PROVE SpentMeansAnswered'
  BY DEF SpentMeansAnswered
<1>2. AlertsTypeOK /\ DeskInv /\ SpentMeansAnswered  BY <1>1 DEF AlertsInv
<1>3. ~crossing
  BY <1>1 DEF AlertsNext, Notify, NewGeneration, LoopSteps, SetStatus, TakesConn, OnMessage, PassStarts,
              PassReads, PassDraws, TapAction, RunCommand, Served, Update
<1>4. \A i \in Id :
        /\ notes[i] = "spent" => <<desk, i>> \in acked
        /\ (notes[i] = "open" /\ <<desk, i>> \in acked) => \E a \in Answer : at[a] = "ok" /\ ask[a] = i
  BY <1>2, <1>3 DEF SpentMeansAnswered
<1>5. ASSUME UNCHANGED <<notes, desk, acked, at, ask>> PROVE SpentMeansAnswered'
  BY <1>4, <1>5 DEF SpentMeansAnswered
<1>6. ASSUME notes' = NoRows PROVE SpentMeansAnswered'
  BY <1>6 DEF SpentMeansAnswered, NoRows
<1>7. ASSUME NEW i \in Id, OnMessage(i) PROVE SpentMeansAnswered'
  <2>1. <<desk, i>> \notin acked  BY <1>2, <1>7 DEF OnMessage, DeskInv, AlertsTypeOK
  <2>. QED BY <1>2, <1>4, <1>7, <2>1 DEF OnMessage, SpentMeansAnswered, AlertsTypeOK, tapVars
<1>8. ASSUME NEW a \in Answer, NEW i \in Id, TapAction(a, i) PROVE SpentMeansAnswered'
  BY <1>2, <1>4, <1>8 DEF TapAction, Moves, SpentMeansAnswered, AlertsTypeOK, connVars
<1>9. ASSUME NEW a \in Answer, RunCommand(a) PROVE SpentMeansAnswered'
  BY <1>2, <1>4, <1>9 DEF RunCommand, Moves, SpentMeansAnswered, AlertsTypeOK, connVars
<1>10. ASSUME NEW a \in Answer, Served(a) PROVE SpentMeansAnswered'
  BY <1>2, <1>4, <1>10 DEF Served, Moves, SpentMeansAnswered, AlertsTypeOK, connVars
<1>11. ASSUME NEW a \in Answer, Update(a) PROVE SpentMeansAnswered'
  <2>1. <<desk, ask[a]>> \in acked  BY <1>1, <1>2, <1>11 DEF Update, Moves, DeskInv
  <2>2. \A i \in Id : notes'[i] = IF i = ask[a] /\ notes[i] = "open" THEN "spent" ELSE notes[i]
    BY <1>2, <1>11 DEF Update, Answered, AlertsTypeOK
  <2>. QED BY <1>2, <1>4, <1>11, <2>1, <2>2 DEF Update, Moves, SpentMeansAnswered, AlertsTypeOK
<1>12. \/ UNCHANGED <<notes, desk, acked, at, ask>>
       \/ notes' = NoRows
       \/ \E i \in Id : OnMessage(i)
       \/ \E a \in Answer : (\E i \in Id : TapAction(a, i)) \/ RunCommand(a) \/ Served(a) \/ Update(a)
  BY <1>1 DEF AlertsNext, Notify, NewGeneration, LoopSteps, SetStatus, TakesConn, PassStarts,
              PassReads, PassDraws, connVars, tapVars
<1>. QED BY <1>5, <1>6, <1>7, <1>8, <1>9, <1>10, <1>11, <1>12

-----------------------------------------------------------------------------
(* The Alerts screen: the theorems.                                        *)

\* AlertsInv is an invariant of the screens.
THEOREM AlertsInvariant == Spec => []AlertsInv
<1>1. Init => AlertsInv  BY AlertsInvInit DEF Init
<1>2. AlertsInv /\ [Next]_screensVars => AlertsInv'
  <2>1. [Next]_screensVars => AlertsNext \/ UNCHANGED alertsVars
    BY DEF Next, screensVars
  <2>2. AlertsInv /\ AlertsNext => AlertsInv'
    BY AlertsTypeStep, PassStep, DeskStep, RowsStep, SpentStep DEF AlertsInv
  <2>. QED BY <2>1, <2>2, AlertsInvStutter
<1>. QED BY <1>1, <1>2, PTL DEF Spec

\* AlertsTypeOK: the variables of the Alerts screen keep their types.
THEOREM AlertsTypes == Spec => []AlertsTypeOK
<1>1. AlertsInv => AlertsTypeOK  BY DEF AlertsInv
<1>. QED BY <1>1, AlertsInvariant, PTL

\* StaleMeansPassPending: the screen is never more than one render pass behind
\* the session and the status, however the writers of src/app/connection.go,
\* the passes and the goroutines of the answers interleave.
THEOREM OnePassBehind == Spec => []StaleMeansPassPending
<1>1. AlertsInv => StaleMeansPassPending  BY DEF AlertsInv, PassInv, StaleMeansPassPending
<1>. QED BY <1>1, AlertsInvariant, PTL

\* SpentMeansAnswered: a row without its buttons was answered from this phone
\* and accepted at its desk, and an accepted answer takes the buttons away,
\* unless the answer crossed a change of desk.
THEOREM ButtonsTellTheTruth == Spec => []SpentMeansAnswered
<1>1. AlertsInv => SpentMeansAnswered  BY DEF AlertsInv
<1>. QED BY <1>1, AlertsInvariant, PTL

\* An action property of the fold of a notification (src/internal/catsclient/
\* session.go) and AnswerNotify: a row that has lost its buttons never gets them
\* back, whatever the desk sends and whoever answers, until Connect or Disconnect
\* of src/app/connection.go has emptied the session.
THEOREM ButtonsNeverReturn ==
  Spec => [][\A i \in Id : notes[i] = "spent" => notes'[i] = "spent" \/ gen' # gen]_screensVars
<1>. DEFINE Stays == \A i \in Id : notes[i] = "spent" => notes'[i] = "spent" \/ gen' # gen
<1>1. AlertsInv /\ [Next]_screensVars => Stays
  <2>1. [Next]_screensVars => AlertsNext \/ UNCHANGED alertsVars
    BY DEF Next, screensVars
  <2>2. AlertsInv /\ AlertsNext => Stays
    <3>1. SUFFICES ASSUME AlertsInv, AlertsNext PROVE Stays  OBVIOUS
    <3>2. AlertsTypeOK /\ RowsInv  BY <3>1 DEF AlertsInv
    <3>. QED BY <3>1, <3>2, RowsMove
  <2>3. UNCHANGED alertsVars => Stays  BY DEF alertsVars, connVars
  <2>. QED BY <2>1, <2>2, <2>3
<1>. QED BY <1>1, AlertsInvariant, PTL DEF Spec

-----------------------------------------------------------------------------
(* The screens together.                                                   *)

\* ScreensTypeOK: on every screen of src/app the state the threads share has
\* its type, and the row that is drawn is one an emulator sends.
THEOREM ScreensTypes == Spec => []ScreensTypeOK
<1>. DEFINE RowKept == /\ screenShown \in {"pane", "pair", "alerts", "agents", "grid"}
                       /\ WellFormed(cells)
<1>1. Init => RowKept
  <2>0. <<>> \in Seq(Cell(Glyph, Color, Color, SUBSET Modifier)) /\ \A k \in 1..Len(<<>>) : FALSE
    OBVIOUS
  <2>1. WellFormed(<<>>)  BY <2>0 DEF WellFormed
  <2>. QED BY <2>1, RowsAssumption DEF Init
<1>2. RowKept /\ [Next]_screensVars => RowKept'
  <2>1. [Next]_screensVars => UNCHANGED <<screenShown, cells>>  BY DEF Next, screensVars
  <2>2. cells' = cells /\ WellFormed(cells) => WellFormed(cells)'  BY DEF WellFormed
  <2>. QED BY <2>1, <2>2
<1>3. ComposerInv /\ PairingInv /\ AlertsTypeOK /\ RowKept => ScreensTypeOK
  BY DEF ComposerInv, PairingInv, ScreensTypeOK
<1>. QED BY <1>1, <1>2, <1>3, ComposerInvariant, PairingInvariant, AlertsTypes, PTL DEF Spec
=============================================================================
