------------------------------ MODULE Composer ------------------------------
(***************************************************************************)
(* The pane screen's reply bar and its reveal dialog                       *)
(* (src/app/pane.go): one slot the tap handlers, the clipboard's answer    *)
(* and every send in flight update by copying, changing and storing it     *)
(* back, while the buttons act on the value the last render pass drew.     *)
(*                                                                         *)
(* Threads: the taps and the typing (UI), the host-event goroutine that    *)
(* brings the clipboard, the render loop, and a goroutine for each send.   *)
(* The text area and catway are external.                                  *)
(***************************************************************************)
EXTENDS Slot

CONSTANTS
    Word,      \* pieces of text, each put in the draft at most once, ...
    Clip,      \* ... these from the clipboard, the others by typing
    MaxSend    \* bound on the taps that send

ASSUME ComposerAssumption == Clip \subseteq Word /\ MaxSend \in Nat

VARIABLES
    \* the slot, the value the last pass drew, what the text area shows, and
    \* the copy each thread is about to store
    slot, drawn, field, copy,
    \* the sends: where each is, its text; a paste waiting for its answer
    pc, text, asking,
    \* history: what was typed or pasted, the sends whose text reached the
    \* pane, the sends that failed after theirs did, was a copy stored over a
    \* newer value, is the dialog wanted, and did the person act on a screen
    \* that was behind the slot or edit while a send was in flight
    typed, arrived, unsure, clobbered, wanted, hasty

slotVars == <<slot, drawn, field, copy>>
sendVars == <<pc, text, asking>>
histVars == <<typed, arrived, unsure, clobbered, wanted, hasty>>
composerVars == <<slotVars, sendVars, histVars>>

Send     == 1..MaxSend      \* in the order of their taps
PaneView == [draft : SUBSET Word, busy : BOOLEAN, confirm : BOOLEAN]
ViewCopy == [was : PaneView, next : PaneView]
Thread   == {UI, HostEvents} \cup Send
InFlight == {c \in Send : pc[c] \notin {"idle", "returned"}}

ASSUME NoCopyAssumption == NoCopy \notin ViewCopy

ComposerTypeOK ==
    /\ slot \in PaneView /\ drawn \in PaneView /\ field \in SUBSET Word
    /\ copy \in [Thread -> ViewCopy \cup {NoCopy}]
    /\ pc \in [Send -> {"idle", "tapped", "invoke", "typed", "storing", "returned"}]
    /\ text \in [Send -> SUBSET Word]
    /\ asking \in BOOLEAN
    /\ typed \in SUBSET Word /\ arrived \in SUBSET Send /\ unsure \in SUBSET Send
    /\ clobbered \in BOOLEAN /\ wanted \in BOOLEAN /\ hasty \in BOOLEAN

ComposerInit ==
    /\ slot = [draft |-> {}, busy |-> FALSE, confirm |-> FALSE]
    /\ drawn = slot /\ field = {}
    /\ copy = [t \in Thread |-> NoCopy]
    /\ pc = [c \in Send |-> "idle"] /\ text = [c \in Send |-> {}]
    /\ asking = FALSE
    /\ typed = {} /\ arrived = {} /\ unsure = {}
    /\ clobbered = FALSE /\ wanted = FALSE /\ hasty = FALSE

-----------------------------------------------------------------------------
(* update: the copy, and in a step of its own the store.                   *)

Updates(t, next) ==
    /\ copy[t] = NoCopy
    /\ copy' = Copied(copy, t, slot, next)

\* Storing the tap's update is what starts the goroutine it asked for.
Store(t) ==
    /\ copy[t] # NoCopy
    /\ slot' = copy[t].next
    /\ clobbered' = (clobbered \/ Undoes(slot, copy[t]))
    /\ copy' = Stored(copy, t)
    /\ pc' = [c \in Send |-> IF t = UI /\ pc[c] = "tapped" THEN "invoke"
                             ELSE IF t = c THEN "returned" ELSE pc[c]]
    /\ UNCHANGED <<drawn, field, text, asking, typed, arrived, unsure, wanted, hasty>>

\* A render pass.  The text area is patched when the draft it shows changed.
Pass ==
    /\ drawn # slot
    /\ drawn' = slot
    /\ field' = IF slot.draft # drawn.draft THEN slot.draft ELSE field
    /\ UNCHANGED <<slot, copy, sendVars, histVars>>

-----------------------------------------------------------------------------
(* What the person does.                                                   *)

\* A draft edited during a send is emptied by its ok with the rest.
Edits(behind) == hasty' = (hasty \/ InFlight # {} \/ behind)

\* The text area reports its whole text, which replaces the draft.
TypeWord(w) ==
    /\ w \notin typed \cup Clip
    /\ field' = field \cup {w}
    /\ Updates(UI, [slot EXCEPT !.draft = field'])
    /\ typed' = typed \cup {w}
    /\ Edits(field # slot.draft)
    /\ UNCHANGED <<slot, drawn, sendVars, arrived, unsure, clobbered, wanted>>

TapPaste ==
    /\ ~drawn.busy /\ ~asking /\ copy[UI] = NoCopy
    /\ asking' = TRUE
    /\ UNCHANGED <<slotVars, pc, text, histVars>>

\* A mutant: the clipboard's text replaces the draft, as it does in pair.go.
PasteReplaces ==
    /\ asking /\ asking' = FALSE
    /\ \/ /\ \E w \in Clip \ typed :
              /\ Updates(HostEvents, [slot EXCEPT !.draft = {w}])
              /\ typed' = typed \cup {w}
          /\ Edits(FALSE)
          /\ UNCHANGED <<slot, drawn, field>>
       \/ UNCHANGED <<slotVars, typed, hasty>>
    /\ UNCHANGED <<pc, text, arrived, unsure, clobbered, wanted>>

\* ReadClipboard's answer, appended.  A refusal or an empty clipboard is a toast.
ClipboardAnswers ==
    /\ asking /\ asking' = FALSE
    /\ \/ /\ \E w \in Clip \ typed :
              /\ Updates(HostEvents, [slot EXCEPT !.draft = slot.draft \cup {w}])
              /\ typed' = typed \cup {w}
          /\ Edits(FALSE)
          /\ UNCHANGED <<slot, drawn, field>>
       \/ UNCHANGED <<slotVars, typed, hasty>>
    /\ UNCHANGED <<pc, text, arrived, unsure, clobbered, wanted>>

\* "Send", or "Type" without the Enter: the text and the guards are the drawn
\* value's.
TapSend(c, submit) ==
    /\ pc[c] = "idle" /\ \A b \in 1..(c - 1) : pc[b] # "idle"
    /\ ~drawn.busy
    /\ submit \/ drawn.draft # {}
    /\ Updates(UI, [slot EXCEPT !.busy = TRUE])
    /\ pc' = [pc EXCEPT ![c] = "tapped"]
    /\ text' = [text EXCEPT ![c] = drawn.draft]
    /\ hasty' = (hasty \/ drawn # slot)
    /\ UNCHANGED <<slot, drawn, field, asking,
                   typed, arrived, unsure, clobbered, wanted>>

Dialog(open) ==
    /\ Updates(UI, [slot EXCEPT !.confirm = open])
    /\ wanted' = open
    /\ UNCHANGED <<slot, drawn, field, pc, text, asking, typed, arrived, unsure, clobbered, hasty>>

TapReveal   == ~drawn.confirm /\ Dialog(TRUE)
\* "Cancel" and "Reveal" both close the dialog; pane.focus, which the second
\* then runs, leaves nothing here to change.
CloseReveal == drawn.confirm /\ Dialog(FALSE)

-----------------------------------------------------------------------------
(* The goroutines.                                                         *)

Goes(c, from, to) == pc[c] = from /\ pc' = [pc EXCEPT ![c] = to]

\* The live socket takes the send and catway types its text into the pane.
Arrives(c) ==
    /\ Goes(c, "invoke", "typed")
    /\ arrived' = arrived \cup {c}
    /\ UNCHANGED <<slotVars, text, asking, typed, unsure, clobbered, wanted, hasty>>

\* A mutant: the draft survives its delivery.
DeliveredKeepsDraft(c) ==
    /\ Goes(c, "typed", "storing")
    /\ Updates(c, [slot EXCEPT !.busy = FALSE])
    /\ UNCHANGED <<slot, drawn, field, text, asking, histVars>>

\* The server's ok empties the draft.
Delivered(c) ==
    /\ Goes(c, "typed", "storing")
    /\ Updates(c, [slot EXCEPT !.busy = FALSE, !.draft = {}])
    /\ UNCHANGED <<slot, drawn, field, text, asking, histVars>>

\* A mutant: the error path forgets the button.
FailedStaysBusy(c) ==
    /\ Goes(c, "typed", "storing") \/ Goes(c, "invoke", "storing")
    /\ Updates(c, slot)
    /\ unsure' = unsure \cup ({c} \cap arrived)
    /\ UNCHANGED <<slot, drawn, field, text, asking, typed, arrived, clobbered, wanted, hasty>>

\* No live socket, a refusal, a timeout or a socket that dies, which leaves
\* open whether the text arrived: the draft stays.
Failed(c) ==
    /\ Goes(c, "typed", "storing") \/ Goes(c, "invoke", "storing")
    /\ Updates(c, [slot EXCEPT !.busy = FALSE])
    /\ unsure' = unsure \cup ({c} \cap arrived)
    /\ UNCHANGED <<slot, drawn, field, text, asking, typed, arrived, clobbered, wanted, hasty>>

Tap ==
    \/ \E w \in Word : TypeWord(w)
    \/ \E c \in Send, submit \in BOOLEAN : TapSend(c, submit)
    \/ TapPaste \/ TapReveal \/ CloseReveal

Works(c) == Arrives(c) \/ Delivered(c) \/ Failed(c)

ComposerNext ==
    \/ Tap \/ ClipboardAnswers \/ Pass
    \/ \E t \in Thread : Store(t)
    \/ \E c \in Send : Works(c)

-----------------------------------------------------------------------------
(* Properties.                                                             *)

Pending(field_) == copy[UI] # NoCopy /\ copy[UI].next[field_] # copy[UI].was[field_]

\* "Sending..." is drawn while a send is in flight that will end it, and the
\* dialog is open when the person left it open, unless some thread stored its
\* copy over a newer value: with no lock around the copy and the store that
\* does happen, and then a spinner stays and the buttons with it.
SlotTellsTheTruth ==
    \/ clobbered
    \/ /\ slot.busy => InFlight # {}
       /\ ~Pending("confirm") => (slot.confirm <=> wanted)

\* A failed send keeps the draft and a delivered one is all an ok clears: what
\* was typed or pasted is in the draft, on its way there, or at the desk,
\* unless a store lost it or the person edited during a send or tapped before
\* the screen had caught up.
NothingTypedIsLost ==
    \/ clobbered \/ hasty
    \/ \A w \in typed :
          \/ w \in slot.draft
          \/ \E t \in Thread : copy[t] # NoCopy /\ w \in copy[t].next.draft
          \/ \E c \in arrived : w \in text[c]

\* One tap types once: the same words reach the pane twice only when the
\* person sent again after a failure whose text had arrived, a store was lost,
\* or a second tap came before a pass had drawn the first.
TypedOnce ==
    \/ clobbered \/ hasty
    \/ \A c, d \in arrived : c = d \/ c \in unsure \/ d \in unsure \/ text[c] \cap text[d] = {}

\* Every word is typed at the desk or still in the draft, and not twice.
EveryWordOnce == NothingTypedIsLost /\ TypedOnce
=============================================================================
