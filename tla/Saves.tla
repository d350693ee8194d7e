------------------------------- MODULE Saves -------------------------------
(***************************************************************************)
(* SaveToReview: the buttons that put a card into the deck and take it out *)
(* again, and the toast whose Undo puts it back.  A call goes on when its  *)
(* button unmounts, and the toast stays on whatever page is shown.         *)
(***************************************************************************)
EXTENDS Review

CONSTANT Savers \* bound: calls under way at once

ASSUME SavesAssumption == IsFiniteSet(Savers) /\ Savers \subseteq Nat

VARIABLES
  saves, \* calls of addCard, removeCard and undoRemove under way
  toasts \* the removals that may be undone: cards with the tombstone's version

savesVars == <<saves, toasts>>

NoSave == [kind |-> "none"]
NoCopy == [version |-> 0]
\* button: the list or panel whose button made the call, of a card.
Call(kind, button, c, copy) ==
  [kind |-> kind, button |-> button, card |-> c, pc |-> "writing", copy |-> copy, fetch |-> 0, mounted |-> TRUE]

SavesInit == saves = [i \in Savers |-> NoSave] /\ toasts = {}

\* savedCardIds, of the deck on screen.
SavedOnScreen(c) == c \in DOMAIN deck.cards /\ deck.cards[c].live

CanCall == \E i \in Savers : saves[i] = NoSave
Calling(call) == [saves EXCEPT ![Min({i \in Savers : saves[i] = NoSave})] = call]

\* toggle: a button makes one call at a time, what it says decides which.  Two
\* buttons of one card know nothing of each other.
Toggle(button, c) ==
  /\ \A i \in Savers : saves[i] # NoSave => ~(saves[i].button = button /\ saves[i].card = c /\ saves[i].mounted)
  /\ CanCall
  /\ saves' = Calling(IF SavedOnScreen(c) THEN Call("remove", button, c, deck.cards[c])
                      ELSE Call("add", button, c, NoCopy))
  /\ UNCHANGED <<progressVars, reviewVars, toasts>>

\* Undo dismisses its toast.
Undo(toast) ==
  /\ CanCall
  /\ saves' = Calling(Call("undo", "toast", toast.card, [version |-> toast.version]))
  /\ toasts' = toasts \ {toast}
  /\ UNCHANGED <<progressVars, reviewVars>>

\* saveCard: a new card, or the stored copy, its review history kept, live again.
Added(c) ==
  LET copy == IF c \in DOMAIN cards THEN [cards[c] EXCEPT !.version = @ + 1, !.live = TRUE, !.here = TRUE]
              ELSE [version |-> 0, live |-> TRUE, new |-> TRUE, due |-> TRUE, here |-> TRUE]
  IN [d \in DOMAIN cards \cup {c} |-> IF d = c THEN copy ELSE cards[d]]

\* removeCard: the tombstone of the copy on screen, whatever is stored now.
Removed(c, copy) ==
  [cards EXCEPT ![c] = [copy EXCEPT !.version = cards[c].version + 1, !.live = FALSE, !.here = TRUE]]

\* undoRemove: only over the tombstone that the removal wrote.
Restored(c, tombstone) ==
  IF cards[c].version # tombstone.version THEN cards
  ELSE [cards EXCEPT ![c] = [cards[c] EXCEPT !.version = @ + 1, !.live = TRUE, !.here = TRUE]]

\* The write, after which the deck refreshes.  Bound: MaxVersion.
CommitSave(i) ==
  /\ saves[i] # NoSave /\ saves[i].pc = "writing" /\ CanFetch
  /\ saves[i].card \in DOMAIN cards => cards[saves[i].card].version < MaxVersion
  /\ LET c == saves[i].card IN
     /\ cards' = CASE saves[i].kind = "add"    -> Added(c)
                   [] saves[i].kind = "remove" -> Removed(c, saves[i].copy)
                   [] saves[i].kind = "undo"   -> Restored(c, saves[i].copy)
     /\ saves' = [saves EXCEPT ![i].pc = "refreshing", ![i].copy = [version |-> cards'[c].version],
                               ![i].fetch = Min({k \in Fetches : fetches[k] = NoFetch})]
  /\ StartRefresh("save")
  /\ Rerender
  /\ UNCHANGED <<reviewing, revealed, ratings, overlapped, recap, toasts>>
  /\ AfterRender

\* "Couldn't save", or "Couldn't undo": the button is free again.
FailSave(i) ==
  /\ saves[i] # NoSave /\ saves[i].pc = "writing"
  /\ saves' = [saves EXCEPT ![i] = NoSave]
  /\ UNCHANGED <<progressVars, reviewVars, toasts>>

\* The refresh k has landed or failed: a removal shows its toast.
SaveEnds(k) ==
  IF fetches[k].by # "save" THEN UNCHANGED savesVars
  ELSE LET i == CHOOSE i \in Savers : saves[i] # NoSave /\ saves[i].fetch = k IN
       /\ saves' = [saves EXCEPT ![i] = NoSave]
       /\ toasts' = IF saves[i].kind # "remove" THEN toasts
                    ELSE toasts \cup {[card |-> saves[i].card, version |-> saves[i].copy.version]}

\* The buttons that the learner leaves.
Unmounted(buttons) ==
  [i \in Savers |-> IF saves[i] # NoSave /\ saves[i].button \in buttons
                    THEN [saves[i] EXCEPT !.mounted = FALSE] ELSE saves[i]]

SavesTypeOK ==
  /\ \A i \in Savers : saves[i] # NoSave =>
       /\ saves[i].kind \in {"add", "remove", "undo"} /\ saves[i].pc \in {"writing", "refreshing"}
       /\ saves[i].button \in {"card", "panel", "summary", "toast"}
       /\ saves[i].card \in Cards /\ saves[i].mounted \in BOOLEAN
       /\ saves[i].pc = "refreshing" <=> saves[i].fetch \in Fetches
  /\ toasts \subseteq [card : DOMAIN cards, version : 0..MaxVersion + 1]

\* "Only the latest refresh installs its result, so an older overlapping one
\* cannot land a stale snapshot" (useVocabDeck), and every write is refreshed
\* after: unless the latest refresh failed, a card that this App changed last is
\* in the deck on screen as it is stored, once no refresh is under way.
DeckShowsOwnWrites ==
  (\A k \in Fetches : fetches[k] = NoFetch) /\ ~deck.failed =>
    \A c \in DOMAIN cards : cards[c].here => c \in DOMAIN deck.cards /\ deck.cards[c] = cards[c]
=============================================================================
