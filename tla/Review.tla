------------------------------- MODULE Review -------------------------------
(***************************************************************************)
(* The review deck: the cards in IndexedDB and what the App holds of them  *)
(* (useVocabDeck), the queue under the daily limit of new cards            *)
(* (capNewCards), and the page that reveals and rates its first card       *)
(* (ReviewDeck), with its speech and its Say it (useSayIt).                *)
(*                                                                         *)
(* A rating goes through the card's transaction, a refresh of the deck and *)
(* the recording of the practice, awaiting each; cards change underneath   *)
(* (a sync, another tab), refreshes overlap, and the page may be left and  *)
(* opened anew, when the rating of the page that was left goes on.         *)
(***************************************************************************)
EXTENDS Progress

CONSTANTS
  Cards,   \* the cards, in due order
  NEW_CARDS_PER_DAY,
  Raters,  \* bound: ratings under way at once, of the page on screen and pages left
  Fetches, \* bound: refreshes of the deck under way at once
  MaxVersion \* bound: changes of a card

ASSUME ReviewAssumption ==
  /\ IsFiniteSet(Cards) /\ Cards \subseteq Nat \ {0}
  /\ NEW_CARDS_PER_DAY \in Nat /\ IsFiniteSet(Fetches) /\ Fetches \subseteq Nat \ {0}
  /\ IsFiniteSet(Raters) /\ Raters \subseteq Nat /\ MaxVersion \in Nat \ {0}

VARIABLES
  cards,    \* the store: version, not a tombstone, state New, due now; history:
            \* changed last by this App
  deck,     \* useVocabDeck: cards, loading, error
  fetches,  \* its refreshes under way
  reviewing, \* the review page is mounted
  revealed, \* the turn whose answer is shown
  ratings,  \* the ratings under way
  overlapped, \* history: a New card was rated during the rating of another, of a page left
  voice,    \* Listen first, what is spoken, the Say it attempt
  recap     \* the cards rated Again in this visit of the page

reviewVars == <<cards, deck, fetches, reviewing, revealed, ratings, overlapped, voice, recap>>

NoTurn  == <<0, 0>>
RecapTurn(c) == <<0, c>> \* a card of the recap, which is no turn
NoFetch == [by |-> "none"]
NoRating == [pc |-> "idle"]

\* The cards shown for review: every due card that is not New, and New ones up
\* to what the day's limit leaves, in due order.
CapNewCards(snapshot, introduced) ==
  LET due    == {c \in DOMAIN snapshot : snapshot[c].live /\ snapshot[c].due}
      new    == {c \in due : snapshot[c].new}
      before(c) == {d \in new : d < c}
  IN (due \ new) \cup {c \in new : Cardinality(before(c)) < NEW_CARDS_PER_DAY - introduced}

Queue == CapNewCards(deck.cards, NewCardsToday)
\* The card on screen and its version: a rating changes it, so the answer of
\* the next card, or of the same card back after Again, is hidden.
Turn == IF Queue = {} THEN NoTurn ELSE <<Min(Queue), deck.cards[Min(Queue)].version>>
ShowAnswer == Turn # NoTurn /\ revealed = Turn
OnScreen == reviewing /\ ~deck.loading /\ ~deck.failed

\* saved: the cards of the deck, at a version; canSpeak: the browser speaks and
\* recognizes.
ReviewInit(saved, version, canSpeak, open) ==
  /\ cards = [c \in saved |-> [version |-> version, live |-> TRUE, new |-> TRUE, due |-> TRUE, here |-> TRUE]]
  /\ deck = [cards |-> cards, loading |-> FALSE, failed |-> FALSE]
  /\ fetches = [k \in Fetches |-> NoFetch]
  /\ reviewing = open /\ revealed = NoTurn /\ recap = {}
  /\ ratings = [i \in Raters |-> NoRating] /\ overlapped = FALSE
  /\ voice \in [can : {canSpeak}, first : {FALSE, canSpeak}, spoken : {NoTurn}, say : {"idle"}, turn : {NoTurn}]

(***************************************************************************)
(* The effects of a render, of a mounted page: a new turn silences the     *)
(* speech, a new turn or answer aborts the recognition of Say it, and      *)
(* Listen first speaks a card as it is first shown.                        *)
(***************************************************************************)
Effects(moved) ==
  LET flipped == ShowAnswer' # ShowAnswer IN
  voice' = IF ~reviewing THEN voice
           ELSE [voice EXCEPT
             !.spoken = IF (moved \/ flipped) /\ voice.first /\ Turn' # NoTurn /\ ~ShowAnswer' THEN Turn'
                        ELSE IF moved THEN NoTurn ELSE @,
             !.say  = IF (moved \/ flipped) /\ @ = "listening" THEN "idle" ELSE @,
             !.turn = IF (moved \/ flipped) /\ voice.say = "listening" THEN NoTurn ELSE @]

\* mutant of AfterRender: the turn is the card alone
AfterRenderByCard == Effects(Turn'[1] # Turn[1])
AfterRender == Effects(Turn' # Turn)

\* An attempt to say another card, or this one before its answer, is not shown.
SayItState == IF voice.turn = Turn /\ ~ShowAnswer THEN voice.say ELSE "idle"

\* mutant of Refreshing: every refresh installs its result
RefreshingAll(fs, by) ==
  LET k == Min({i \in Fetches : fs[i] = NoFetch}) IN
  [fs EXCEPT ![k] = [by |-> by, latest |-> TRUE, read |-> FALSE, seen |-> <<>>]]

\* refresh: only the latest installs its result.
Refreshing(fs, by) ==
  LET k == Min({i \in Fetches : fs[i] = NoFetch}) IN
  [i \in Fetches |-> IF i = k THEN [by |-> by, latest |-> TRUE, read |-> FALSE, seen |-> <<>>]
                     ELSE IF fs[i] = NoFetch THEN NoFetch ELSE [fs[i] EXCEPT !.latest = FALSE]]
CanFetch == \E k \in Fetches : fetches[k] = NoFetch
StartRefresh(by) ==
  /\ fetches' = Refreshing(fetches, by)
  /\ deck' = [deck EXCEPT !.loading = TRUE]

\* On focus, when the tab is shown again, when the next card comes due, after
\* a sync that changed something.
Refresh ==
  /\ CanFetch /\ \A k \in Fetches : fetches[k].by # "other"
  /\ StartRefresh("other")
  /\ Rerender
  /\ UNCHANGED <<cards, reviewing, revealed, ratings, overlapped, recap>>
  /\ AfterRender

ReadCards(k) ==
  /\ fetches[k] # NoFetch /\ ~fetches[k].read
  /\ fetches' = [fetches EXCEPT ![k].read = TRUE, ![k].seen = cards]
  /\ UNCHANGED <<progressVars, cards, deck, reviewing, revealed, ratings, overlapped, voice, recap>>

(***************************************************************************)
(* What follows the refresh k in a rating that awaits it: a saved one is   *)
(* recorded as practice; one that found the card changed ends.             *)
(***************************************************************************)
Awaits(i, k) == ratings[i].pc = "fetching" /\ ratings[i].fetch = k
EndRating(i) == ratings' = [ratings EXCEPT ![i] = NoRating]

Recording(i) ==
  /\ Free # {}
  /\ jobs' = Starting(jobs, Job("rating", ratings[i].new, NoLesson))
  /\ ratings' = [ratings EXCEPT ![i].pc = "recording", ![i].job = Min(Free), ![i].fetch = 0,
                                ![i].card = 0, ![i].again = FALSE]
  /\ recap' = IF ratings[i].again /\ ratings[i].mounted THEN recap \cup {ratings[i].card} ELSE recap

\* mutant of Continue: the rating ends before its practice is recorded
ContinueAtOnce(k) ==
  IF \A i \in Raters : ~Awaits(i, k) THEN UNCHANGED <<ratings, jobs, recap>>
  ELSE \E i \in Raters :
       /\ Awaits(i, k) /\ EndRating(i) /\ UNCHANGED recap
       /\ IF ratings[i].saved THEN Free # {} /\ jobs' = Starting(jobs, Job("rating", ratings[i].new, NoLesson))
                              ELSE UNCHANGED jobs

\* mutant of Continue: a superseded refresh answers nobody
ContinueLatest(k) ==
  IF ~fetches[k].latest \/ \A i \in Raters : ~Awaits(i, k) THEN UNCHANGED <<ratings, jobs, recap>>
  ELSE \E i \in Raters :
       Awaits(i, k) /\ IF ratings[i].saved THEN Recording(i) ELSE EndRating(i) /\ UNCHANGED <<jobs, recap>>

Continue(k) ==
  IF \A i \in Raters : ~Awaits(i, k) THEN UNCHANGED <<ratings, jobs, recap>>
  ELSE \E i \in Raters :
       Awaits(i, k) /\ IF ratings[i].saved THEN Recording(i) ELSE EndRating(i) /\ UNCHANGED <<jobs, recap>>

LandCards(k) ==
  /\ fetches[k] # NoFetch /\ fetches[k].read
  /\ deck' = IF fetches[k].latest
             THEN [cards |-> fetches[k].seen, loading |-> FALSE, failed |-> FALSE] ELSE deck
  /\ fetches' = [fetches EXCEPT ![k] = NoFetch]
  /\ Continue(k)
  /\ Render(shown, FALSE)
  /\ UNCHANGED <<day, store, goal, lapsed, cards, reviewing, revealed, overlapped>>
  /\ AfterRender

FailCards(k) ==
  /\ fetches[k] # NoFetch /\ ~fetches[k].read
  /\ deck' = IF fetches[k].latest THEN [deck EXCEPT !.loading = FALSE, !.failed = TRUE] ELSE deck
  /\ fetches' = [fetches EXCEPT ![k] = NoFetch]
  /\ Continue(k)
  /\ Render(shown, FALSE)
  /\ UNCHANGED <<day, store, goal, lapsed, cards, reviewing, revealed, overlapped>>
  /\ AfterRender

\* Another tab or a sync brings the card rated Again, or deleted, elsewhere.
\* Bound: MaxVersion, and most for a deletion.
ChangeCard(c, most) ==
  /\ c \in DOMAIN cards /\ cards[c].version < most
  /\ LET changed == [cards[c] EXCEPT !.version = @ + 1, !.here = FALSE] IN
     \/ cards[c].version < MaxVersion /\ cards' = [cards EXCEPT ![c] = [changed EXCEPT !.new = FALSE]]
     \/ cards' = [cards EXCEPT ![c] = [changed EXCEPT !.live = FALSE]]
  /\ UNCHANGED <<progressVars, deck, fetches, reviewing, revealed, ratings, overlapped, voice, recap>>

-----------------------------------------------------------------------------
(* The page. *)

\* The page is mounted, is left, or stays: a rating goes on without it, and is
\* in no recap.
ReviewFollows(open) ==
  /\ reviewing' = open
  /\ UNCHANGED <<cards, deck, fetches, overlapped>>
  /\ IF open = reviewing THEN UNCHANGED <<revealed, ratings, recap>> /\ AfterRender
     ELSE /\ revealed' = NoTurn /\ recap' = {}
          /\ ratings' = [i \in Raters |-> IF ratings[i] = NoRating THEN NoRating
                                          ELSE [ratings[i] EXCEPT !.mounted = FALSE]]
          /\ voice' = [voice EXCEPT !.spoken = IF open /\ voice.first THEN Turn' ELSE NoTurn,
                                    !.say = "idle", !.turn = NoTurn]

Reveal ==
  /\ OnScreen /\ Turn # NoTurn /\ ~ShowAnswer
  /\ revealed' = Turn
  /\ UNCHANGED <<progressVars, cards, deck, fetches, reviewing, ratings, overlapped, recap>>
  /\ AfterRender

\* rate, by a button or a key; isRating lets one through at a time, of a page:
\* one opened anew knows nothing of the ratings of those that were left.
\* Bounds: MaxVersion and Raters.
Rate(again) ==
  LET unused == {i \in Raters : ratings[i] = NoRating}
      new    == deck.cards[Turn[1]].new
  IN
  /\ OnScreen /\ ShowAnswer /\ Turn[2] < MaxVersion
  /\ unused # {} /\ \A i \in Raters \ unused : ~ratings[i].mounted
  /\ ratings' = [ratings EXCEPT ![Min(unused)] =
                   [pc |-> "saving", card |-> Turn[1], version |-> Turn[2], new |-> new, again |-> again,
                    saved |-> FALSE, fetch |-> 0, job |-> 0, mounted |-> TRUE]]
  /\ overlapped' = (overlapped \/ (new /\ \E i \in Raters \ unused : ratings[i].new))
  /\ voice' = [voice EXCEPT !.spoken = NoTurn]
  /\ UNCHANGED <<progressVars, cards, deck, fetches, reviewing, revealed, recap>>

\* saveReview: only over the version that was rated; then the deck refreshes.
\* A card rated Again is due again by the time it is looked at.
SaveReview(i) ==
  /\ ratings[i].pc = "saving" /\ CanFetch
  /\ LET c == ratings[i].card
         saved == cards[c].version = ratings[i].version
     IN /\ cards' = IF saved
                    THEN [cards EXCEPT ![c] = [cards[c] EXCEPT !.version = @ + 1, !.new = FALSE,
                                                               !.due = ratings[i].again, !.here = TRUE]]
                    ELSE cards
        /\ ratings' = [ratings EXCEPT ![i].pc = "fetching", ![i].saved = saved, ![i].version = 0,
                                      ![i].fetch = Min({k \in Fetches : fetches[k] = NoFetch})]
  /\ StartRefresh("rating")
  /\ Rerender
  /\ UNCHANGED <<reviewing, revealed, overlapped, recap>>
  /\ AfterRender

\* "Couldn't save. Try again."
FailReview(i) ==
  /\ ratings[i].pc = "saving"
  /\ EndRating(i)
  /\ UNCHANGED <<progressVars, cards, deck, fetches, reviewing, revealed, overlapped, voice, recap>>

\* The practice of a rating is recorded: the rating is over.
Recorded(j) == [i \in Raters |-> IF ratings[i].pc = "recording" /\ ratings[i].job = j THEN NoRating ELSE ratings[i]]

Listen ==
  /\ OnScreen /\ voice.can /\ Turn # NoTurn
  /\ voice' = [voice EXCEPT !.spoken = Turn]
  /\ UNCHANGED <<progressVars, cards, deck, fetches, reviewing, revealed, ratings, overlapped, recap>>

\* Listen, of a card under "Rated Again" once no card is due.
RecapListen(c) ==
  /\ OnScreen /\ voice.can /\ Turn = NoTurn /\ c \in recap
  /\ voice' = [voice EXCEPT !.spoken = RecapTurn(c)]
  /\ UNCHANGED <<progressVars, cards, deck, fetches, reviewing, revealed, ratings, overlapped, recap>>

SpeechEnds ==
  /\ voice.spoken # NoTurn
  /\ voice' = [voice EXCEPT !.spoken = NoTurn]
  /\ UNCHANGED <<progressVars, cards, deck, fetches, reviewing, revealed, ratings, overlapped, recap>>

ListenFirst ==
  /\ OnScreen /\ voice.can /\ Turn # NoTurn
  /\ voice' = [voice EXCEPT !.first = ~@,
                 !.spoken = IF ~voice.first /\ ~ShowAnswer THEN Turn ELSE @]
  /\ UNCHANGED <<progressVars, cards, deck, fetches, reviewing, revealed, ratings, overlapped, recap>>

SayIt ==
  /\ OnScreen /\ voice.can /\ Turn # NoTurn /\ ~ShowAnswer /\ SayItState # "listening"
  /\ voice' = [voice EXCEPT !.spoken = NoTurn, !.say = "listening", !.turn = Turn]
  /\ UNCHANGED <<progressVars, cards, deck, fetches, reviewing, revealed, ratings, overlapped, recap>>

\* The recognition ends, also while the deck is loading.
SaidIt ==
  /\ voice.say = "listening"
  /\ voice' = [voice EXCEPT !.say = "heard"]
  /\ UNCHANGED <<progressVars, cards, deck, fetches, reviewing, revealed, ratings, overlapped, recap>>

\* Try again, of a Say it attempt.
SayItAgain ==
  /\ OnScreen /\ SayItState = "heard"
  /\ voice' = [voice EXCEPT !.say = "idle", !.turn = NoTurn]
  /\ UNCHANGED <<progressVars, cards, deck, fetches, reviewing, revealed, ratings, overlapped, recap>>
=============================================================================
