--------------------------- MODULE ReleaseSearch ---------------------------
(***************************************************************************)
(* A search for releases (Search, internal/api/misc.go): every source that *)
(* is configured is asked by a goroutine of its own; what they answer is   *)
(* merged as it comes, every batch is filtered, scored (internal/scorer)   *)
(* and streamed to the browser.  A source may speak for many indexers, and *)
(* two sources for one of them: its release then comes twice, and is       *)
(* streamed once.  Copies of a release on different indexers are different *)
(* results, though the comment at misc.go:120 says they are kept once: the *)
(* key that it describes holds the indexer's name.                         *)
(***************************************************************************)
EXTENDS Integers, Sequences, SequencesExt, FiniteSets

CONSTANTS
  Indexers, \* the sources: Prowlarr, Jackett, Hydra
  Error,    \* the answer of a source that fails
  Worlds,   \* what the sources that are configured answer: functions to sequences, or Error
  Requests, \* the categories of a request: sets of numbers
  ChanSize  \* results the channel holds (10)

VARIABLES
  answers,    \* what the sources answer this search
  categories, \* those asked for
  asked,      \* the goroutines that have not answered
  ch, closed, \* their channel
  seen,       \* the keys of the results that have come
  batches,    \* what was streamed
  over

searchVars == <<answers, categories, asked, ch, closed, seen, batches, over>>

Init ==
  /\ answers \in Worlds /\ categories \in Requests
  /\ asked = DOMAIN answers
  /\ ch = <<>> /\ closed = FALSE /\ seen = {} /\ batches = <<>>
  /\ over = (DOMAIN answers = {})

-----------------------------------------------------------------------------
(* Scores.  A result has its title and the name of the indexer that has it, *)
(* its categories, what the title says (source tier, type, whether an      *)
(* installer is in it), how well that fits the game, in percent, size in   *)
(* GB, seeders, protocol.                                                  *)

Release ==
  [name : STRING, indexer : STRING, cats : SUBSET Nat, tier : 1..4, title : 0..100,
   type : {"game", "update", "dlc", "demo"}, installer : BOOLEAN, size : Nat, seeders : Nat,
   nzb : BOOLEAN]

sourceScore(tier) == IF tier = 4 THEN 0 ELSE 50 - 10 * tier

seederScore(r) ==
  IF r.nzb THEN 20
  ELSE CASE r.seeders = 0 -> 0
         [] r.seeders \in 1..4 -> 5
         [] r.seeders \in 5..19 -> 10
         [] r.seeders \in 20..99 -> 15
         [] r.seeders >= 100 -> 20

tooLarge(r) ==
  r.size > CASE r.type = "update" -> 10 [] r.type = "dlc" -> 30 [] r.type = "demo" -> 15
             [] r.type = "game" -> IF r.installer THEN 100 ELSE 80

ScoreResult(r) ==
  (r.title * 30) \div 100 + sourceScore(r.tier) + seederScore(r) + IF tooLarge(r) THEN 0 ELSE 10

\* ScoreAll: the best first, and those of one score as they came.  What it sorts are
\* the places of results in an answer; there is one order of them.
Precedes(results, i, j) ==
  \/ ScoreResult(results[i]) > ScoreResult(results[j])
  \/ ScoreResult(results[i]) = ScoreResult(results[j]) /\ i < j

ScoreAll(results, places) ==
  { order \in [1..Cardinality(places) -> places] :
      /\ \A i \in places : \E n \in DOMAIN order : order[n] = i
      /\ \A m, n \in DOMAIN order : m < n => Precedes(results, order[m], order[n]) }

-----------------------------------------------------------------------------
(* Categories: thousands of Newznab; above 100000 an indexer's own, whose  *)
(* rest is one of those unless it is below 1000.                           *)

matchesAnyCategory(cats, requested) ==
  \/ \A c \in cats : c = 0
  \/ \E q \in requested, c \in cats :
       LET id == IF c >= 100000 THEN c % 100000 ELSE c IN
       (c >= 100000 /\ id < 1000) \/ q \div 1000 = id \div 1000

Wanted(r) == categories = {} \/ matchesAnyCategory(r.cats, categories)

-----------------------------------------------------------------------------
(* The search.                                                             *)

\* The goroutine of a source; it waits while the channel is full.
Answer(i) ==
  /\ i \in asked /\ Len(ch) < ChanSize
  /\ ch' = Append(ch, answers[i])
  /\ asked' = asked \ {i}
  /\ UNCHANGED <<answers, categories, closed, seen, batches, over>>

\* wg.Wait, and close.
Close ==
  /\ asked = {} /\ ~closed /\ closed' = TRUE
  /\ UNCHANGED <<answers, categories, asked, ch, seen, batches, over>>

\* By what a result is known.
Key(r) == <<r.name, r.size, r.indexer>>

\* The merge that looks only at batches that came before.
Fresh_Within(results, i) == Key(results[i]) \notin seen

\* What is new in a batch: not seen before, nor earlier in it.
Fresh(results, i) ==
  Key(results[i]) \notin seen /\ \A j \in 1..(i - 1) : Key(results[j]) # Key(results[i])

Merge ==
  /\ ch # <<>>
  /\ ch' = Tail(ch)
  /\ IF Head(ch) = Error
     THEN UNCHANGED <<seen, batches>>
     ELSE LET results == Head(ch)
              places == {i \in DOMAIN results : Fresh(results, i) /\ Wanted(results[i])} IN
          /\ seen' = seen \union {Key(r) : r \in ToSet(results)}
          /\ \E order \in ScoreAll(results, places) :
               batches' = IF places = {} THEN batches
                          ELSE Append(batches, [n \in DOMAIN order |-> results[order[n]]])
  /\ UNCHANGED <<answers, categories, asked, closed, over>>

End ==
  /\ closed /\ ch = <<>> /\ ~over /\ over' = TRUE
  /\ UNCHANGED <<answers, categories, asked, ch, closed, seen, batches>>

Next == (\E i \in Indexers : Answer(i)) \/ Close \/ Merge \/ End

\* Sources answer or fail, in the end by their timeouts; the handler goes on.
Fairness ==
  /\ \A i \in Indexers : WF_searchVars(Answer(i))
  /\ WF_searchVars(Close) /\ WF_searchVars(Merge) /\ WF_searchVars(End)

-----------------------------------------------------------------------------
(* Properties.                                                             *)

Streamed == UNION {ToSet(batches[b]) : b \in DOMAIN batches}
Answered == UNION {ToSet(answers[i]) : i \in {j \in DOMAIN answers : answers[j] # Error}}

\* What is streamed was answered, and its score is between 0 and 100 with no cap
\* (scorer.go:352-361).
TypeOK ==
  /\ asked \subseteq DOMAIN answers /\ Len(ch) <= ChanSize
  /\ Streamed \subseteq Answered
  /\ \A r \in Answered : ScoreResult(r) \in 0..100

\* An indexer's release that several sources have, or one of them twice, is streamed
\* once, in whatever order they answer; the best of a batch comes first
\* (misc.go:120-170).  What it does not say is that copies on different indexers are
\* streamed once: they are not.
OnceAndSorted ==
  /\ \A b, c \in DOMAIN batches : \A i \in DOMAIN batches[b], j \in DOMAIN batches[c] :
       Key(batches[b][i]) = Key(batches[c][j]) => b = c /\ i = j
  /\ \A b \in DOMAIN batches : \A i, j \in DOMAIN batches[b] :
       i < j => ScoreResult(batches[b][i]) >= ScoreResult(batches[b][j])

\* When the search has ended the browser has everything the sources that answered
\* have, of the categories asked for.  A release that one of them lists under another
\* category may be missing: it is known, and left out, when the other copy comes.
AllStreamed ==
  over => \A r \in Answered :
    (\A s \in Answered : Key(s) = Key(r) => Wanted(s)) => \E s \in Streamed : Key(s) = Key(r)

\* The browser has every release of every indexer, once, and the best on top.
SearchWhole == OnceAndSorted /\ AllStreamed

\* For <>[]: a search ends, with more sources than the channel holds and when some fail.
SearchOver == over
=============================================================================
