------------------------------- MODULE VibeTags -------------------------------
(***************************************************************************)
(* The vibe tags of descriptions, which a language model chooses and does  *)
(* not choose the same way twice.  Before its loop a run of the pipeline   *)
(* looks up the descriptions of its batch in the table vibe_tag_cache,     *)
(* asks the model for the others, several at once, and keeps each answer   *)
(* in a savepoint of a transaction that it commits before the first row    *)
(* (_prepare_vibe_tags of app/services/data_pipeline.py, classify of       *)
(* app/services/vibe_tagger.py).  Two workers may do so at once.           *)
(*                                                                         *)
(* Simplifications.  A description stands for its cache key, and every one *)
(* has an observation.  A chunk is one observation.  Taggers without       *)
(* classify, which only tests inject, are left out.                        *)
(***************************************************************************)
EXTENDS Naturals, FiniteSets, Sequences, SequencesExt

CONSTANTS
    Taggers,          \* worker processes
    Descriptions,     \* keys of the cache
    TagSets,          \* what the model may answer
    MaxTagCalls,      \* max_tagging_calls_per_run
    TagConcurrency,   \* tagging_concurrency
    MaxTagRuns        \* bound: runs

NotCached == "not cached"
NoTags    == "no tags"        \* no call, or a call that failed

ASSUME TagsAssumption ==
    /\ IsFiniteSet(Descriptions)
    /\ TagSets \cap {NotCached, NoTags} = {}
    /\ TagConcurrency \in Nat \ {0}
    /\ {MaxTagCalls, MaxTagRuns} \subseteq Nat

VARIABLES
    tagCache,   \* vibe_tag_cache, as committed
    tagRun,     \* the run of each worker
    tagRuns,    \* runs begun
    given,      \* history: what the model has answered for each description
    tagged      \* history: the tags on committed rows, by description

tagVars == <<tagCache, tagRun, tagRuns, given, tagged>>

AtRest == [stage |-> "rest"]

TagsInit ==
    /\ tagCache \in [Descriptions -> TagSets \cup {NotCached}]
    /\ tagRun = [w \in Taggers |-> AtRest]
    /\ tagRuns = 0
    /\ given = [d \in Descriptions |-> {tagCache[d]} \ {NotCached}]
    /\ tagged = [d \in Descriptions |-> {}]

Remaining(w) == [tagRun EXCEPT ![w].todo = Tail(@)]

\* process_raw_events, with the descriptions in the order of the batch
StartRun(w) ==
    /\ tagRun[w] = AtRest
    /\ tagRuns < MaxTagRuns
    /\ tagRuns' = tagRuns + 1
    /\ \E order \in SetToSeqs(Descriptions) :
          tagRun' = [tagRun EXCEPT ![w] =
            [stage |-> "look up", batch |-> order, todo |-> order, asks |-> <<>>,
             answer   |-> [d \in Descriptions |-> NotCached],
             prepared |-> [d \in Descriptions |-> NoTags],
             unsaved  |-> [d \in Descriptions |-> NotCached]]]
    /\ UNCHANGED <<tagCache, given, tagged>>

\* session.get for one description: known, to be asked, or beyond the budget
LookUp(w) ==
    LET r == tagRun[w]
        d == Head(r.todo)
    IN  /\ r.stage = "look up" /\ r.todo # <<>>
        /\ tagRun' = [Remaining(w) EXCEPT
              ![w].prepared[d] = IF tagCache[d] # NotCached THEN tagCache[d] ELSE @,
              ![w].asks = IF tagCache[d] = NotCached /\ Len(@) < MaxTagCalls
                          THEN Append(@, d) ELSE @]
        /\ UNCHANGED <<tagCache, tagRuns, given, tagged>>

EndLookUp(w) ==
    /\ tagRun[w].stage = "look up" /\ tagRun[w].todo = <<>>
    /\ tagRun' = [tagRun EXCEPT ![w].stage = "classify", ![w].todo = tagRun[w].asks]
    /\ UNCHANGED <<tagCache, tagRuns, given, tagged>>

\* The calls that have not ended, and those of them that hold the semaphore.
Unanswered(r) == {n \in DOMAIN r.asks : r.answer[r.asks[n]] = NotCached}

InFlight(w) ==
    LET r == tagRun[w]
    IN  {r.asks[n] : n \in {i \in Unanswered(r) :
            Cardinality({j \in Unanswered(r) : j < i}) < TagConcurrency}}

\* One of them ends, with tags or with nothing usable.
Classify(w) ==
    /\ tagRun[w].stage = "classify"
    /\ \E d \in InFlight(w) :
          \/ \E tags \in TagSets :
                /\ tagRun' = [tagRun EXCEPT ![w].answer[d] = tags]
                /\ given' = [given EXCEPT ![d] = @ \cup {tags}]
          \/ /\ tagRun' = [tagRun EXCEPT ![w].answer[d] = NoTags]
             /\ UNCHANGED given
    /\ UNCHANGED <<tagCache, tagRuns, tagged>>

\* gather has them all.
EndClassify(w) ==
    /\ tagRun[w].stage = "classify" /\ InFlight(w) = {}
    /\ tagRun' = [tagRun EXCEPT ![w].stage = "keep"]
    /\ UNCHANGED <<tagCache, tagRuns, given, tagged>>

\* Whose uncommitted row of the same key an insert waits for.
TagHolders(w, d) ==
    {v \in Taggers \ {w} : tagRun[v] # AtRest /\ tagRun[v].unsaved[d] # NotCached}

\* Fault: a run that is second goes on with its own answer.
KeepAnswer_Own(w) ==
    LET r == tagRun[w]
        d == Head(r.todo)
    IN  /\ r.stage = "keep" /\ r.todo # <<>>
        /\ r.answer[d] # NoTags => TagHolders(w, d) = {}
        /\ tagRun' = [Remaining(w) EXCEPT
              ![w].prepared[d] = r.answer[d],
              ![w].unsaved[d] = IF r.answer[d] = NoTags \/ tagCache[d] # NotCached THEN @
                                ELSE r.answer[d]]
        /\ UNCHANGED <<tagCache, tagRuns, given, tagged>>

\* Fault: a failed call is kept like an answer.
KeepAnswer_Failed(w) ==
    LET r == tagRun[w]
        d == Head(r.todo)
        winner == tagCache[d]
    IN  /\ r.stage = "keep" /\ r.todo # <<>>
        /\ TagHolders(w, d) = {}
        /\ tagRun' = [Remaining(w) EXCEPT
              ![w].prepared[d] = IF winner # NotCached THEN winner ELSE r.answer[d],
              ![w].unsaved[d] = IF winner # NotCached THEN @ ELSE r.answer[d]]
        /\ UNCHANGED <<tagCache, tagRuns, given, tagged>>

\* _store_tag_cache of a successful answer: the insert waits for another run's,
\* and where a row is already there, that one is used.  A failure is not kept.
KeepAnswer(w) ==
    LET r == tagRun[w]
        d == Head(r.todo)
        winner == tagCache[d]
    IN  /\ r.stage = "keep" /\ r.todo # <<>>
        /\ r.answer[d] # NoTags => TagHolders(w, d) = {}
        /\ tagRun' = [Remaining(w) EXCEPT
              ![w].prepared[d] = IF r.answer[d] # NoTags /\ winner # NotCached
                                 THEN winner ELSE r.answer[d],
              ![w].unsaved[d] = IF r.answer[d] = NoTags \/ winner # NotCached THEN @
                                ELSE r.answer[d]]
        /\ UNCHANGED <<tagCache, tagRuns, given, tagged>>

\* The answers are committed before the rows.
EndKeep(w) ==
    LET r == tagRun[w]
    IN  /\ r.stage = "keep" /\ r.todo = <<>>
        /\ tagCache' = [d \in Descriptions |->
                          IF r.unsaved[d] # NotCached THEN r.unsaved[d] ELSE tagCache[d]]
        /\ tagRun' = [tagRun EXCEPT
              ![w].stage = "store", ![w].todo = r.batch,
              ![w].unsaved = [d \in Descriptions |-> NotCached]]
        /\ UNCHANGED <<tagRuns, given, tagged>>

\* A chunk of rows is committed.
CommitChunk(w) ==
    LET r == tagRun[w]
        d == Head(r.todo)
    IN  /\ r.stage = "store" /\ r.todo # <<>>
        /\ tagged' = [tagged EXCEPT ![d] = @ \cup {r.prepared[d]}]
        /\ tagRun' = Remaining(w)
        /\ UNCHANGED <<tagCache, tagRuns, given>>

\* The end of the loop, or of the run anywhere before it: the database breaks a
\* deadlock of two runs that way.  What is not committed is gone.
EndRun(w) ==
    /\ tagRun[w] # AtRest
    /\ tagRun' = [tagRun EXCEPT ![w] = AtRest]
    /\ UNCHANGED <<tagCache, tagRuns, given, tagged>>

TagsRest ==
    /\ tagRuns = MaxTagRuns
    /\ \A w \in Taggers : tagRun[w] = AtRest
    /\ UNCHANGED tagVars

TagsNext ==
    \/ \E w \in Taggers :
          \/ StartRun(w) \/ LookUp(w) \/ EndLookUp(w) \/ Classify(w) \/ EndClassify(w)
          \/ KeepAnswer(w) \/ EndKeep(w) \/ CommitChunk(w) \/ EndRun(w)
    \/ TagsRest

TagsSpec == TagsInit /\ [][TagsNext]_tagVars

-----------------------------------------------------------------------------
\* One description has one set of tags: rows that were tagged at all carry the
\* tags in the cache, whichever of several overlapping runs asked first, asked
\* last, or was rolled back after another had waited for it.  And the cache
\* holds only what the model has answered, never the empty result of an outage.
OneChoicePerDescription ==
    \A d \in Descriptions :
        /\ tagged[d] \ {NoTags} \subseteq {tagCache[d]}
        /\ tagCache[d] # NotCached => tagCache[d] \in given[d]
=============================================================================
