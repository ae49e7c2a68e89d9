-------------------------- MODULE DigestGeneration --------------------------
(***************************************************************************)
(* From stored articles to the messages of a digest, in one run: select    *)
(* candidates (app/domain/selection.py), have the model write a digest,    *)
(* with retries (app/infrastructure/llm/openai_client.py) and one repair   *)
(* (app/application/digest_generation.py), split it into Telegram messages *)
(* (digest_render.py) and make the entity and rows of it                   *)
(* (app/domain/digest.py).                                                 *)
(*                                                                         *)
(* Scores, the model's output and the lengths of texts are arbitrary; what *)
(* is made of them is not.  Articles are numbers, in the order of their    *)
(* ids, which breaks ties between scores.                                  *)
(***************************************************************************)
EXTENDS Naturals, FiniteSets, Sequences, SequencesExt

CONSTANTS
  Articles, SourceOf,
  Scores,        (* the scores an article may get; Refused is none         *)
  Sizes,         (* the lengths a rendered article may have                *)
  MaxPerSource,  (* MAX_ITEMS_PER_SOURCE                                   *)
  MaxCandidates, (* settings.max_llm_candidates                            *)
  MinItems,      (* settings.min_digest_items                              *)
  TopItems,      (* settings.digest_top_articles                           *)
  MaxItems,      (* settings.max_digest_items                              *)
  SchemaItems,   (* what the output's schema and the tables hold: 7        *)
  MaxRetries,    (* settings.openai_max_retries                            *)
  TitleSize, FooterSize, SeparatorSize,
  SizeLimit      (* TELEGRAM_MESSAGE_LIMIT                                 *)

ASSUME GenerationAssumption ==
  /\ Articles \subseteq Nat /\ IsFiniteSet(Articles)
  /\ Scores \subseteq Nat \ {0} /\ Sizes \subseteq Nat \ {0}
  /\ {MaxPerSource, MaxCandidates, MinItems, TopItems, MaxItems, SchemaItems}
       \subseteq Nat \ {0}
  /\ MaxRetries \in Nat
  /\ {TitleSize, FooterSize, SeparatorSize, SizeLimit} \subseteq Nat \ {0}

(* What Settings requires of the limits, one by one and together.          *)
WithinBounds == \A limit \in {MinItems, TopItems, MaxItems} : limit <= SchemaItems
SettingsAccepted ==
  /\ WithinBounds
  /\ MinItems <= TopItems /\ TopItems <= MaxItems /\ MaxItems <= MaxCandidates
ASSUME SettingsAssumption == SettingsAccepted

Refused == 0

VARIABLES
  score,      (* article -> score_item's score, or Refused                 *)
  candidates, (* selected articles, best first                             *)
  usable,     (* of those, the ones that still are CANDIDATE when loaded   *)
  answers,    (* what the requests to the model brought, in order          *)
  envelope,   (* what Digest checks of the accepted response but its items *)
  digest,     (* the accepted items: articles, in the model's order        *)
  sizes,      (* the lengths of their blocks                               *)
  groups,     (* the blocks packed so far, a sequence of sequences         *)
  stage       (* the next step, or the result                              *)

vars == <<score, candidates, usable, answers, envelope, digest, sizes, groups, stage>>

Init ==
  /\ score \in [Articles -> Scores \cup {Refused}]
  /\ candidates = <<>> /\ usable = {} /\ answers = <<>>
  /\ envelope = "sound" /\ digest = <<>> /\ sizes = <<>> /\ groups = <<>>
  /\ stage = "select"

-----------------------------------------------------------------------------
Scored == {a \in Articles : score[a] # Refused}

(* scored.sort: by score, then by id.                                      *)
Before(a, b) == score[a] > score[b] \/ (score[a] = score[b] /\ a < b)
Ranked ==
  CHOOSE ranking \in [1 .. Cardinality(Scored) -> Scored] :
    \A i, j \in DOMAIN ranking : i < j => Before(ranking[i], ranking[j])

TakenFrom(s, chosen) == Cardinality({i \in DOMAIN chosen : SourceOf[chosen[i]] = s})

(* Mutants: the comparisons are one too generous, with the cap of a source *)
(* or with the limit of candidates.                                        *)
MutantTakeMore(chosen, a) ==
  IF Len(chosen) > MaxCandidates \/ TakenFrom(SourceOf[a], chosen) >= MaxPerSource
    THEN chosen
    ELSE Append(chosen, a)
MutantTake(chosen, a) ==
  IF Len(chosen) >= MaxCandidates \/ TakenFrom(SourceOf[a], chosen) > MaxPerSource
    THEN chosen
    ELSE Append(chosen, a)

(* The body of the loop: nothing more is taken once the limit is reached.  *)
Take(chosen, a) ==
  IF Len(chosen) >= MaxCandidates \/ TakenFrom(SourceOf[a], chosen) >= MaxPerSource
    THEN chosen
    ELSE Append(chosen, a)

Select ==
  /\ stage = "select"
  /\ candidates' = FoldLeft(Take, <<>>, Ranked)
  /\ stage' = IF Len(candidates') < MinItems THEN "no content" ELSE "load"
  /\ UNCHANGED <<score, usable, answers, envelope, digest, sizes, groups>>

(* The candidates are loaded again, another run may have used some; their  *)
(* scores have done their part.                                            *)
Load ==
  /\ stage = "load"
  /\ usable' \in SUBSET ToSet(candidates)
  /\ score' = [a \in Articles |-> Refused]
  /\ stage' = "ask"
  /\ UNCHANGED <<candidates, answers, envelope, digest, sizes, groups>>

-----------------------------------------------------------------------------
AtMost(m, n) == IF m <= n THEN m ELSE n
Desired == AtMost(AtMost(TopItems, MaxItems), Len(candidates))
Least   == AtMost(MinItems, Desired)

(* The items of an output: a candidate, by its number, or                  *)
(*   Wrong   an item rejected by itself: unknown number, markup in the text *)
(*   Hollow  a usable candidate whose summary or reason is long enough as  *)
(*           it is and too short without the white space around it.        *)
Wrong  == "wrong"
Hollow == "hollow"
Items  == {[number |-> n, flaw |-> "none"] : n \in 1 .. Len(candidates)}
            \cup {[number |-> 0, flaw |-> flaw] : flaw \in {Wrong, Hollow}}

(* DigestModelOutput: what does not parse as one is an error of the client.*)
Outputs ==
  {output \in SeqOf(Items, AtMost(SchemaItems, MaxItems + 1)) :
     /\ output # <<>>
     /\ \A i, j \in DOMAIN output :
          i # j /\ output[i] = output[j] => output[i].flaw # "none"}

Usable(item) == item.flaw = "none" /\ candidates[item.number] \in usable

(* Mutant: items that name an article somebody used are taken.             *)
MutantValid(output) ==
  /\ Len(output) \in Least .. Desired
  /\ \A i \in DOMAIN output : output[i].flaw = "none"

(* validate_model_output: any error rejects the whole output.              *)
Valid(output) ==
  /\ Len(output) \in Least .. Desired
  /\ \A i \in DOMAIN output : Usable(output[i])

(* DigestItem raises for a hollow item that no error precedes.             *)
Raises(output) ==
  /\ Len(output) \in Least .. Desired
  /\ \E i \in DOMAIN output :
       output[i].flaw = Hollow /\ \A j \in 1 .. i - 1 : Usable(output[j])

(* Title, blocks and footer are joined by blank lines.                     *)
BlocksSize(group) ==
  FoldLeft(LAMBDA total, size : total + size, (Len(group) - 1) * SeparatorSize, group)
FullSize(group) == TitleSize + 2 + BlocksSize(group) + 2 + FooterSize + 1
PartSize(group, first, final) ==
  (IF first THEN TitleSize + 2 ELSE 0) + BlocksSize(group)
    + (IF final THEN 2 + FooterSize ELSE 0) + 1

(* Mutant: the probe of a single article leaves out the footer.            *)
MutantFitsAlone(size) == PartSize(<<size>>, TRUE, FALSE) <= SizeLimit
FitsAlone(size) == FullSize(<<size>>) <= SizeLimit

-----------------------------------------------------------------------------
(* The errors of one request: timeouts, lost connections, 429 and 5xx are  *)
(* tried again, other statuses and output off the schema are not.          *)
Errors == {"OPENAI_TIMEOUT", "OPENAI_RATE_LIMITED", "INVALID_STRUCTURED_OUTPUT"}

(* Mutant: a rate limit is taken for final.                                *)
MutantIsRetryable(code) == code = "OPENAI_TIMEOUT"

IsRetryable(code) == code \in {"OPENAI_TIMEOUT", "OPENAI_RATE_LIMITED"}

Attempts == IF MaxRetries = 0 THEN 1 ELSE MaxRetries

(* The requests of the call in progress: the first, or the repair.         *)
Tries == Len(answers) - SelectLastInSeq(answers, LAMBDA answer : answer = "rejected")
Repairing == Contains(answers, "rejected")

Answered(answer) == answers' = Append(answers, answer)

RequestFails ==
  /\ stage = "ask"
  /\ \E code \in Errors :
       /\ Answered(code)
       /\ stage' = IF IsRetryable(code) /\ Tries + 1 < Attempts THEN "ask" ELSE "llm error"
  /\ UNCHANGED <<score, candidates, usable, envelope, digest, sizes, groups>>

(* A rejected output is repaired once.                                     *)
Reject ==
  /\ stage = "ask"
  /\ \E output \in Outputs : ~ Valid(output) /\ ~ Raises(output)
  /\ Answered("rejected")
  /\ stage' = IF Repairing THEN "llm error" ELSE "ask"
  /\ UNCHANGED <<score, candidates, usable, envelope, digest, sizes, groups>>

Raise ==
  /\ stage = "ask"
  /\ \E output \in Outputs : Raises(output)
  /\ Answered("hollow")
  /\ stage' = "unexpected"
  /\ UNCHANGED <<score, candidates, usable, envelope, digest, sizes, groups>>

(* An accepted output is rendered; if one article does not fit in a        *)
(* message, that raises, unrepaired.                                       *)
Accept ==
  /\ stage = "ask"
  /\ \E output \in Outputs :
       /\ Valid(output)
       /\ digest' = [i \in DOMAIN output |-> candidates[output[i].number]]
       /\ sizes' \in [DOMAIN output -> Sizes]
  /\ envelope' \in {"sound", "unsound"}
  /\ groups' = << <<>> >>
  /\ Answered("accepted")
  /\ stage' = IF \A i \in DOMAIN sizes' : FitsAlone(sizes'[i]) THEN "pack" ELSE "unexpected"
  /\ UNCHANGED <<score, candidates, usable>>

-----------------------------------------------------------------------------
Packed == Len(FlattenSeq(groups))

(* Mutants: the footer is left out; a message may not be filled.           *)
MutantJoins(block) ==
  PartSize(Append(Last(groups), block), TRUE, FALSE) <= SizeLimit
MutantJoinsBelow(block) == FullSize(Append(Last(groups), block)) < SizeLimit

(* Every message leaves room for the title and the footer.                 *)
Joins(block) == FullSize(Append(Last(groups), block)) <= SizeLimit

(* One block: it joins the last message or starts another.                 *)
Pack ==
  /\ stage = "pack"
  /\ LET block == sizes[Packed + 1]
     IN  groups' = IF Joins(block)
                     THEN [groups EXCEPT ![Len(groups)] = Append(@, block)]
                     ELSE Append(groups, <<block>>)
  /\ stage' = IF Packed + 1 = Len(sizes) THEN "compose" ELSE "pack"
  /\ UNCHANGED <<score, candidates, usable, answers, envelope, digest, sizes>>

Fits(i) == PartSize(groups[i], i = 1, i = Len(groups)) <= SizeLimit

Compose ==
  /\ stage = "compose"
  /\ stage' = IF \A i \in DOMAIN groups : Fits(i) THEN "store" ELSE "unexpected"
  /\ UNCHANGED <<score, candidates, usable, answers, envelope, digest, sizes, groups>>

(* Digest.__post_init__ raises for an unsound envelope: a title that is    *)
(* blank, an id of the response that is blank or too long, a negative      *)
(* count of tokens.                                                        *)
EntityAccepts ==
  /\ envelope = "sound"
  /\ Len(digest) \in 1 .. SchemaItems
  /\ IsInjective(digest)

(* digest_items: its position lies in 1 .. 7, and both the positions and   *)
(* the articles of a digest differ.                                        *)
TableAccepts ==
  /\ DOMAIN digest \subseteq 1 .. SchemaItems
  /\ \A i, j \in DOMAIN digest : i # j => digest[i] # digest[j]

(* That the articles still are candidates, which create_generated checks   *)
(* under its locks, is Pipeline's StillCandidates.                         *)
Store ==
  /\ stage = "store"
  /\ stage' = IF ~ EntityAccepts THEN "unexpected"
              ELSE IF TableAccepts THEN "digest" ELSE "refused"
  /\ UNCHANGED <<score, candidates, usable, answers, envelope, digest, sizes, groups>>

Next ==
  \/ Select \/ Load \/ RequestFails \/ Reject \/ Raise \/ Accept
  \/ Pack \/ Compose \/ Store

Results == {"no content", "llm error", "unexpected", "refused", "digest"}

Spec == Init /\ [][Next]_vars
-----------------------------------------------------------------------------
TypeOK ==
  /\ score \in [Articles -> Scores \cup {Refused}]
  /\ candidates \in Seq(Articles) /\ Len(candidates) <= MaxCandidates
  /\ usable \subseteq Articles
  /\ answers \in Seq(Errors \cup {"rejected", "hollow", "accepted"})
  /\ envelope \in {"sound", "unsound"}
  /\ digest \in Seq(Articles) /\ Len(digest) <= MaxItems
  /\ sizes \in Seq(Sizes) /\ Len(sizes) = Len(digest)
  /\ groups \in Seq(Seq(Sizes))
  /\ stage \in Results \cup {"select", "load", "ask", "pack", "compose", "store"}

(* The walk over the ranking selects exactly the best articles among those *)
(* that are within the best MaxPerSource of their source.                  *)
SelectionIsBest ==
  LET better(a)  == {b \in Scored : Before(b, a)}
      eligible   == {a \in Scored :
                       Cardinality({b \in better(a) : SourceOf[b] = SourceOf[a]})
                         < MaxPerSource}
  IN  stage \in {"load", "no content"} =>
        /\ ToSet(candidates) =
             {a \in eligible : Cardinality(better(a) \cap eligible) < MaxCandidates}
        /\ \A i, j \in DOMAIN candidates :
             i < j => Before(candidates[i], candidates[j])

(* Whatever the model answers, what is stored as a digest has different    *)
(* articles that were selected and still may be used, as many as the       *)
(* settings want; and tables never refuse what was validated.              *)
DigestIsSound ==
  /\ stage \in {"pack", "compose", "store", "digest"} =>
       /\ ToSet(digest) \subseteq ToSet(candidates) \cap usable
       /\ Cardinality(ToSet(digest)) = Len(digest)
       /\ Len(digest) \in MinItems .. TopItems
  /\ stage # "refused"

(* The model is asked again exactly as often as it may help: a call ends   *)
(* at its first answer or final error, or after as many attempts as the    *)
(* settings say, and one repair follows one rejection.                     *)
RequestsSpent ==
  LET rejected == Cardinality({i \in DOMAIN answers : answers[i] = "rejected"})
      again    == {"OPENAI_TIMEOUT", "OPENAI_RATE_LIMITED"}
  IN  /\ rejected <= 2 /\ Len(answers) <= 2 * Attempts
      /\ \A i \in 1 .. Len(answers) - 1 : answers[i] \in again \cup {"rejected"}
      /\ stage = "llm error" =>
           \/ Last(answers) = "INVALID_STRUCTURED_OUTPUT"
           \/ Last(answers) = "rejected" /\ rejected = 2
           \/ Last(answers) \in again /\ Tries = Attempts
      /\ stage = "unexpected" =>
           \/ Last(answers) = "hollow"
           \/ envelope = "unsound"
           \/ \E i \in DOMAIN sizes : FullSize(<<sizes[i]>>) > SizeLimit

(* Splitting loses, repeats and reorders nothing and leaves no message     *)
(* empty; every message fits without another look at it; and no division   *)
(* into messages that leave the same room needs fewer.                     *)
SplitIsRight ==
  stage \in {"store", "digest"} =>
    /\ FlattenSeq(groups) = sizes
    /\ \A i \in DOMAIN groups :
         groups[i] # <<>> /\ PartSize(groups[i], i = 1, i = Len(groups)) <= SizeLimit
    /\ \A cuts \in SUBSET (1 .. Len(sizes) - 1) :
         LET ends          == cuts \cup {0, Len(sizes)}
             between(m, n) == {e \in ends : m < e /\ e < n}
         IN  (\A m, n \in ends :
                m < n /\ between(m, n) = {} => FullSize(SubSeq(sizes, m + 1, n)) <= SizeLimit)
               => Len(groups) <= Cardinality(cuts) + 1
=============================================================================
