----------------------------- MODULE MCArtifact -----------------------------
(***************************************************************************)
(* A behaviour is one of the registries' records (Registry) or one of an     *)
(* artifact made over them and judged later (Artifact), of which either the  *)
(* insurance is news, or the credential's status.                            *)
(***************************************************************************)
EXTENDS Artifact, TLC

CONSTANTS m1, m2, w1, w2
VARIABLE part

Touched == ledger # <<>> \/ notice # "none" \/ By(0) # {} \/ \E w \in Faithful : polls[w] # NoPoll

\* Bounds: the insurer files only while the credential has no status, notice or
\* witness; and they come only to an artifact made at 2 on every mirror's word, when all are
\* honest and nothing is filed; before a notice is acknowledged nothing else is
\* recorded or witnessed.  One word is presented before the commitment and one
\* after it, when every mirror answers afresh
Judged ==
    /\ ANext
    /\ chain' # chain => /\ honest = Mirrors \cup {Insurer} /\ filed = NotFiled
                        /\ Embedded = Mirrors /\ artifact.at = 2
    /\ notice = "lodged" /\ chain' # chain => notice' # notice
    /\ notice' = "lodged" => notice = "lodged" \/ ~Touched
    /\ (filed' # filed \/ word' # word) => ~Touched
    /\ word' # word => word = NoAnswer \/ (artifact # NoArtifact /\ renewal = NoAnswer)
    /\ word' # word => \A m \in Mirrors : held'[m].sync = now
    /\ Word => word' # word

MCInit == AInit /\ part \in {"records", "artifact"}

MCNext ==
    /\ UNCHANGED part
    /\ \/ part = "artifact" /\ Judged
       \/ part = "records" /\ Next /\ UNCHANGED <<artifact, renewal, chain, verdict>>

MCSpec == MCInit /\ [][MCNext]_<<part, avars>>

Symmetry == Permutations(Mirrors)
=============================================================================
