------------------------------- MODULE Client -------------------------------
(***************************************************************************)
(* The HTTP side of the two clients, DevinRest and GitHubRest: what may    *)
(* have happened at the other end when a call returns or raises, and what  *)
(* a listing read page by page returns.                                    *)
(***************************************************************************)
EXTENDS Naturals, Sequences, FiniteSets, FiniteSetsExt, SequencesExt

CONSTANTS MaxLost, PageSize, MaxPages

ASSUME ClientAssumption == {MaxLost, PageSize, MaxPages} \subseteq Nat \ {0}

\* How one attempt may end: answered; refused for good; a status that is tried
\* again (502, 503, 504, a rate limit); no answer, with and without an effect.
Replies == {"answered", "refused", "busy", "lost", "unsent"}

Attempts == 4

\* The attempts the client makes: it stops at an answer or a refusal.
Made(script) ==
  LET final == {i \in 1 .. Len(script) : script[i] \in {"answered", "refused"}}
  IN  SubSeq(script, 1, IF final = {} THEN Len(script) ELSE Min(final))

Outcome(script) ==
  LET made == Made(script)
  IN  [ landed   |-> Cardinality({i \in DOMAIN made : made[i] \in {"answered", "lost"}}),
        answered |-> Last(made) = "answered" ]

Scripts(attempts) ==
  {s \in [1 .. attempts -> Replies] : Cardinality({i \in DOMAIN s : s[i] = "lost"}) <= MaxLost}

\* _request: how often the call took effect, and whether it returned or raised.
Request == {Outcome(s) : s \in Scripts(Attempts)}

\* The calls made without it (remove_label, delete_branch, get_file).
RequestOnce == {Outcome(s) : s \in Scripts(1)}

Page(items, p) == SubSeq(items, (p - 1) * PageSize + 1, Min({p * PageSize, Len(items)}))

\* GitHub: page after page, up to and with the first one that is not full.
Paginate(items) ==
  LET short == {p \in 1 .. MaxPages : Len(Page(items, p)) < PageSize}
      last  == Min(short)
  IN  [ whole |-> short # {},
        items |-> IF short = {} THEN <<>>
                  ELSE SubSeq(items, 1, (last - 1) * PageSize + Len(Page(items, last))) ]

\* Devin: a listing goes on until a page says it is the last, full or not; one
\* that has not ended after MaxPages raises.
PagesSuffice(found) == Cardinality(found) <= MaxPages * PageSize
=============================================================================
