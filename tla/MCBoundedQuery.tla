---------------------------- MODULE MCBoundedQuery ----------------------------
(* Three documents, the first two of twenty kinds and the last of ten, and   *)
(* what may be asked of them.  Two documents and three sentences may be      *)
(* selected, so that a ranking, and every round of expansion, has something  *)
(* to cut.  Values are "a", "b", a name or the number "7".                   *)
EXTENDS BoundedQuery

Context(kind, surface, evidence, authority) ==
  [kind |-> kind, surface |-> surface, evidence |-> evidence, authority |-> authority]
Asserted == <<Context("asserted", {}, {}, {})>>
Verified == <<Context("asserted", {}, {}, {"verified"})>>
Supposed == <<Context("drs:hypothetical", {"hypothetical"}, {}, {})>> \o Asserted
Denied == <<Context("drs:negated", {"negated"}, {}, {})>> \o Asserted
(* Contexts of a semantic frame, with words of its text. *)
Reported(evidence) == <<Context("modality:reported", {"reported"}, evidence, {})>> \o Asserted
Unreported(evidence) == <<Context("polarity:negative", {"negative"}, evidence, {})>> \o Asserted

Row(kind, about, value) ==
  [kind |-> kind, about |-> about, value |-> value, fits |-> TRUE, slot |-> FALSE,
   positive |-> TRUE, denies |-> {}, modality |-> "asserted", chain |-> Asserted,
   time |-> 0, stamp |-> 0, day |-> 0]
In(chain, s) == [s EXCEPT !.chain = chain]
Negative(s) == [s EXCEPT !.positive = FALSE]
Unfitting(s) == [s EXCEPT !.fits = FALSE]
Said(s) == [s EXCEPT !.modality = "reported"]
Slotted(s) == [s EXCEPT !.slot = TRUE]

(* Dates as they sort: phrases first by their digits, whatever their days. *)
Phrases == <<"10 May 2023", "12 May 2023", "2023-05-11", "2023-05-13", "9 May 2023">>
Day == <<10, 12, 11, 13, 9>>
Phrased(n, s) == [s EXCEPT !.time = n, !.day = Day[n]]
Stamped(n, s) == [s EXCEPT !.stamp = n, !.day = Day[n]]

MCNames == {"ada", "bea", "cleo", "it", "ada lee"}
MCPronouns == {"it"}
MCWithin == [n \in MCNames |-> IF n = "ada lee" THEN {"ada"} ELSE {n}]
MCNumbers == {"7"}

LastKinds == {
  <<Row("condition", "ada", "a")>>,
  <<Row("condition", "ada", "b"), Unfitting(Row("marker", None, None))>>,
  <<Negative(Row("condition", "ada", "b"))>>,
  <<In(Supposed, Row("condition", "ada", "b")), Row("same", "ada", "it")>>,
  <<Row("same", "ada", "bea")>>,
  <<Row("frame", "bea", "b")>>,
  <<Row("same", "bea", "cleo"), Row("cell", "cleo", "b")>>,
  <<Row("cell", "ada", "a"), Row("cell", "bea", "7")>>,
  <<Phrased(2, Row("condition", "ada", "b")), Unfitting(Row("condition", "ada", "bea"))>>,
  <<Phrased(5, Row("condition", "ada", "b"))>>}

DocKinds == LastKinds \cup {
  <<Said(Row("condition", "ada", "b")), Row("same", "ada lee", "bea")>>,
  <<In(Denied, Row("same", "ada", "bea")), Unfitting(Row("note", "ada", None))>>,
  <<Unfitting(Row("label", None, "ada")), Row("label", None, "a"), Row("label", None, "b")>>,
  <<Unfitting(Row("note", "ada", None)), Row("cell", None, "a")>>,
  <<Phrased(1, Row("condition", "ada", "a")), Row("condition", "ada", "ada lee")>>,
  <<Stamped(3, In(Verified, Row("label", "ada", "b")))>>,
  <<Stamped(3, Phrased(3, Row("condition", "ada", "a"))),
    Stamped(4, Phrased(4, Slotted(Row("condition", "ada", "b"))))>>,
  <<In(Unreported({RequestedRelation}), Row("frame", "ada", "a"))>>,
  <<In(Reported({RequestedRelation}), Phrased(5, Row("frame", "ada", "b")))>>,
  <<In(Reported({}), Row("same", "ada", "cleo")), In(Reported({RequestedRelation}), Row("same", "ada", "bea"))>>}

MCCorpora == {<<c, d, e>> : c \in DocKinds, d \in DocKinds, e \in LastKinds}

Asked(kind) ==
  [kind |-> kind, target |-> "ada", scope |-> "none", closed |-> FALSE, whole |-> FALSE,
   negated |-> FALSE, slots |-> FALSE, requirements |-> {}, authority |-> {}]
MCQuestions ==
  {Asked("value"), Asked("boolean"),
   [Asked("value") EXCEPT !.requirements = {"reported"}],
   [Asked("value") EXCEPT !.authority = {"verified"}, !.whole = TRUE],
   [Asked("value") EXCEPT !.scope = "latest"],
   [Asked("value") EXCEPT !.slots = TRUE],
   [Asked("state") EXCEPT !.negated = TRUE],
   Asked("list"),
   [Asked("most") EXCEPT !.closed = TRUE],
   Asked("count"),
   [Asked("count") EXCEPT !.closed = TRUE]}
=============================================================================
