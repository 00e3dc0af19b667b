----------------------------- MODULE MCPipeline -----------------------------
(* Pipelines for TLC. *)
EXTENDS Pipeline

StepOf(id, kind, refs) ==
  [id |-> id, kind |-> kind, refs |-> refs, blank |-> {}, complete |-> TRUE,
   require |-> FALSE, parse |-> TRUE, skip |-> FALSE, as |-> "", body |-> <<>>]

Loop(in, as, body) ==
  [StepOf("b", "foreach", {in}) EXCEPT !.as = as, !.body = body]

\* Bodies: the element and outer values are used, a sub-step hides an outer id,
\* two sub-steps in a row, references ahead, and bodies the validator refuses.
Bodies ==
  { <<StepOf("e", "emit", {"x"})>>,
    <<StepOf("a", "call", {"x", "a"}), StepOf("e", "emit", {"a"})>>,
    <<StepOf("c", "http", {"input"}), StepOf("e", "emit", {"c", "x"})>>,
    <<StepOf("c", "call", {"e"}), StepOf("e", "emit", {"c"})>>,
    <<StepOf("e", "emit", {"b"}), StepOf("c", "jq", {"x"})>>,
    <<StepOf("c", "call", {"x"})>>,
    <<StepOf("e", "return", {"x"})>>,
    <<StepOf("e", "emit", {"x"}), StepOf("e", "emit", {"x"})>>,
    <<Loop("x", "y", <<StepOf("e", "emit", {"x"})>>)>> }

Firsts ==
  { StepOf("a", "call", {"input"}),
    [StepOf("a", "call", {"input"}) EXCEPT !.require = TRUE],
    [StepOf("a", "call", {}) EXCEPT !.complete = FALSE],
    StepOf("a", "jq", {"b"}), StepOf("a", "jq", {"q"}), StepOf("b", "http", {}),
    [StepOf("a", "jq", {"q", "b"}) EXCEPT !.blank = {"q", "b"}] }

Seconds ==
  { Loop("a", "x", body) : body \in Bodies } \cup
  { [Loop("a", "x", <<StepOf("e", "emit", {"x"})>>) EXCEPT !.skip = TRUE, !.require = TRUE],
    [Loop("c", "x", <<StepOf("e", "emit", {"x"})>>) EXCEPT !.skip = TRUE],
    StepOf("b", "return", {"a"}) }

Thirds ==
  { StepOf("c", "return", {"b"}), [StepOf("c", "return", {"b"}) EXCEPT !.require = TRUE],
    StepOf("c", "call", {"a", "b"}), StepOf("c", "return", {"q"}) }

AllPipelines == {<<s, t, u>> : s \in Firsts, t \in Seconds, u \in Thirds} \cup {<<s>> : s \in Firsts}

\* For the statements the code does not keep: a require inside a foreach, and a
\* reference to a later step.
OddPipelines ==
  { <<StepOf("a", "call", {}),
      Loop("a", "x", <<[StepOf("c", "call", {"x"}) EXCEPT !.require = TRUE],
                       StepOf("e", "emit", {"c"})>>),
      StepOf("c", "return", {"b"})>>,
    <<StepOf("a", "jq", {"b"}), StepOf("b", "call", {}), StepOf("c", "return", {"a"})>> }
=============================================================================
