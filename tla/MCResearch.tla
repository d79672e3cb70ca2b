----------------------------- MODULE MCResearch -----------------------------
(* Small instances of Research for TLC. *)
EXTENDS Research

CONSTANTS w1, w2, w3, d1, d2, d3, s1, s2

SmallHome == (d1 :> s1) @@ (d2 :> s1) @@ (d3 :> s2)
SmallNames == (d1 :> {"x", "y"}) @@ (d2 :> {"x"}) @@ (d3 :> {"z"})

Auto(d) == Work("auto", "begin", {}, d, None, FALSE)
Generate(d) == Work("generate", "begin", {}, d, None, FALSE)
Force(d) == Work("generate", "begin", {}, d, None, TRUE)
Build == Work("build", "begin", {}, None, None, FALSE)
Asks(flags, s) == Work("ask", "ask", flags, None, s, FALSE)
Deep(s) == Work("deep", "report", {}, None, s, FALSE)

Jobs(a, b, c) == (w1 :> a) @@ (w2 :> b) @@ (w3 :> c)
SmallScene ==
    { Jobs(Auto(d1), Generate(d1), Build),
      Jobs(Generate(d1), Generate(d2), Build),
      Jobs(Force(d1), Force(d1), Build),
      Jobs(Auto(d1), Force(d1), Build),
      Jobs(Generate(d1), Asks({"analysis", "document"}, s1), Asks({"document"}, s1)),
      Jobs(Asks({"deep"}, s1), Asks({"deep"}, s2), Deep(s1)),
      Jobs(Asks({"multi"}, s1), Build, Generate(d2)),
      Jobs(Build, Build, Generate(d2)),
      Jobs(Asks({"document"}, s2), Build, Force(d1)),
      Jobs(Asks({"multi", "deep", "document"}, s1), Asks({}, s2), Asks({"analysis"}, s2)),
      Jobs(Asks({"fresh", "mention"}, s2), Asks({"document", "calculate", "fresh", "talk"}, s2), Asks({"compare", "summary"}, s1)),
      Jobs(Asks({"calculate"}, s1), Asks({"talk"}, s1), Generate(d1)) }
=============================================================================
