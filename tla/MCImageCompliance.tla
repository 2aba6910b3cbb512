------------------------- MODULE MCImageCompliance --------------------------
(***************************************************************************)
(* A small catalogue for ImageCompliance.  The policy "base" has two       *)
(* scanners and "extra" one.  Two critical fixable issues of trivy exceed  *)
(* its limit together and reach it alone, an unfixable issue of lint       *)
(* exceeds its limit at once.                                              *)
(***************************************************************************)
EXTENDS ImageCompliance

Issue(s, c, f) == [scanner |-> s, cve |-> c, severity |-> "CRITICAL", fixable |-> f]
Exception(p, s, c) == [policy |-> p, scanner |-> s, cve |-> c]

SmallOwner == [s \in {"trivy", "lint", "kics"} |->
                 IF s = "kics" THEN "extra" ELSE "base"]
SmallIssues == {Issue("trivy", "cve1", TRUE), Issue("trivy", "cve2", TRUE),
                Issue("lint", "cve1", FALSE), Issue("kics", "cve1", TRUE)}
SmallExceptions == {Exception("any", "any", "cve1"),
                    Exception("base", "trivy", "cve2")}
SmallLimit == [s \in {"trivy", "lint", "kics"} |-> [v \in {"CRITICAL"} |->
                 [f \in BOOLEAN |-> IF f THEN 1 ELSE 0]]]
=============================================================================
