----------------------------- MODULE MCEvidence -----------------------------
(***************************************************************************)
(* The workflow and the findings of an accepted bundle, with every way an  *)
(* entry of a report or an approved document can differ where the code     *)
(* looks.                                                                  *)
(***************************************************************************)
EXTENDS Findings, Workflow

cve(n) == <<"CVE", n>>
ghsa(n) == <<"GHSA", n>>
yaml(s) == [base |-> "pyyaml", spelled |-> s]
ssl == [base |-> "openssl", spelled |-> "openssl"]

Trivy(class, type, purl, id, aliases, pkg, severity, fixes, state) ==
  [ class |-> class, type |-> type, purl |-> purl, id |-> id, aliases |-> aliases,
    pkg |-> pkg, version |-> 1, severity |-> severity, fixes |-> fixes, state |-> state ]

MCTrivy ==
  { Trivy("lang-pkgs", "python-pkg", "pypi", cve(1), {}, yaml("PyYAML"), "HIGH", {2}, "fixed"),
    Trivy("os-pkgs", "debian", "deb", cve(2), {}, ssl, "LOW", {}, "affected"),
    Trivy("os-pkgs", "debian", "deb", cve(2), {}, ssl, "MEDIUM", {3}, ""),
    Trivy("os-pkgs", "alpine", "apk", cve(2), {}, ssl, "HIGH", {}, ""),
    Trivy("lang-pkgs", "conda-pkg", "pypi", ghsa(1), {cve(1)}, yaml("pyyaml"), "Odd", {}, "") }

Grype(type, purl, id, aliases, pkg, severity, fixes, state) ==
  [ type |-> type, purl |-> purl, id |-> id, aliases |-> aliases, pkg |-> pkg,
    version |-> 1, severity |-> severity, fixes |-> fixes, state |-> state ]

MCGrype ==
  { Grype("python", "pypi", ghsa(1), {cve(1)}, yaml("pyyaml"), "Critical", {3}, "fixed"),
    Grype("python", "pypi", cve(1), {}, yaml("pyyaml"), "Negligible", {}, "not-fixed"),
    Grype("deb", "deb", cve(2), {}, ssl, "High", {}, "fixed"),
    Grype("binary", "generic", cve(2), {}, ssl, "High", {3}, "fixed"),
    Grype("npm", "npm", cve(2), {}, ssl, "High", {}, "wont-fix") }

Config(type, path, line, status, severity) ==
  [ type |-> type, path |-> path, file |-> 1, line |-> line, rule |-> 1,
    status |-> status, severity |-> severity, resolution |-> TRUE ]

MCConfig ==
  { Config("dockerfile", {"dockerfile"}, 0, "FAIL", "HIGH"),
    Config("yaml", {"helm"}, 1, "FAIL", "MEDIUM"),
    Config("unheard-of", {"templates"}, 2, "FAIL", "LOW"),
    Config("yaml", {}, 1, "FAIL", "LOW"),
    Config("yaml", {}, 1, "PASS", "LOW") }

\* PyYAML must stay below 3: one of the two fixed versions is out of bounds.
MCRequirements ==
  { [pkg |-> yaml("pep503"), bounded |-> TRUE, allows |-> {1, 2}],
    [pkg |-> yaml("pep503"), bounded |-> FALSE, allows |-> {2, 3}] }

Sound ==
  [ file |-> "json", context |-> TRUE,
    statements |-> {[suppresses |-> TRUE, justified |-> TRUE]},
    author |-> TRUE, timestamp |-> TRUE,
    issue |-> "fork", by |-> "allowed", approved_at |-> TRUE ]

MCDocuments ==
  { Sound,
    [Sound EXCEPT !.file = "directory"],
    [Sound EXCEPT !.file = "placeholder"],
    [Sound EXCEPT !.statements = {[suppresses |-> TRUE, justified |-> FALSE]}],
    [Sound EXCEPT !.statements = {[suppresses |-> FALSE, justified |-> TRUE]}],
    [Sound EXCEPT !.issue = "elsewhere"],
    [Sound EXCEPT !.by = "none"],
    [Sound EXCEPT !.author = FALSE] }

\* The reports are read once a first bundle without documents is accepted as
\* complete; the workflow is not run again then.
Readable ==
  /\ uploaded /\ attempt = 1 /\ gateFile # Nothing /\ gateMode = "enforce" /\ approved = {}
  /\ Accepted(bundle) /\ RuntimeVerified(bundle)

Next ==
  \/ WNext /\ reports = NoReports /\ UNCHANGED fvars
  \/ Readable /\ FNext /\ UNCHANGED wvars

Init == FInit /\ WInit

Spec == Init /\ [][Next]_<<fvars, wvars>>
=============================================================================
