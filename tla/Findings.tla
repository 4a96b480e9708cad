------------------------------ MODULE Findings ------------------------------
(***************************************************************************)
(* From scanner reports to work: the reports of one image are parsed into  *)
(* records, the records merged into findings, each finding classified and  *)
(* the classified ones grouped into candidates for a session; the policy   *)
(* reports of the same image, from which approved VEX documents hide       *)
(* vulnerabilities, decide the gate.                                       *)
(*                                                                         *)
(* A vulnerability id is <<"CVE" | "GHSA" | "other", n>>, a package name   *)
(* its normal form and how the report spells it, a version a number, a     *)
(* file what its path tells a parser.                                      *)
(***************************************************************************)
EXTENDS Integers, Sequences, SequencesExt

CONSTANTS TrivyEntries, GrypeEntries, ConfigEntries, Requirements,
          MaxEntries   \* bound: entries of one report

ASSUME FindingsAssumption == MaxEntries \in Nat

NoReports == <<>>

VARIABLES
  reports,     \* what the scanners wrote, NoReports before
  ok,          \* scanner_job_success
  findings,    \* the findings opened from the raw reports
  candidates,  \* group_findings: the work item candidates
  gate         \* the gate's verdict in enforce mode, "none" before

fvars == <<reports, ok, findings, candidates, gate>>

(***************************************************************************)
(* Words of the scanners.                                                  *)
(***************************************************************************)

Scanners == {"trivy", "grype"}

Rank == [s \in {"UNKNOWN", "LOW", "MEDIUM", "HIGH", "CRITICAL"} |->
           CASE s = "LOW" -> 1 [] s = "MEDIUM" -> 2 [] s = "HIGH" -> 3
             [] s = "CRITICAL" -> 4 [] OTHER -> 0]

\* Severity.parse: upper case, Grype's Negligible is LOW, other words UNKNOWN.
Severity(word) ==
  CASE word \in {"Low", "Negligible"} -> "LOW"
    [] word \in {"MEDIUM", "Medium"} -> "MEDIUM"
    [] word \in {"HIGH", "High"} -> "HIGH"
    [] word \in {"CRITICAL", "Critical"} -> "CRITICAL"
    [] OTHER -> "UNKNOWN"

MaxSeverity(S) == CHOOSE s \in S : \A t \in S : Rank[t] <= Rank[s]

\* Which package types each parser knows; the PURL speaks for the others.
TrivyTypes ==
  [ pypi |-> {"pip", "python-pkg", "pipenv", "poetry", "uv"},
    deb |-> {"debian", "ubuntu"},
    npm |-> {"npm", "node-pkg", "yarn", "pnpm"},
    golang |-> {"gomod", "gobinary"} ]

GrypeTypes ==
  [ pypi |-> {"python"}, deb |-> {"deb"}, npm |-> {"npm"},
    golang |-> {"go-module"}, binary |-> {"binary"} ]

PurlTypes ==
  [ pypi |-> {"pypi"}, deb |-> {"deb"}, npm |-> {"npm"},
    golang |-> {"golang"}, binary |-> {"generic"} ]

Lookup(table, word, default) ==
  IF \E e \in DOMAIN table : word \in table[e]
  THEN CHOOSE e \in DOMAIN table : word \in table[e] ELSE default

EcosystemFromPurl(purl) == Lookup(PurlTypes, purl, "unknown")

LayerFor(ecosystem) ==
  CASE ecosystem = "pypi" -> "python" [] ecosystem = "deb" -> "os" [] OTHER -> "binary"

ScannerEcosystems ==
  [trivy |-> {"pypi", "deb", "npm", "golang"},
   grype |-> {"pypi", "deb", "npm", "golang", "binary"}]

(***************************************************************************)
(* Records: what the parsers make of an entry.                             *)
(***************************************************************************)

\* canonical_vuln_id: the first CVE, else the first GHSA, else the primary id.
CanonicalId(primary, aliases) ==
  LET of(prefix) == {i \in {primary} \cup aliases : i[1] = prefix}
      least(S) == CHOOSE i \in S : \A j \in S : i[2] <= j[2]
  IN  IF of("CVE") # {} THEN least(of("CVE"))
      ELSE IF of("GHSA") # {} THEN least(of("GHSA")) ELSE primary

NormalName(pkg, ecosystem) ==
  IF ecosystem = "pypi" THEN [pkg EXCEPT !.spelled = "pep503"] ELSE pkg

\* RawVuln with its dedupe_key.
RawVuln(scanner, ecosystem, e) ==
  [ key |-> <<"vuln", CanonicalId(e.id, e.aliases), ecosystem,
              NormalName(e.pkg, ecosystem), e.version, LayerFor(ecosystem)>>,
    scanner |-> scanner, config |-> FALSE, pkg |-> NormalName(e.pkg, ecosystem),
    ecosystem |-> ecosystem, layer |-> LayerFor(ecosystem),
    severity |-> Severity(e.severity), fixes |-> e.fixes,
    state |-> IF e.state # "" THEN e.state
              ELSE IF e.fixes # {} THEN "fixed" ELSE "unknown" ]

\* The entries of a report that are in S, in their order.
Only(S, report) ==
  LET upTo[n \in 0 .. Len(report)] ==
        IF n = 0 THEN <<>>
        ELSE IF report[n] \in S THEN Append(upTo[n - 1], report[n]) ELSE upTo[n - 1]
  IN  upTo[Len(report)]

TrivyVulns(report) ==
  LET packages == Only({e \in TrivyEntries : e.class \in {"lang-pkgs", "os-pkgs"}}, report)
  IN  [i \in DOMAIN packages |->
         RawVuln("trivy", Lookup(TrivyTypes, packages[i].type,
                                 EcosystemFromPurl(packages[i].purl)), packages[i])]

GrypeVulns(report) ==
  [i \in DOMAIN report |->
     RawVuln("grype", Lookup(GrypeTypes, report[i].type,
                             EcosystemFromPurl(report[i].purl)), report[i])]

ConfigTypes ==
  [dockerfile |-> {"dockerfile"}, helm |-> {"helm", "kubernetes"},
   compose |-> {"dockercompose", "docker-compose", "yaml"}]

\* The layer of a configuration file: by its type, else by its path; a YAML
\* file whose path mentions helm is a chart.
ConfigLayer(e) ==
  LET byPath == CASE "dockerfile" \in e.path -> "dockerfile"
                  [] e.path \cap {"helm", "templates"} # {} -> "helm"
                  [] OTHER -> "compose"
      layer == Lookup(ConfigTypes, e.type, byPath)
  IN  IF layer = "compose" /\ "helm" \in e.path THEN "helm" ELSE layer

\* parse_trivy_misconfigs: a rule that passes is no finding; the start line
\* tells two failures of one rule in one file apart.
ConfigFindings(report) ==
  LET failures == Only({e \in ConfigEntries : e.status = "FAIL"}, report)
      record(e) ==
        [ key |-> <<"config", e.rule, ConfigLayer(e), <<e.file, e.line>> >>,
          scanner |-> "trivy", config |-> TRUE, pkg |-> <<>>,
          ecosystem |-> "config", layer |-> ConfigLayer(e),
          severity |-> Severity(e.severity), fixes |-> {},
          state |-> IF e.resolution THEN "fixed" ELSE "unknown" ]
  IN  [i \in DOMAIN failures |-> record(failures[i])]

(***************************************************************************)
(* normalize: one finding per key, whoever reported it.                    *)
(***************************************************************************)

\* What a first record makes of a key.
Opened(r) ==
  [ key |-> r.key, config |-> r.config, pkg |-> r.pkg,
    ecosystem |-> r.ecosystem, layer |-> r.layer, severity |-> r.severity,
    fixes |-> [s \in {} |-> {}], state |-> [s \in {} |-> ""] ]

Put(f, x, y) == [z \in DOMAIN f \cup {x} |-> IF z = x THEN y ELSE f[z]]

\* Mutant: the scanner that is read last decides the severity.
MergedLastSeverity(f, r) ==
  [ f EXCEPT !.fixes = Put(@, r.scanner, r.fixes),
             !.state = Put(@, r.scanner, r.state), !.severity = r.severity ]

\* A later record of the key: a scanner's last record stands for it, the
\* severity of a vulnerability only rises, that of a configuration stays.
Merged(f, r) ==
  [ f EXCEPT !.fixes = Put(@, r.scanner, r.fixes),
             !.state = Put(@, r.scanner, r.state),
             !.severity = IF ~f.config /\ Rank[r.severity] > Rank[@]
                          THEN r.severity ELSE @ ]

\* What is merged, by key, after one more record.
WithRecord(merged, r) ==
  Put(merged, r.key, Merged(IF r.key \in DOMAIN merged THEN merged[r.key] ELSE Opened(r), r))

Normalize(records) ==
  LET upTo[n \in 0 .. Len(records)] ==
        IF n = 0 THEN [k \in {} |-> {}] ELSE WithRecord(upTo[n - 1], records[n])
      merged == upTo[Len(records)]
  IN  {merged[k] : k \in DOMAIN merged}

ReportedBy(f) == DOMAIN f.state
AllFixes(f) == UNION {f.fixes[s] : s \in DOMAIN f.fixes}
HasFix(f) == AllFixes(f) # {}

(***************************************************************************)
(* classify: five rules, the first that matches wins.                      *)
(***************************************************************************)

NO_FIX_STATES == {"affected", "will_not_fix", "wont-fix", "fix_deferred",
                  "end_of_life", "not-fixed", "unknown", ""}

\* parse_upper_bounds: what the direct requirements with an upper bound allow.
\* The name is lowered and each separator becomes a dash.
UpperBounds ==
  LET bounded == {q \in Requirements : q.bounded}
  IN  [p \in {q.pkg : q \in bounded} |->
         {v \in UNION {q.allows : q \in bounded} :
            \A q \in bounded : q.pkg = p => v \in q.allows}]

\* The pre-releases among the fixed versions never satisfy a bound.
BoundBlocked(f) ==
  /\ f.pkg \in DOMAIN UpperBounds
  /\ AllFixes(f) \cap UpperBounds[f.pkg] = {}

Comparable(f) ==
  ~f.config /\ \A s \in Scanners : f.ecosystem \in ScannerEcosystems[s]

DeployConfig(f) == f.config /\ f.layer \in {"helm", "compose"}

\* Mutant: the other scanner's silence counts although its job failed.
DisagreementAnyway(f, success) ==
  Comparable(f) /\ \E s \in Scanners : ReportedBy(f) = {s}

Disagreement(f, success) ==
  /\ Comparable(f)
  /\ \E s \in Scanners : ReportedBy(f) = {s} /\ Scanners \ {s} \subseteq success

FixablePython(f) == ~f.config /\ f.ecosystem = "pypi" /\ HasFix(f)

NoFixAnywhere(f) ==
  ~f.config /\ ~HasFix(f) /\ \A s \in ReportedBy(f) : f.state[s] \in NO_FIX_STATES

ContainerFix(f) ==
  \/ f.config /\ f.layer = "dockerfile"
  \/ ~f.config /\ f.ecosystem \in {"deb", "binary", "npm", "golang"} /\ HasFix(f)

\* A disagreement is looked for before any other kind of vulnerability; the
\* other rules exclude each other.
Classify(f, success) ==
  LET as(kind, blocked) ==
        [finding |-> f, kind |-> kind, bound_blocked |-> blocked,
         risk |-> IF blocked THEN "high" ELSE "normal"]
  IN  IF Disagreement(f, success) THEN as("scanner_disagreement", FALSE)
      ELSE CASE DeployConfig(f) -> as("helm_deploy_config", FALSE)
             [] FixablePython(f) -> as("dependency_upgrade", BoundBlocked(f))
             [] NoFixAnywhere(f) -> as("no_fix_reachability", FALSE)
             [] ContainerFix(f) -> as("container_hardening", FALSE)
             [] OTHER -> as("unclassified", FALSE)

(***************************************************************************)
(* group_findings: one candidate per kind and group key.                   *)
(***************************************************************************)

\* Mutant: the packages of all ecosystems share their groups.
GroupKeyAnyEcosystem(c) ==
  CASE c.kind = "dependency_upgrade" -> <<"pypi", c.finding.pkg>>
    [] c.kind \in {"no_fix_reachability", "scanner_disagreement"} -> <<c.kind, c.finding.pkg>>
    [] c.kind = "container_hardening" -> <<"container", "packages">>
    [] OTHER -> <<"deploy", c.finding.layer>>

GroupKey(c) ==
  CASE c.kind = "dependency_upgrade" -> <<"pypi", c.finding.pkg>>
    [] c.kind = "no_fix_reachability" -> <<"nofix", c.finding.ecosystem, c.finding.pkg>>
    [] c.kind = "scanner_disagreement" ->
         <<"disagreement", c.finding.ecosystem, c.finding.pkg>>
    [] c.kind = "container_hardening" -> <<"container", c.finding.layer>>
    [] OTHER -> <<"deploy", c.finding.layer>>

Candidates(classified) ==
  LET groupable == {c \in classified : c.kind # "unclassified"}
      bucket(c) == {d \in groupable : d.kind = c.kind /\ GroupKey(d) = GroupKey(c)}
  IN  {[ kind |-> c.kind, key |-> GroupKey(c), members |-> bucket(c),
         severity |-> MaxSeverity({d.finding.severity : d \in bucket(c)}),
         risk |-> IF \E d \in bucket(c) : d.risk = "high" THEN "high" ELSE "normal" ] :
       c \in groupable}

(***************************************************************************)
(* One run of the pipeline.                                                *)
(***************************************************************************)

Vulns(mode) == TrivyVulns(reports[mode].trivy) \o GrypeVulns(reports[mode].grype)
Configs == ConfigFindings(reports.raw.config)

\* policy_counts and gate_verdict: the gate counts findings, not records.
PolicyCount(severities) ==
  {f \in Normalize(Vulns("policy")) : f.severity \in severities}
EnforceVerdict == IF PolicyCount({"HIGH", "CRITICAL"}) = {} THEN "pass" ELSE "fail"

FInit ==
  /\ reports = NoReports /\ ok = {}
  /\ findings = {} /\ candidates = {} /\ gate = "none"

\* The scanners write their reports; the policy scan differs by what the
\* approved documents hide, which both scanners match by an id of the entry.
Scan ==
  /\ reports = NoReports
  /\ ok' \in SUBSET Scanners
  /\ \E t \in SeqOf(TrivyEntries, MaxEntries), g \in SeqOf(GrypeEntries, MaxEntries),
        c \in SeqOf(ConfigEntries, 1),
        hidden \in SUBSET {e.id : e \in TrivyEntries \cup GrypeEntries} :
       LET shown(entries) == {e \in entries : ({e.id} \cup e.aliases) \cap hidden = {}}
       IN  reports' = [raw |-> [trivy |-> t, grype |-> g, config |-> c],
                       policy |-> [trivy |-> Only(shown(TrivyEntries), t),
                                   grype |-> Only(shown(GrypeEntries), g)]]
  /\ UNCHANGED <<findings, candidates, gate>>

\* Findings are opened from the raw reports, the gate judges the policy ones.
Ingest ==
  /\ reports # NoReports /\ gate = "none"
  /\ LET classified == {Classify(f, ok) : f \in Normalize(Vulns("raw") \o Configs)}
     IN  /\ findings' = classified
         /\ candidates' = Candidates(classified)
  /\ gate' = EnforceVerdict
  /\ UNCHANGED <<reports, ok>>

FNext == Scan \/ Ingest

FSpec == FInit /\ [][FNext]_fvars

(***************************************************************************)
(* Properties.                                                             *)
(***************************************************************************)

Ingested == gate # "none"

\* Whatever the scanners call a vulnerability and in whatever order they
\* report it, it is one finding, as severe as the worst report of it, named
\* by every scanner that reported it; a vulnerability the documents hide is
\* still a finding, and the gate passes in enforce mode exactly when no policy
\* report has a HIGH or CRITICAL entry left (normalize, policy_counts).
NothingIsLostInTheMerge ==
  Ingested =>
    LET raw == Vulns("raw")
        policy == Vulns("policy")
        of(key) == {i \in DOMAIN raw : raw[i].key = key}
    IN  /\ \A i \in DOMAIN raw : \E c \in findings : c.finding.key = raw[i].key
        /\ \A c, d \in findings : c.finding.key = d.finding.key => c = d
        /\ \A c \in findings : ~c.finding.config =>
             /\ ReportedBy(c.finding) = {raw[i].scanner : i \in of(c.finding.key)}
             /\ c.finding.severity = MaxSeverity({raw[i].severity : i \in of(c.finding.key)})
        /\ gate = "pass" <=>
             \A i \in DOMAIN policy : policy[i].severity \notin {"HIGH", "CRITICAL"}

\* Each classified finding is a member of exactly one candidate, with others
\* the same change can remove: the same kind, and the same package in one
\* ecosystem or the same layer; an unclassified one is in none.  A disagreement
\* rests on a scan that succeeded and found nothing, never on one that failed
\* (classify, group_key_for, group_findings).
GroupsBelongTogether ==
  /\ \A c \in findings :
       LET homes == {w \in candidates : c \in w.members}
       IN  IF c.kind = "unclassified" THEN homes = {} ELSE \E w \in homes : homes = {w}
  /\ \A w \in candidates : \A c, d \in w.members :
       /\ c.kind = d.kind
       /\ c.kind \in {"dependency_upgrade", "no_fix_reachability", "scanner_disagreement"}
            => c.finding.pkg = d.finding.pkg /\ c.finding.ecosystem = d.finding.ecosystem
       /\ c.kind \in {"container_hardening", "helm_deploy_config"}
            => c.finding.layer = d.finding.layer
  /\ \A c \in findings : c.kind = "scanner_disagreement" =>
       \E s \in Scanners : /\ s \in ok
                           /\ c.finding.ecosystem \in ScannerEcosystems[s]
                           /\ \A i \in DOMAIN Vulns("raw") :
                                Vulns("raw")[i].key = c.finding.key
                                  => Vulns("raw")[i].scanner # s

\* What the docstring of classify says of its fourth kind: no report of the
\* vulnerability names a fixed version (rules.py:6).
NoFixFromAnyReporter ==
  \A c \in findings : c.kind = "no_fix_reachability" =>
    \A i \in DOMAIN Vulns("raw") :
      Vulns("raw")[i].key = c.finding.key => Vulns("raw")[i].fixes = {}
=============================================================================
