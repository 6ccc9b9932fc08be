------------------------------- MODULE ConfigGen -------------------------------
(***************************************************************************)
(* From the rules an operator types to what Apache Traffic Server does:    *)
(* validateRules, the rule tables Create and Update fill, the three files  *)
(* GenerateConfigFiles renders from them, and their hash.                  *)
(*                                                                         *)
(* The files are rendered twice, from separate reads: for the hash when    *)
(* the configuration is approved, and for each helper that asks.           *)
(*                                                                         *)
(* Abstractions                                                            *)
(*  - An IPv4 address is the set of the positions of its one bits, of     *)
(*    which position 1 is the highest: &, | and ^ on its bytes are \cap,   *)
(*    \cup and \ on these sets.  One address stands for IPv6, and is used  *)
(*    in the client ACL only; what a destination rule with an IPv6 or      *)
(*    IPv4-mapped CIDR renders is left out.                                *)
(*  - A name is the sequence of its labels.                                *)
(*  - A file is the sequence of its lines, and a line its fields.          *)
(*  - Submit and Approve are one step; their statements, and what else may *)
(*    happen between them, are in ConfigApproval.                          *)
(***************************************************************************)
EXTENDS Integers, SequencesExt

CONSTANTS
    Width,          \* the bits of an IPv4 address
    Hosts,          \* names that are looked up
    LocalRanges,    \* the ranges of the infrastructure lines, in their order
    LocalDomains,   \* the domains of the infrastructure lines, in their order
    Loopback, Loopback6, Private,    \* 127.0.0.1, ::1 and 10.0.0.0/8
    Requests,       \* bodies of the Create and Update requests
    None

VARIABLES
    status,    \* configs.status: "none", "draft" or "active"
    cfg,       \* the default action and the rule tables
    hashed,    \* the files config_hash was computed from
    served,    \* the files in the last answer of GetConfig
    asked      \* history: what the last Create or Update answered with

vars == <<status, cfg, hashed, served, asked>>

ASSUME WidthAssumption == Width \in Nat \ {0}

-----------------------------------------------------------------------------
(* Addresses and names *)

Addrs == SUBSET (1..Width)

Zero == {}

\* The length of a bare address, which is typed without one.
Bare == -1

Mask(len) == 1..len

Network(c) == c.ip \cap Mask(c.len)

\* Faulty variant of CidrToRange: it starts at the address typed.
CidrToRangeTyped(c) ==
    IF c.len = Bare
    THEN <<c.ip, c.ip>>
    ELSE <<c.ip, c.ip \cup (1..Width \ Mask(c.len))>>

CidrToRange(c) ==
    IF c.len = Bare
    THEN <<c.ip, c.ip>>
    ELSE <<Network(c), Network(c) \cup (1..Width \ Mask(c.len))>>

\* The order of addresses as numbers: the highest bit they differ in decides.
UpTo(a, b) == a = b \/ \E i \in b \ a : a \cap 1..(i - 1) = b \cap 1..(i - 1)

InRange(a, range) == UpTo(range[1], a) /\ UpTo(a, range[2])

\* What a CIDR means: the addresses that share its first len bits.
InPrefix(a, c) ==
    CASE c.len = Bare -> a = c.ip
      [] c.len # Bare /\ c.ip \in Addrs ->
            a \in Addrs /\ \A i \in Mask(c.len) : i \in a <=> i \in c.ip
      [] c.len # Bare /\ c.ip \notin Addrs -> a \notin Addrs

\* *.example.com is any name below example.com.
InDomain(h, d) == IF d.wild THEN IsStrictSuffix(d.labels, h) ELSE h = d.labels

-----------------------------------------------------------------------------
(* validateRules *)

ValidAction(a) == a \in {"direct", "parent"}

\* The pattern wants two labels, after a wildcard too.
ValidDomain(d) == Len(d.labels) >= 2

\* Faulty variant of ValidCIDR: it looks at the address typed.
ValidCIDRTyped(c) == c.ip \in Addrs => c.ip # Zero

ValidCIDR(c) ==
    c.ip \in Addrs => IF c.len = Bare THEN c.ip # Zero ELSE Network(c) # Zero

ValidPort(n) == n \in 1024..65535

\* Faulty variant of ValidateRules: the action of an ACL rule is not looked at.
ValidateRulesAnyACL(r) ==
    /\ ValidAction(r.default)
    /\ \A d \in r.domains : ValidDomain(d.domain) /\ ValidAction(d.action)
    /\ \A i \in r.ips : ValidCIDR(i.cidr) /\ ValidAction(i.action)
    /\ \A a \in r.acl : ValidCIDR(a.cidr)
    /\ \A p \in r.parents : p.address \in Addrs /\ ValidPort(p.port)

ValidateRules(r) ==
    /\ ValidAction(r.default)
    /\ \A d \in r.domains : ValidDomain(d.domain) /\ ValidAction(d.action)
    /\ \A i \in r.ips : ValidCIDR(i.cidr) /\ ValidAction(i.action)
    /\ \A a \in r.acl : ValidCIDR(a.cidr) /\ a.action \in {"allow", "deny"}
    /\ \A p \in r.parents : p.address \in Addrs /\ ValidPort(p.port)

\* The tables refuse a second row with the key of another (client_acl_rules, of
\* migrations/003_client_acl_rules.sql, as the others of 001_initial.sql).
Unique(S, Key(_)) == \A r, s \in S : Key(r) = Key(s) => r = s

Insertable(r) ==
    /\ Unique(r.domains, LAMBDA d : d.domain)
    /\ Unique(r.ips, LAMBDA i : i.cidr)
    /\ Unique(r.acl, LAMBDA a : a.cidr)
    /\ Unique(r.parents, LAMBDA p : <<p.address, p.port>>)

Defaulted(r) == [r EXCEPT !.default = IF @ = "" THEN "direct" ELSE @]

-----------------------------------------------------------------------------
(* The files *)

\* Faulty variant of Sorted: no ORDER BY and no sort.
SortedNot(S) == SetToSeqs(S)

\* The orders the rows of a table may be read in: only the priority is sorted by.
Sorted(S) ==
    {s \in SetToSeqs(S) : \A i, j \in 1..Len(s) : i < j => s[i].priority <= s[j].priority}

\* The k-th of the positions in I.
At(I, k) == CHOOSE i \in I : Cardinality({j \in I : j <= i}) = k

\* The elements of s at the positions in I, in their order.
Kept(s, I) == [k \in 1..Cardinality(I) |-> s[At(I, k)]]

\* Lines of parent.config: what they are about, and the parents they name.
IpLine(range, go) == [on |-> "ip", to |-> range, go |-> go]

DomainLine(d, go) == [on |-> "domain", to |-> d, go |-> go]

\* No parent: go_direct=true.
Direct == <<>>

Infrastructure ==
    [k \in DOMAIN LocalRanges |-> IpLine(LocalRanges[k], Direct)]
    \o [k \in DOMAIN LocalDomains |-> DomainLine(LocalDomains[k], Direct)]

ParentList(parents) ==
    LET enabled == Kept(parents, {k \in DOMAIN parents : parents[k].enabled})
    IN  [k \in DOMAIN enabled |-> <<enabled[k].address, enabled[k].port>>]

\* Without a parent to name, rules that ask for one give no line.
Rendered(rules, up) ==
    Kept(rules, {k \in DOMAIN rules : rules[k].action = "direct" \/ up # <<>>})

Go(action, up) == IF action = "direct" THEN Direct ELSE up

IpLines(rules, up) ==
    [k \in DOMAIN rules |-> IpLine(CidrToRange(rules[k].cidr), Go(rules[k].action, up))]

DomainLines(rules, up) ==
    [k \in DOMAIN rules |-> DomainLine(rules[k].domain, Go(rules[k].action, up))]

\* dest_domain=. is every name.
Root == [labels |-> <<>>, wild |-> TRUE]

ParentConfig(ips, domains, parents, default) ==
    LET up == ParentList(parents)
    IN  Infrastructure
        \o IpLines(Rendered(ips, up), up)
        \o DomainLines(Rendered(domains, up), up)
        \o <<DomainLine(Root, Go(default, up))>>

\* The domains that sni.yaml tunnels.
SNIYaml(domains) ==
    LET direct == Kept(domains, {k \in DOMAIN domains : domains[k].action = "direct"})
    IN  [k \in DOMAIN direct |-> direct[k].domain]

AclLine(cidr, action) == [cidr |-> cidr, action |-> action]

IPAllowYaml(acl) ==
    [k \in DOMAIN acl |-> AclLine(acl[k].cidr, acl[k].action)]
    \o <<AclLine([ip |-> Zero, len |-> 0], "deny"),
         AclLine([ip |-> Loopback6, len |-> 0], "deny")>>

\* One rendering of the tables.
Files ==
    {[parent |-> ParentConfig(ips, domains, parents, cfg.default),
      sni    |-> SNIYaml(domains),
      allow  |-> IPAllowYaml(acl)] :
        ips \in Sorted(cfg.ips), domains \in Sorted(cfg.domains),
        parents \in Sorted(cfg.parents), acl \in Sorted(cfg.acl)}

-----------------------------------------------------------------------------
(* What Traffic Server does with them: the first line that matches decides. *)

Matches(l, h, a) == IF l.on = "domain" THEN InDomain(h, l.to) ELSE InRange(a, l.to)

\* The first line of a file that is in M.
Deciding(lines, M) == lines[Min({k \in DOMAIN lines : lines[k] \in M})]

\* The parents a request to host h at address a goes to.
Route(f, h, a) == Deciding(f.parent, {l \in ToSet(f.parent) : Matches(l, h, a)}).go

\* Whether the client at address a is allowed or denied.
Verdict(f, a) == Deciding(f.allow, {l \in ToSet(f.allow) : InPrefix(a, l.cidr)}).action

-----------------------------------------------------------------------------
(* The configuration *)

EmptyBody == [default |-> "direct", domains |-> {}, ips |-> {}, parents |-> {}, acl |-> {}]

DefaultACL ==
    {[cidr |-> [ip |-> Loopback, len |-> Bare], action |-> "allow", priority |-> 10],
     [cidr |-> [ip |-> Loopback6, len |-> Bare], action |-> "allow", priority |-> 20],
     [cidr |-> Private, action |-> "allow", priority |-> 30]}

\* Faulty variant of Replaced: the rows of before are not deleted.
ReplacedNot(old, new) == old \cup new

\* DeleteByConfig, then one INSERT per row.
Replaced(old, new) == new

Init ==
    /\ status = "none"
    /\ cfg = EmptyBody
    /\ hashed = None
    /\ served = None
    /\ asked = EmptyBody

Create(r) ==
    LET body == [r EXCEPT !.acl = IF @ = {} THEN DefaultACL ELSE @] IN
    /\ status = "none"
    /\ ValidateRules(r)
    /\ Insertable(r)
    /\ status' = "draft"
    /\ cfg' = body
    /\ asked' = body
    /\ UNCHANGED <<hashed, served>>

\* An update with no ACL rules leaves none: the defaults are Create's alone.
Update(r) ==
    /\ status = "draft"
    /\ ValidateRules(r)
    /\ Insertable(r)
    /\ cfg' = [default |-> r.default,
               domains |-> Replaced(cfg.domains, r.domains),
               ips     |-> Replaced(cfg.ips, r.ips),
               parents |-> Replaced(cfg.parents, r.parents),
               acl     |-> Replaced(cfg.acl, r.acl)]
    /\ asked' = r
    /\ UNCHANGED <<status, hashed, served>>

Approve ==
    /\ status = "draft"
    /\ status' = "active"
    /\ hashed' \in Files
    /\ UNCHANGED <<cfg, served, asked>>

\* A helper with another hash asks for the files.
GetConfig ==
    /\ status = "active"
    /\ served' \in Files
    /\ UNCHANGED <<status, cfg, hashed, asked>>

Next ==
    \/ \E r \in Requests : Create(Defaulted(r)) \/ Update(Defaulted(r))
    \/ Approve
    \/ GetConfig

Spec == Init /\ [][Next]_vars

-----------------------------------------------------------------------------
(* Safety *)

Cidrs == [ip : Addrs \cup {Loopback6}, len : {Bare} \cup 0..Width]

Names == [labels : Seq(STRING), wild : BOOLEAN]

\* The rows of a body; what the two actions can be is up to validateRules.
Bodies(defaults, actions, verdicts) ==
    {b \in [default : defaults,
            domains : SUBSET [domain : Names, action : actions, priority : Int],
            ips     : SUBSET [cidr : [ip : Addrs, len : {Bare} \cup 0..Width],
                              action : actions, priority : Int],
            acl     : SUBSET [cidr : Cidrs, action : verdicts, priority : Int],
            parents : SUBSET [address : Addrs, port : Int, priority : Int,
                              enabled : BOOLEAN]] :
        /\ IsFiniteSet(b.domains) /\ IsFiniteSet(b.ips)
        /\ IsFiniteSet(b.acl) /\ IsFiniteSet(b.parents)}

\* 127.0.0.1 and 10.0.0.0/8 are no part of 0.0.0.0/n; ::1 is no IPv4 address.
ASSUME LocalAssumption ==
    /\ Loopback \in Addrs \ {Zero}
    /\ Loopback6 \notin Addrs
    /\ Private \in [ip : Addrs, len : 0..Width] /\ Network(Private) # Zero
    /\ LocalRanges \in Seq(Addrs \X Addrs)
    /\ LocalDomains \in Seq(Names)

\* Among the names looked up is one without a dot.
ASSUME HostsAssumption ==
    /\ Hosts \subseteq Seq(STRING) \ {<<>>}
    /\ \E h \in Hosts : Len(h) = 1

\* What the JSON of a request can hold.
ASSUME RequestsAssumption == Requests \subseteq Bodies(STRING, STRING, STRING)

\* The tables hold what validateRules accepts, and the files come from them.
TypeOK ==
    /\ status \in {"none", "draft", "active"}
    /\ {cfg, asked} \subseteq Bodies({"direct", "parent"}, {"direct", "parent"},
                                     {"allow", "deny"})
    /\ hashed \in IF status = "active" THEN Files ELSE {None}
    /\ served \in IF status = "active" THEN Files \cup {None} ELSE {None}

\* The rules that come first in priority.
First(S) == {r \in S : \A s \in S : r.priority <= s.priority}

IsLocal(h, a) ==
    \/ \E k \in DOMAIN LocalRanges : InRange(a, LocalRanges[k])
    \/ \E k \in DOMAIN LocalDomains : InDomain(h, LocalDomains[k])

\* What the operator asked for: local names and addresses direct, then the IP
\* rules, then the domain rules, then the default.
WantedActions(h, a) ==
    LET ips == {r \in asked.ips : InPrefix(a, r.cidr)}
        domains == {r \in asked.domains : InDomain(h, r.domain)}
    IN  IF IsLocal(h, a) THEN {"direct"}
        ELSE IF ips # {} THEN {r.action : r \in First(ips)}
        ELSE IF domains # {} THEN {r.action : r \in First(domains)}
        ELSE {asked.default}

EnabledParents == {<<p.address, p.port>> : p \in {q \in asked.parents : q.enabled}}

\* The lines Traffic Server obeys send every request where the rules the answer
\* of the last Create or Update showed say, read as prefixes; when no parent is
\* enabled everything goes direct (generateParentConfig, cidrToRange).
RoutesAsAsked ==
    served # None =>
        \A h \in Hosts, a \in Addrs :
            \E action \in WantedActions(h, a) :
                ToSet(Route(served, h, a)) =
                    IF action = "direct" THEN {} ELSE EnabledParents

\* A client is allowed or denied by the first ACL rule that covers it, and denied
\* when none does (generateIPAllowYaml, Create, Update).
ClientsAsAsked ==
    served # None =>
        \A a \in Addrs \cup {Loopback6} :
            LET rules == {r \in asked.acl : InPrefix(a, r.cidr)}
            IN  Verdict(served, a) \in
                    IF rules = {} THEN {"deny"} ELSE {r.action : r \in First(rules)}

Distinct(S) == \A r, s \in S : r.priority = s.priority => r = s

\* The hash a helper is given is that of the files it is given, although they are
\* rendered from two reads, as long as no two rows of a table have one priority
\* (GenerateConfigHash, GetConfig).
ServedIsHashed ==
    /\ served # None
    /\ Distinct(cfg.ips) /\ Distinct(cfg.domains)
    /\ Distinct(cfg.parents) /\ Distinct(cfg.acl)
    => served = hashed

\* "total wildcard is not allowed", "0.0.0.0/%d is not allowed": no set of accepted
\* rules, whatever way their CIDRs are typed, decides for every address or name.
NoTotalRule ==
    /\ \A r \in cfg.ips \cup cfg.acl : ~InPrefix(Zero, r.cidr)
    /\ \A r \in cfg.domains : \E h \in Hosts : ~InDomain(h, r.domain)

=============================================================================
