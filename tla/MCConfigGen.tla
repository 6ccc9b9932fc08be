----------------------------- MODULE MCConfigGen -----------------------------
(***************************************************************************)
(* Addresses of four bits.  The requests: every way to type a CIDR,        *)
(* alone; overlapping rules with equal and distinct priorities; and what   *)
(* validateRules refuses.                                                  *)
(***************************************************************************)
EXTENDS ConfigGen

Name(labels, wild) == [labels |-> labels, wild |-> wild]

MCHosts == {<<"y">>, <<"x", "y">>, <<"a", "x", "y">>, <<"api", "local">>, <<"localhost">>}
MCLocalRanges == << <<{1, 2}, 1..4>>, <<{2, 3}, {2, 3}>> >>
MCLocalDomains == <<Name(<<"local">>, TRUE), Name(<<"localhost">>, FALSE)>>
MCLoopback == {1, 2, 4}
MCLoopback6 == {0}    \* any set that is no IPv4 address
MCPrivate == [ip |-> {1}, len |-> 2]

Cidr(ip, len) == [ip |-> ip, len |-> len]
IpRule(cidr, action, priority) == [cidr |-> cidr, action |-> action, priority |-> priority]
DomainRule(d, action, priority) == [domain |-> d, action |-> action, priority |-> priority]
Parent(port, priority, enabled) ==
    [address |-> {1, 4}, port |-> port, priority |-> priority, enabled |-> enabled]

Parents == {{}, {Parent(3128, 1, FALSE)},
            {Parent(3128, 1, TRUE), Parent(3129, 1, TRUE), Parent(3130, 2, FALSE)}}

\* Each CIDR alone, as the destination of an IP rule and in the ACL.
Single ==
    {[default |-> "direct", domains |-> {}, parents |-> {Parent(1024, 1, TRUE)},
      ips |-> {IpRule(c, "parent", 1)}, acl |-> {IpRule(c, "allow", 1)}] :
        c \in [ip : Addrs, len : Bare..Width]}

\* Two overlapping IP rules, or one CIDR twice.
Overlaps ==
    {S \in SUBSET {IpRule(c, a, p) :
                c \in {Cidr({2, 4}, Bare), Cidr({2, 4}, 2), Cidr({2}, 3)},
                a \in {"direct", "parent"}, p \in {1, 2}} : Cardinality(S) = 2}

IpPairs ==
    {[default |-> "direct", domains |-> {}, parents |-> {Parent(65535, 1, TRUE)},
      ips |-> s, acl |-> {}] : s \in Overlaps}

\* Up to two overlapping domain rules, under every default and set of parents.
DomainPairs ==
    {[default |-> d, domains |-> s, parents |-> p, acl |-> {}, ips |-> {}] :
        d \in {"", "parent"}, p \in Parents,
        s \in {S \in SUBSET {DomainRule(n, a, q) :
                    n \in {Name(<<"x", "y">>, TRUE), Name(<<"a", "x", "y">>, FALSE)},
                    a \in {"direct", "parent"}, q \in {1, 2}} : Cardinality(S) <= 2}}

\* Two overlapping ACL rules, with a rule of each other kind.
AclPairs ==
    {[default |-> "parent", parents |-> {Parent(3128, 1, TRUE)},
      domains |-> {DomainRule(Name(<<"api", "local">>, FALSE), "parent", 1)},
      ips |-> {IpRule(Cidr({1, 3, 4}, 2), "direct", 1)}, acl |-> s] :
        s \in {S \in SUBSET {IpRule(c, a, p) :
                    c \in {Cidr({1, 4}, 3), Cidr({1}, 2), Cidr(Loopback6, Bare)},
                    a \in {"allow", "deny"}, p \in {1, 2}} : Cardinality(S) = 2}}

Plain == [default |-> "direct", domains |-> {}, parents |-> {}, ips |-> {}, acl |-> {}]

Refused ==
    {[Plain EXCEPT !.default = "drop"],
     [Plain EXCEPT !.parents = {Parent(1023, 1, TRUE)}],
     [Plain EXCEPT !.parents = {Parent(65536, 1, TRUE)}],
     [Plain EXCEPT !.acl = {IpRule(MCPrivate, "drop", 1)}]}
    \cup {[Plain EXCEPT !.domains = {DomainRule(Name(l, TRUE), "direct", 1)}] :
            l \in {<<>>, <<"y">>}}

MCRequests == Single \cup IpPairs \cup DomainPairs \cup AclPairs \cup Refused

=============================================================================
