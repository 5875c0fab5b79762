----------------------------- MODULE HealthProbe ----------------------------
(***************************************************************************)
(* The container's probe of /healthz (healthcheck.py) connects over        *)
(* loopback, but Django compares the Host header it sends with             *)
(* ALLOWED_HOSTS.  Both are read from DJANGO_ALLOWED_HOSTS, by two pieces  *)
(* of code.  The variable is a sequence of entries, or Unset; an entry is  *)
(* a name, a name with a dot before it, the star, or nothing but blanks.   *)
(***************************************************************************)
EXTENDS SequencesExt

CONSTANT HostNames   \* the names a deployment may list

ASSUME HostAssumption == {"localhost", "127.0.0.1"} \subseteq HostNames

Entry(kind, name) == [kind |-> kind, name |-> name]
Star == Entry("star", "")
Blank == Entry("blank", "")
Entries == {Entry(k, n) : k \in {"exact", "dotted"}, n \in HostNames} \cup {Star, Blank}

Unset == <<Entry("unset", "")>>

\* _csv, with the default that settings.py gives it.
AllowedHosts(variable) ==
    IF variable = Unset THEN {Entry("exact", "localhost"), Entry("exact", "127.0.0.1")}
    ELSE ToSet(variable) \ {Blank}

\* Django: the star matches everything, ".example.com" its own name too.
Accepts(allowed, name) ==
    \E e \in allowed : e = Star \/ e.name = name

\* A bug: the header names the address the probe connects to.
LoopbackHeader(variable) == "127.0.0.1"

\* allowed_host_header: the first name that is listed, without its dot.
AllowedHostHeader(variable) ==
    LET i == SelectInSeq(variable, LAMBDA e : e.kind \in {"exact", "dotted"}) IN
    IF i = 0 THEN "localhost" ELSE variable[i].name
=============================================================================
