------------------------------ MODULE FakeIpMap ------------------------------
(***************************************************************************)
(* What the fake-ip pool promises to the DNS server and to the tunnel: a   *)
(* one to one table of hosts and addresses, read and changed in single     *)
(* steps.  FakeIpPool is the code.  It is shown to implement this table    *)
(* except while something that takes no lock overlaps an operation: valid  *)
(* is false from then on, until the table is emptied.                      *)
(***************************************************************************)
EXTENDS Naturals

CONSTANTS Hosts, Addresses, NoHost

VARIABLES
    map,      \* pairs of a host and its address
    answer,   \* the last pair a client was given
    valid

absVars == <<map, answer, valid>>

Known == {e[1] : e \in map}

Owners(ip) == {e[1] : e \in {x \in map : x[2] = ip}}

Init == map = {} /\ answer = <<NoHost, 0>> /\ valid = TRUE

\* A known host keeps its address.  Another one gets an address of the range: the host that
\* had it is forgotten, and no other; if it was free one host may be forgotten.
Lookup(h) ==
    /\ valid /\ valid'
    /\ \/ h \in Known /\ map' = map
       \/ /\ h \notin Known
          /\ \E ip \in Addresses, gone \in SUBSET map :
                /\ \A d, e \in gone : d = e
                /\ Owners(ip) # {} => {e[1] : e \in gone} = Owners(ip)
                /\ map' = (map \ gone) \cup {<<h, ip>>}
    /\ answer'[1] = h /\ answer' \in map'

\* An address leads back to its host, if it has one.
LookBack ==
    /\ valid /\ valid' /\ map' = map
    /\ LET owners == Owners(answer'[2])
       IN  answer'[1] \in IF owners = {} THEN {NoHost} ELSE owners

\* A flush, or the end of the process, loses entries; it invents none.
Forget == valid' /\ answer' = <<NoHost, 0>> /\ (valid => map' \subseteq map) /\ (~valid => map' = {})

Overlap == ~valid'

Next ==
    \/ \E h \in Hosts : Lookup(h)
    \/ LookBack
    \/ Forget
    \/ Overlap

Spec == Init /\ [][Next]_absVars

=============================================================================
