--------------------------------- MODULE CSN ---------------------------------
(***************************************************************************)
(* Change sequence numbers (ldap/servers/slapd/csn.c): the total order on  *)
(* which every replication decision rests.  A CSN is the time stamp and    *)
(* sequence number drawn from the generator of replica rid; subseqnum      *)
(* tells apart the changes one operation is split into.                    *)
(***************************************************************************)
EXTENDS Integers

CSNRecord == [tstamp : Int, seqnum : Int, rid : Int, subseqnum : Int]

MakeCSN(t, s, r) == [tstamp |-> t, seqnum |-> s, rid |-> r, subseqnum |-> 0]

(* The NULL pointer: csn_compare puts it below every CSN.                  *)
NullCSN == MakeCSN(-1, 0, 0)

(* csn_compare(a, b) < 0 *)
CSNLess(a, b) ==
  \/ a.tstamp < b.tstamp
  \/ /\ a.tstamp = b.tstamp
     /\ \/ a.seqnum < b.seqnum
        \/ /\ a.seqnum = b.seqnum
           /\ \/ a.rid < b.rid
              \/ a.rid = b.rid /\ a.subseqnum < b.subseqnum

(* csn_compare(a, b) <= 0 *)
CSNLeq(a, b) == a = b \/ CSNLess(a, b)

(* csn_max *)
CSNMax(a, b) == IF CSNLess(a, b) THEN b ELSE a

=============================================================================
