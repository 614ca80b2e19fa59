------------------------- MODULE MCCertificateLedger -------------------------
(***************************************************************************)
(* Small instances of CertificateLedger.                                   *)
(***************************************************************************)
EXTENDS CertificateLedger

\* Two registrations race; or one request at a time registers and edits.
RegisterOrAlone ==
    {[requests |-> {1, 2}, certs |-> Certs, editing |-> FALSE],
     [requests |-> {1}, certs |-> {1, 2}, editing |-> TRUE]}

\* Two requests, both of which may edit.
TwoEditors == {[requests |-> {1, 2}, certs |-> Certs, editing |-> TRUE]}
=============================================================================
