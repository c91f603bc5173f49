------------------------------ MODULE MCReferral ------------------------------
EXTENDS Referral, TLC

MCSymmetry == Permutations(Hashes) \cup Permutations(PKIDs)

\* CSV rows whose every column parses: the runs about races among handlers
\* leave the parse errors, each an early return, out of the inputs.
MCParsedRows == [hash : Hashes \cup {NewHash}, pkid : PKIDs, terms : Terms,
                 active : BOOLEAN, valid : {TRUE}]
=============================================================================
