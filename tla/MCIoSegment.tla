---------------------------- MODULE MCIoSegment -----------------------------
(* One segment, three references and one expirer.                           *)
EXTENDS IoSegment, TLC

CONSTANTS t1, t2, t3, e1

MCThreads == {t1, t2, t3}
MCExpirers == {e1}
Symmetric == Permutations(MCThreads)
=============================================================================
