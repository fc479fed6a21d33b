---------------------------- MODULE MCTagHistory -----------------------------
(* Two tags and up to three requests.                                        *)
EXTENDS TagHistory

CONSTANTS t1, t2

TwoTags == {t1, t2}
==============================================================================
