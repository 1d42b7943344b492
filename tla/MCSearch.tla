------------------------------ MODULE MCSearch ------------------------------
\* The data file of the run of Search, and counts below and beyond their bounds.
EXTENDS Search

MCLines == <<<<"q", " ", "b", " ", "2">>, <<"b", "q", " ", "1">>, <<"b", "b", "q", " ", "1">>>>
MCJunk == {-1, 3}
=============================================================================
