--------------------------- MODULE MCNodeRequests ---------------------------
EXTENDS NodeRequests

\* Two rates of the rotation sensor; an adaptor with a range, a gap and a
\* discrete value: 2 and 5 are exact, 4 and 9 are rounded to an edge.
MCRotationRanges == << [min |-> 2, max |-> 2], [min |-> 5, max |-> 9] >>
MCAdaptorRanges  == << [min |-> 1, max |-> 3], [min |-> 6, max |-> 6] >>
MCDataRanges     == <<1, 2, 5>>
=============================================================================
