--------------------------- MODULE MCMarshalling ---------------------------
EXTENDS Marshalling

\* Every canonical name, a lowercase spelling and the annotation example of
\* macro_driver/src/lib.rs ("uint16"), which From<&String> does not know.
MCTypeNames == Names \cup {"varchar", "uint16"}
MCTextVals == {"x"}
=============================================================================
