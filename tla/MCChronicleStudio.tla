-------------------------- MODULE MCChronicleStudio --------------------------
\* Two small chronicles of three days with a change between two of them: one
\* begins with a hole, one ends on a quiet day.
EXTENDS ChronicleExport
CONSTANTS h1, h2
MCHashes == {h1, h2}
MCRanges == {<<1, 3>>, <<3, 3>>}
MCHistories == {<<NoFile, h1, h2>>, <<h1, h2, h2>>}
=============================================================================
