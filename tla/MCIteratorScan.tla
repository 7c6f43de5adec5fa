---------------------------- MODULE MCIteratorScan ----------------------------
EXTENDS IteratorScan

\* -1 is the documented "no limit" and the default of Iterator::New; 0 is a
\* limit the code takes for none; 2 and 3 fall inside and at the end of a batch.
MCLimits == {-1, 0, 2, 3}

=============================================================================
