---------------------------- MODULE MCUplinkRecv ----------------------------
EXTENDS UplinkRecv, SequencesExt

\* A checksum in the place of GetCRC16.
CheckSum(s) == FoldSeq(LAMBDA b, t : (t + b) % (ByteVals * ByteVals), 0, s)
=============================================================================
