---------------------------- MODULE MCReassembly ----------------------------
\* Instances of Reassembly for TLC: every way to cut ADUs of AduLength bytes.
EXTENDS Reassembly

AllFragments == {f \in [adu : Adu, offset : 0..(AduLength - 1), length : 1..AduLength] :
                   f.offset + f.length <= AduLength}
=============================================================================
