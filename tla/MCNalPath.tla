----------------------------- MODULE MCNalPath -----------------------------
(* Bounded inputs for NalPath: NAL headers the encoders emit, lengths in    *)
(* hundreds of bytes so that some samples look like Annex-B.               *)
EXTENDS NalPath, TLC

Nal(first, len) == [first |-> first, len |-> len]

\* HEVC: two versions of a VPS, a kept and an oversized IDR_W_RADL, TRAIL_R.
HevcFrames == {Nal(64, 300), Nal(64, 600), Nal(38, 300), Nal(38, 900), Nal(2, 600)}

\* H264: SPS, IDR, a P slice; and a frame without a start code.
H264Frames == {Nal(103, 300), Nal(101, 600), Nal(1, 300), Nal(None, 300)}

MixedFrames == HevcFrames \cup H264Frames

Made(first, len, code) == [first |-> first, len |-> len, code |-> code]

\* A key picture; P slices of a length that is misread as an IDR (256 + 5), as
\* an HEVC VPS (256 + 64), or not at all.
KeyAndP == {<<Made(103, 10, 4), Made(104, 5, 3), Made(101, 400, 4)>>,
            <<Made(65, 261, 4)>>, <<Made(65, 320, 4)>>, <<Made(65, 520, 3)>>}

EvenAndOdd == {<<2, 2>>, <<3, 2>>}
=============================================================================
