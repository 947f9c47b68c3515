---------------------------- MODULE MCBenchmark -----------------------------
(* Instances of Benchmark for TLC. *)
EXTENDS Benchmark

\* Two objects of different size.
TwoSizes == <<2, 1>>

\* One or two workers, whole objects or one byte of each, both encodings.
SomeOptions == [threads : {1, 2}, range_size : {0, 1}, base64 : BOOLEAN]

\* --range-size 1 with one worker, so that --out works.
RangeOptions == [threads : {1}, range_size : {1}, base64 : {FALSE}]
=============================================================================
