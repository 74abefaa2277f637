----------------------------- MODULE MCHelperCli -----------------------------
(***************************************************************************)
(* HelperCli on every command line of at most MaxArgs arguments.           *)
(***************************************************************************)
EXTENDS HelperCli, SequencesExt

CONSTANT MaxArgs

ShortLines ==
  [primary : {"build-llvm", "application"}, args : SeqOf(Words, MaxArgs)]

=============================================================================
