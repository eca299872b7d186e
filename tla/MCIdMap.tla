------------------------------- MODULE MCIdMap -------------------------------
EXTENDS IdMap

MCPreregistered == <<"", "ignore", "air">>
MCNames == {"air", "default:chest", "default:sign", "bones:bones"}

\* a comment, an empty line, two positive patterns and a negative one
MCLines == << [first |-> "#", matches |-> {}],
              [first |-> "p", matches |-> {"default:chest", "default:sign"}],
              [first |-> "",  matches |-> {}],
              [first |-> "!", matches |-> {"default:sign", "air"}],
              [first |-> "p", matches |-> {"air", "bones:bones"}] >>

MCSymmetry == Permutations(Threads)
=============================================================================
