SPECIFICATION Spec
CONSTANTS
  Base = 8
  HashSize = 2
  MaxBytes = 6
  SampleBytes = {0, 1, 2, 7}
  Nil = Nil
INVARIANTS EncodingsFaithful SignaturesDistinct SCTBindsCertificate DERFaithful TemplateReadBack CriticalUnderstood
CHECK_DEADLOCK FALSE
