\* Session numbers modulo 32, packets up to fourteen sessions old.
CONSTANTS
  Half = 16
  Window = 14
SPECIFICATION Spec
INVARIANT ValidIffNotOlder
