SPECIFICATION Spec
CONSTANT Width = 4
INVARIANT InterchangeableIffPlain
