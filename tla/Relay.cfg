SPECIFICATION Spec
CONSTANTS
  Input = 2  MaxOutput = 3  BUFSIZ = 2
INVARIANT OutputRelayed
