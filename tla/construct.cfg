SPECIFICATION Spec
CONSTANTS
  Files <- MCFiles
  Value = "value"
  MaxGets = 3
INVARIANTS ModelsAreSeparate ParametersInHost InputsLinked
