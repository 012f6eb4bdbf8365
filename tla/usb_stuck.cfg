SPECIFICATION CarelessSpec
CONSTANT MaxPipes = 6
PROPERTY GetsConfigured
